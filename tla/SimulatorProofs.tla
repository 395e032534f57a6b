--------------------------- MODULE SimulatorProofs ----------------------------
(***************************************************************************)
(* Proofs about A5's simulator, for every command line and listing that    *)
(* can be read: registers and memory hold words, memory holds the program  *)
(* and its arguments when the listing has been read, and a covered         *)
(* instruction does what RISC-V defines, for each of the 2^32 instruction  *)
(* words, all operands and all contents of memory.  Words are functions    *)
(* from 32 bits, so the proofs are about bits: which ones a field is made  *)
(* of, what an addition carries, where in a word a byte is.                *)
(***************************************************************************)
EXTENDS Simulator, FiniteSetTheorems, SequenceTheorems, TLAPS

(* A set of natural numbers that has 0, and with a number the next one up to N, has all up to N. *)
LEMMA UpTo ==
  ASSUME NEW N \in Nat, NEW S, 0 \in S, \A k \in 0 .. N : k \in S /\ k < N => k + 1 \in S
  PROVE  0 .. N \subseteq S
<1> DEFINE T == {x \in 0 .. N : x \notin S}
           X == {0 .. x : x \in T}
           R == StrictSubsetOrdering(Nat)
<1> SUFFICES ASSUME T # {} PROVE FALSE OBVIOUS
<1>1. X \subseteq FiniteSubsetsOf(Nat)
  <2> SUFFICES ASSUME NEW x \in T PROVE 0 .. x \in FiniteSubsetsOf(Nat) OBVIOUS
  <2>1. x \in Nat /\ 0 .. x \in SUBSET Nat OBVIOUS
  <2>2. IsFiniteSet(0 .. x) BY <2>1, FS_Interval
  <2> QED BY <2>1, <2>2 DEF FiniteSubsetsOf
<1>2. X # {} OBVIOUS
<1>3. IsWellFoundedOn(R, FiniteSubsetsOf(Nat)) BY FS_StrictSubsetOrderingWellFounded
<1>4. \E x \in X : \A y \in X : ~(<<y, x>> \in R)
  <2> HIDE DEF X, R
  <2> QED BY <1>1, <1>2, <1>3, WFMin
<1>5. PICK m \in T : \A x \in T : <<0 .. x, 0 .. m>> \notin R BY <1>4
<1>6. m # 0 /\ m - 1 \in 0 .. N /\ m - 1 < N /\ m - 1 + 1 = m OBVIOUS
<1>7. m - 1 \in T BY <1>6
<1>8. <<0 .. m - 1, 0 .. m>> \in R
  <2>1. 0 .. m - 1 \in SUBSET Nat /\ 0 .. m \in SUBSET Nat /\ 0 .. m - 1 \subseteq 0 .. m OBVIOUS
  <2>2. 0 .. m - 1 # 0 .. m
    <3>1. m \in 0 .. m /\ m \notin 0 .. m - 1 OBVIOUS
    <3> QED BY <3>1
  <2> QED BY <2>1, <2>2 DEF StrictSubsetOrdering
<1> QED BY <1>5, <1>7, <1>8

\* u is computed from a by the steps of g: its first value is a, and each other one comes from the
\* one before it.
Steps(u, N, a, g) == u = [k \in 0 .. N |-> IF k = 0 THEN a ELSE g[k, u[k - 1]]]

(* There is such a function. *)
LEMMA StepsExist ==
  ASSUME NEW N \in Nat, NEW V, NEW a \in V, NEW g \in [(1 .. N) \X V -> V]
  PROVE  \E u \in [0 .. N -> V] : Steps(u, N, a, g)
<1> DEFINE Good(u, n) == u[0] = a /\ \A k \in 1 .. n : u[k] = g[k, u[k - 1]]
           F == [0 .. N -> V]
           S == {n \in 0 .. N : \E u \in F : Good(u, n)}
<1>1. 0 \in S
  <2> DEFINE c == [k \in 0 .. N |-> a]
  <2>1. c \in F /\ c[0] = a OBVIOUS
  <2>2. Good(c, 0) BY <2>1
  <2> HIDE DEF Good, F, c
  <2> QED BY <2>1, <2>2
<1>2. ASSUME NEW n \in 0 .. N, n \in S, n < N PROVE n + 1 \in S
  <2>1. PICK u \in F : Good(u, n)
    <3> HIDE DEF Good, F
    <3> QED BY <1>2
  <2>0. u \in [0 .. N -> V] BY <2>1
  <2>2. n \in 0 .. N /\ n + 1 \in 1 .. N /\ n \in Nat /\ n + 1 \in 0 .. N
    <3> HIDE DEF S
    <3> QED BY <1>2
  <2>20. u[n] \in V BY <2>0, <2>2
  <2>3. PICK b \in V : b = g[n + 1, u[n]]
    <3>1. <<n + 1, u[n]>> \in (1 .. N) \X V BY <2>2, <2>20
    <3> QED BY <3>1
  <2> DEFINE v == [u EXCEPT ![n + 1] = b]
  <2>4. v \in F /\ v[0] = a
    <3>1. 0 # n + 1 /\ 0 \in 0 .. N BY <2>2
    <3>2. u[0] = a BY <2>1
    <3>3. v \in [0 .. N -> V] BY <2>0, <2>2
    <3>4. v[0] = u[0] BY <2>0, <3>1
    <3> QED BY <3>2, <3>3, <3>4
  <2>5. ASSUME NEW k \in 1 .. n + 1 PROVE v[k] = g[k, v[k - 1]]
    <3>1. CASE k = n + 1
      <4>1. k - 1 = n /\ n # n + 1 /\ n \in 0 .. N /\ n + 1 \in 0 .. N BY <3>1, <2>2
      <4>2. v[n] = u[n] /\ v[n + 1] = b BY <4>1, <2>0
      <4> HIDE DEF v
      <4> QED BY <3>1, <4>1, <4>2, <2>3
    <3>2. CASE k # n + 1
      <4>1. k \in 1 .. n /\ k \in 0 .. N /\ k - 1 \in 0 .. N /\ k # n + 1 /\ k - 1 # n + 1 BY <3>2, <2>2
      <4>2. v[k] = u[k] /\ v[k - 1] = u[k - 1] BY <4>1, <2>0
      <4> HIDE DEF v
      <4> QED BY <2>1, <4>1, <4>2
    <3> QED BY <3>1, <3>2
  <2>6. Good(v, n + 1) BY <2>4, <2>5
  <2>7. n + 1 \in 0 .. N BY <2>2
  <2> HIDE DEF Good, F, v
  <2> QED BY <2>4, <2>6, <2>7
<1>3. N \in S
  <2> HIDE DEF S
  <2> QED BY <1>1, <1>2, UpTo
<1>4. PICK u \in F : Good(u, N)
  <2> HIDE DEF Good, F
  <2> QED BY <1>3
<1>5. u = [k \in 0 .. N |-> IF k = 0 THEN a ELSE g[k, u[k - 1]]]
  <2>1. u = [k \in 0 .. N |-> u[k]] BY <1>4
  <2>2. ASSUME NEW k \in 0 .. N PROVE u[k] = IF k = 0 THEN a ELSE g[k, u[k - 1]]
    <3>1. k # 0 => k \in 1 .. N OBVIOUS
    <3> QED BY <1>4, <3>1
  <2> QED BY <2>1, <2>2
<1> QED BY <1>4, <1>5 DEF Steps

-----------------------------------------------------------------------------
(* Fields of words as numbers. *)

\* u are the numbers that Field goes through for the n bits from bit lo on.
Sums(u, w, lo, n) == /\ u \in [0 .. n -> Nat] /\ u[0] = 0
                     /\ \A k \in 1 .. n : u[k] = 2 * u[k - 1] + w[lo + n - k]

(* A field is the last number of such a sequence. *)
LEMMA FieldIs ==
  ASSUME NEW w, NEW lo \in Nat, NEW n \in Nat, \A k \in lo .. lo + n - 1 : w[k] \in Bit
  PROVE  \E u : Sums(u, w, lo, n) /\ Field(w, lo, n) = u[n]
<1> DEFINE Is(u) == u = [k \in 0 .. n |-> IF k = 0 THEN 0 ELSE 2 * u[k - 1] + w[lo + n - k]]
           upper == CHOOSE u : Is(u)
           g == [x \in (1 .. n) \X Nat |-> 2 * x[2] + w[lo + n - x[1]]]
<1>1. Field(w, lo, n) = upper[n] BY DEF Field
<1>2. \A k \in 1 .. n : w[lo + n - k] \in Nat
  <2> SUFFICES ASSUME NEW k \in 1 .. n PROVE w[lo + n - k] \in Nat OBVIOUS
  <2>1. lo + n - k \in lo .. lo + n - 1 OBVIOUS
  <2> QED BY <2>1 DEF Bit
<1>3. g \in [(1 .. n) \X Nat -> Nat] BY <1>2
<1>4. PICK v \in [0 .. n -> Nat] : Steps(v, n, 0, g) BY <1>3, StepsExist
<1>5. Is(v)
  <2>1. \A k \in 0 .. n : k # 0 => g[k, v[k - 1]] = 2 * v[k - 1] + w[lo + n - k]
    <3> SUFFICES ASSUME NEW k \in 0 .. n, k # 0 PROVE g[k, v[k - 1]] = 2 * v[k - 1] + w[lo + n - k] OBVIOUS
    <3>1. <<k, v[k - 1]>> \in (1 .. n) \X Nat OBVIOUS
    <3> QED BY <3>1
  <2> HIDE DEF g
  <2> QED BY <1>4, <2>1 DEF Steps
<1>6. Is(upper) BY <1>5
<1> HIDE DEF upper
<1>7. upper \in [0 .. n -> Nat] /\ upper[0] = 0
  /\ \A k \in 1 .. n : upper[k] = 2 * upper[k - 1] + w[lo + n - k]
  <2>1. DOMAIN upper = 0 .. n /\ upper = [k \in 0 .. n |-> upper[k]] BY <1>6
  <2>2. upper[0] = 0 BY <1>6
  <2>3. \A k \in 1 .. n : upper[k] = 2 * upper[k - 1] + w[lo + n - k] BY <1>6
  <2> DEFINE S == {k \in 0 .. n : upper[k] \in Nat}
  <2>4. 0 .. n \subseteq S
    <3>1. 0 \in S BY <2>2
    <3>2. ASSUME NEW k \in 0 .. n, k \in S, k < n PROVE k + 1 \in S
      <4>1. k + 1 \in 1 .. n /\ k + 1 - 1 = k /\ upper[k] \in Nat BY <3>2
      <4>2. upper[k + 1] = 2 * upper[k] + w[lo + n - (k + 1)] BY <2>3, <4>1
      <4>3. w[lo + n - (k + 1)] \in Nat BY <1>2, <4>1
      <4>5. \A a, b \in Nat : 2 * a + b \in Nat OBVIOUS
      <4>4. upper[k + 1] \in Nat BY ONLY <4>1, <4>2, <4>3, <4>5
      <4> QED BY <4>1, <4>4
    <3> HIDE DEF S
    <3> QED BY <3>1, <3>2, UpTo
  <2> QED BY <2>1, <2>2, <2>3, <2>4
<1> QED BY <1>1, <1>7 DEF Sums

-----------------------------------------------------------------------------
(* The specification of RISC-V speaks of the same words. *)

(* Fields, *)
LEMMA SameField == \A w, lo, n : ISA!Field(w, lo, n) = Field(w, lo, n)
BY DEF ISA!Field, Field

(* sums, *)
LEMMA SameSum ==
  \A a, b : ISA!Add(a, b) = Add(a, b) /\ ISA!Sub(a, b) = Sub(a, b) /\ ISA!Not(a) = Not(a)
BY DEF ISA!Add, Add, ISA!Sub, Sub, ISA!SumWithCarry, SumWithCarry, ISA!Not, Not, ISA!Bits, Bits

(* numbers, *)
LEMMA SameNatural == \A n : ISA!Natural(n) = Natural(n)
BY DEF ISA!Natural, Natural, ISA!Bits, Bits

(* comparisons, *)
LEMMA SameOrder == \A a, b : (ISA!Below(a, b) <=> Below(a, b)) /\ (ISA!Less(a, b) <=> Less(a, b))
BY DEF ISA!Below, Below, ISA!Less, Less, ISA!IsNegative, IsNegative, ISA!Bits, Bits

(* bitwise operations, *)
LEMMA SameBitwise ==
  \A a, b : /\ ISA!And(a, b) = And(a, b) /\ ISA!Or(a, b) = Or(a, b) /\ ISA!Xor(a, b) = Xor(a, b)
            /\ ISA!ShiftLeft(a, b) = ShiftLeft(a, b) /\ ISA!ShiftRight(a, b) = ShiftRight(a, b)
BY DEF ISA!And, And, ISA!Or, Or, ISA!Xor, Xor, ISA!ShiftLeft, ShiftLeft, ISA!ShiftRight, ShiftRight, ISA!Bits, Bits

(* products, *)
LEMMA SameProduct ==
  \A a, b : ISA!Product(a, b) = Product(a, b) /\ ISA!HighOfSigned(a, b) = HighOfSigned(a, b)
BY DEF ISA!Product, Product, ISA!ProductFrom, ProductFrom, ISA!Unsigned, Unsigned, ISA!Bits, Bits,
       ISA!HighOfSigned, HighOfSigned, ISA!Signed, Signed, ISA!Cardinality, Cardinality

(* constants, *)
LEMMA SameConstants == ISA!Zero = Zero /\ ISA!Ones = Ones /\ ISA!Lowest = Lowest
BY DEF ISA!Zero, Zero, ISA!Ones, Ones, ISA!Lowest, Lowest, ISA!Bits, Bits

(* conversions, *)
LEMMA SameNumbers ==
  \A a : ISA!ToInt(a) = ToInt(a) /\ ISA!OfInt(a) = OfInt(a) /\ ISA!Plus(a, 4) = Plus(a, 4)
        /\ (ISA!IsNegative(a) <=> IsNegative(a))
BY SameField, SameSum, SameNatural
   DEF ISA!ToInt, ToInt, ISA!OfInt, OfInt, ISA!Plus, Plus, ISA!IsNegative, IsNegative

(* quotients, *)
LEMMA SameQuotient ==
  \A a, b : /\ ISA!SignedQuotient(a, b) = SignedQuotient(a, b)
            /\ ISA!Quotient(a, b) = Quotient(a, b) /\ ISA!Remainder(a, b) = Remainder(a, b)
<1> SUFFICES ASSUME NEW a, NEW b
             PROVE  /\ ISA!SignedQuotient(a, b) = SignedQuotient(a, b)
                    /\ ISA!Quotient(a, b) = Quotient(a, b) /\ ISA!Remainder(a, b) = Remainder(a, b)
  OBVIOUS
<1>1. ISA!SignedQuotient(a, b) = SignedQuotient(a, b)
  BY SameNumbers, SameConstants, SameNatural DEF ISA!SignedQuotient, SignedQuotient
<1>2. ISA!Quotient(a, b) = Quotient(a, b)
  BY SameNumbers, SameConstants, SameNatural, SameField, SameOrder DEF ISA!Quotient, Quotient, ISA!Bits, Bits
<1>3. ISA!Remainder(a, b) = Remainder(a, b)
  BY SameNumbers, SameField, SameOrder, SameNatural, SameSum DEF ISA!Remainder, Remainder
<1> QED BY <1>1, <1>2, <1>3

(* memory, *)
LEMMA SameMemory ==
  \A m, a : /\ ISA!place(a) = place(a) /\ ISA!memory_rd_w(m, a) = memory_rd_w(m, a)
            /\ ISA!memory_rd_b(m, a) = memory_rd_b(m, a)
BY SameField, SameConstants DEF ISA!place, place, ISA!page_number, page_number, ISA!index, index,
  ISA!memory_rd_w, memory_rd_w, ISA!memory_rd_b, memory_rd_b, ISA!word_at, word_at, ISA!get_page, get_page,
  ISA!Extract, Extract, ISA!ByteAt, ByteAt, ISA!Bits, Bits

(* and parts of words are the same in both specifications. *)
LEMMA SameExtract == \A w, lo, n : ISA!Extract(w, lo, n) = Extract(w, lo, n)
BY DEF ISA!Extract, Extract, ISA!Bits, Bits

-----------------------------------------------------------------------------
(* Words and their fields. *)

(* A word has 32 bits. *)
LEMMA WordIs ==
  ASSUME NEW a \in Word
  PROVE  /\ DOMAIN a = Bits /\ a = [i \in Bits |-> a[i]]
         /\ \A i \in 0 .. 31 : a[i] \in {0, 1} /\ a[i] \in Nat
BY DEF Word, Bits, Bit

(* Words with the same bits are the same word. *)
LEMMA SameBits ==
  ASSUME NEW a \in Word, NEW b \in Word, \A i \in 0 .. 31 : a[i] = b[i]
  PROVE  a = b
BY DEF Word, Bits

(* Fields with the same bits are the same number. *)
LEMMA FieldOfSame ==
  ASSUME NEW w, NEW v, NEW lo \in Nat, NEW n \in Nat,
         \A k \in lo .. lo + n - 1 : w[k] \in Bit /\ v[k] = w[k]
  PROVE  Field(w, lo, n) = Field(v, lo, n)
<1>1. \A k \in lo .. lo + n - 1 : w[k] \in Bit OBVIOUS
<1>2. \A k \in lo .. lo + n - 1 : v[k] \in Bit OBVIOUS
<1>3. PICK u : Sums(u, w, lo, n) /\ Field(w, lo, n) = u[n]
  BY <1>1, FieldIs
<1>4. PICK t : Sums(t, v, lo, n) /\ Field(v, lo, n) = t[n]
  BY <1>2, FieldIs
<1> DEFINE S == {k \in 0 .. n : u[k] = t[k]}
<1>5. 0 \in S BY <1>3, <1>4 DEF Sums
<1>6. ASSUME NEW k \in 0 .. n, k \in S, k < n PROVE k + 1 \in S
  <2>1. k + 1 \in 1 .. n /\ k + 1 - 1 = k /\ u[k] = t[k] BY <1>6
  <2>2. lo + n - (k + 1) \in lo .. lo + n - 1 BY <2>1
  <2>3. v[lo + n - (k + 1)] = w[lo + n - (k + 1)] BY <2>2
  <2>4. u[k + 1] = 2 * u[k] + w[lo + n - (k + 1)] /\ t[k + 1] = 2 * t[k] + v[lo + n - (k + 1)]
    BY <1>3, <1>4, <2>1 DEF Sums
  <2> QED BY <2>1, <2>3, <2>4
<1>7. n \in S
  <2> HIDE DEF S
  <2>1. 0 .. n \subseteq S BY <1>5, <1>6, UpTo
  <2> QED BY <2>1
<1> QED BY <1>3, <1>4, <1>7

(* and fields that are the same number have the same bits. *)
LEMMA FieldTells ==
  ASSUME NEW w, NEW v, NEW lo \in Nat, NEW n \in Nat,
         \A k \in lo .. lo + n - 1 : w[k] \in Bit, \A k \in lo .. lo + n - 1 : v[k] \in Bit,
         Field(w, lo, n) = Field(v, lo, n)
  PROVE  \A k \in lo .. lo + n - 1 : w[k] = v[k]
<1>3. PICK u : Sums(u, w, lo, n) /\ Field(w, lo, n) = u[n]
  BY FieldIs
<1>4. PICK t : Sums(t, v, lo, n) /\ Field(v, lo, n) = t[n]
  BY FieldIs
<1>5. ASSUME NEW k \in 1 .. n, u[k] = t[k] PROVE u[k - 1] = t[k - 1] /\ w[lo + n - k] = v[lo + n - k]
  <2>1. lo + n - k \in lo .. lo + n - 1 /\ k - 1 \in 0 .. n OBVIOUS
  <2>2. w[lo + n - k] \in {0, 1} /\ v[lo + n - k] \in {0, 1} BY <2>1 DEF Bit
  <2>3. u[k - 1] \in Nat /\ t[k - 1] \in Nat BY <1>3, <1>4, <2>1 DEF Sums
  <2>4. 2 * u[k - 1] + w[lo + n - k] = 2 * t[k - 1] + v[lo + n - k] BY <1>3, <1>4, <1>5 DEF Sums
  <2> HIDE DEF Field
  <2> QED BY <2>2, <2>3, <2>4
<1> DEFINE S == {k \in 0 .. n : u[n - k] = t[n - k]}
<1>6. 0 \in S
  <2>1. u[n] = t[n] BY <1>3, <1>4, Zenon
  <2>2. n - 0 = n OBVIOUS
  <2> QED BY <2>1, <2>2
<1>7. ASSUME NEW k \in 0 .. n, k \in S, k < n PROVE k + 1 \in S
  <2>1. n - k \in 1 .. n /\ n - k - 1 = n - (k + 1) /\ k + 1 \in 0 .. n /\ u[n - k] = t[n - k] BY <1>7
  <2>2. u[n - k - 1] = t[n - k - 1] BY <1>5, <2>1
  <2> QED BY <2>1, <2>2
<1>8. 0 .. n \subseteq S
  <2> HIDE DEF S
  <2> QED BY <1>6, <1>7, UpTo
<1>9. ASSUME NEW k \in lo .. lo + n - 1 PROVE w[k] = v[k]
  <2> DEFINE j == lo + n - k
  <2>1. j \in 1 .. n /\ lo + n - j = k /\ n - j \in 0 .. n /\ n - (n - j) = j OBVIOUS
  <2>2. u[j] = t[j] BY <1>8, <2>1
  <2>3. w[lo + n - j] = v[lo + n - j]
    <3> HIDE DEF j
    <3> QED BY <1>5, <2>1, <2>2
  <2> QED BY <2>1, <2>3
<1> QED BY <1>9

(* Short fields. *)
LEMMA ShortField ==
  ASSUME NEW w, NEW lo \in Nat
  PROVE  /\ (\A k \in lo .. lo + 2 : w[k] \in Bit) => Field(w, lo, 3) = 4 * w[lo + 2] + 2 * w[lo + 1] + w[lo]
         /\ (\A k \in lo .. lo + 3 : w[k] \in Bit) =>
              Field(w, lo, 4) = 8 * w[lo + 3] + 4 * w[lo + 2] + 2 * w[lo + 1] + w[lo]
         /\ (\A k \in lo .. lo + 4 : w[k] \in Bit) =>
              Field(w, lo, 5) = 16 * w[lo + 4] + 8 * w[lo + 3] + 4 * w[lo + 2] + 2 * w[lo + 1] + w[lo]
<1>1. ASSUME \A k \in lo .. lo + 2 : w[k] \in Bit PROVE Field(w, lo, 3) = 4 * w[lo + 2] + 2 * w[lo + 1] + w[lo]
  <2>1. PICK u : Sums(u, w, lo, 3) /\ Field(w, lo, 3) = u[3]
    <3>1. lo + 3 - 1 = lo + 2 OBVIOUS
    <3> QED BY <1>1, <3>1, FieldIs
  <2>2. u[1] = 2 * u[0] + w[lo + 2] /\ u[2] = 2 * u[1] + w[lo + 1] /\ u[3] = 2 * u[2] + w[lo]
    <3>1. lo + 3 - 1 = lo + 2 /\ lo + 3 - 2 = lo + 1 /\ lo + 3 - 3 = lo OBVIOUS
    <3>2. u[1] = 2 * u[1 - 1] + w[lo + 3 - 1] /\ u[2] = 2 * u[2 - 1] + w[lo + 3 - 2] /\ u[3] = 2 * u[3 - 1] + w[lo + 3 - 3]
      BY <2>1 DEF Sums
    <3>3. 1 - 1 = 0 /\ 2 - 1 = 1 /\ 3 - 1 = 2 OBVIOUS
    <3> QED BY <3>1, <3>2, <3>3
  <2>3. w[lo + 2] \in Nat /\ w[lo + 1] \in Nat /\ w[lo] \in Nat BY <1>1 DEF Bit
  <2>4. u[0] = 0 BY <2>1 DEF Sums
  <2> QED BY <2>1, <2>2, <2>3, <2>4
<1>2. ASSUME \A k \in lo .. lo + 3 : w[k] \in Bit
      PROVE  Field(w, lo, 4) = 8 * w[lo + 3] + 4 * w[lo + 2] + 2 * w[lo + 1] + w[lo]
  <2>1. PICK u : Sums(u, w, lo, 4) /\ Field(w, lo, 4) = u[4]
    <3>1. lo + 4 - 1 = lo + 3 OBVIOUS
    <3> QED BY <1>2, <3>1, FieldIs
  <2>2. u[1] = 2 * u[0] + w[lo + 3] /\ u[2] = 2 * u[1] + w[lo + 2] /\ u[3] = 2 * u[2] + w[lo + 1] /\ u[4] = 2 * u[3] + w[lo]
    <3>1. lo + 4 - 1 = lo + 3 /\ lo + 4 - 2 = lo + 2 /\ lo + 4 - 3 = lo + 1 /\ lo + 4 - 4 = lo OBVIOUS
    <3>2. /\ u[1] = 2 * u[1 - 1] + w[lo + 4 - 1] /\ u[2] = 2 * u[2 - 1] + w[lo + 4 - 2]
          /\ u[3] = 2 * u[3 - 1] + w[lo + 4 - 3] /\ u[4] = 2 * u[4 - 1] + w[lo + 4 - 4]
      BY <2>1 DEF Sums
    <3>3. 1 - 1 = 0 /\ 2 - 1 = 1 /\ 3 - 1 = 2 /\ 4 - 1 = 3 OBVIOUS
    <3> QED BY <3>1, <3>2, <3>3
  <2>3. w[lo + 3] \in Nat /\ w[lo + 2] \in Nat /\ w[lo + 1] \in Nat /\ w[lo] \in Nat BY <1>2 DEF Bit
  <2>4. u[0] = 0 BY <2>1 DEF Sums
  <2> QED BY <2>1, <2>2, <2>3, <2>4
<1>3. ASSUME \A k \in lo .. lo + 4 : w[k] \in Bit
      PROVE  Field(w, lo, 5) = 16 * w[lo + 4] + 8 * w[lo + 3] + 4 * w[lo + 2] + 2 * w[lo + 1] + w[lo]
  <2>1. PICK u : Sums(u, w, lo, 5) /\ Field(w, lo, 5) = u[5]
    <3>1. lo + 5 - 1 = lo + 4 OBVIOUS
    <3> QED BY <1>3, <3>1, FieldIs
  <2>2. /\ u[1] = 2 * u[0] + w[lo + 4] /\ u[2] = 2 * u[1] + w[lo + 3] /\ u[3] = 2 * u[2] + w[lo + 2]
        /\ u[4] = 2 * u[3] + w[lo + 1] /\ u[5] = 2 * u[4] + w[lo]
    <3>1. lo + 5 - 1 = lo + 4 /\ lo + 5 - 2 = lo + 3 /\ lo + 5 - 3 = lo + 2 /\ lo + 5 - 4 = lo + 1 /\ lo + 5 - 5 = lo OBVIOUS
    <3>2. /\ u[1] = 2 * u[1 - 1] + w[lo + 5 - 1] /\ u[2] = 2 * u[2 - 1] + w[lo + 5 - 2]
          /\ u[3] = 2 * u[3 - 1] + w[lo + 5 - 3] /\ u[4] = 2 * u[4 - 1] + w[lo + 5 - 4]
          /\ u[5] = 2 * u[5 - 1] + w[lo + 5 - 5]
      BY <2>1 DEF Sums
    <3>3. 1 - 1 = 0 /\ 2 - 1 = 1 /\ 3 - 1 = 2 /\ 4 - 1 = 3 /\ 5 - 1 = 4 OBVIOUS
    <3> QED BY <3>1, <3>2, <3>3
  <2>3. w[lo + 4] \in Nat /\ w[lo + 3] \in Nat /\ w[lo + 2] \in Nat /\ w[lo + 1] \in Nat /\ w[lo] \in Nat BY <1>3 DEF Bit
  <2>4. u[0] = 0 BY <2>1 DEF Sums
  <2> QED BY <2>1, <2>2, <2>3, <2>4
<1> QED BY <1>1, <1>2, <1>3

(* A field of a word is a natural number, and zero if and only if its bits are. *)
LEMMA FieldNat ==
  ASSUME NEW w \in Word, NEW lo \in Nat, NEW n \in Nat, lo + n <= 32
  PROVE  /\ Field(w, lo, n) \in Nat
         /\ Field(w, lo, n) = 0 <=> \A k \in lo .. lo + n - 1 : w[k] = 0
<1>1. \A k \in lo .. lo + n - 1 : w[k] \in Bit
  <2>1. \A k \in lo .. lo + n - 1 : k \in 0 .. 31 OBVIOUS
  <2> QED BY <2>1, WordIs DEF Bit
<1>2. PICK u : Sums(u, w, lo, n) /\ Field(w, lo, n) = u[n]
  BY <1>1, FieldIs
<1>3. Zero \in Word /\ \A k \in lo .. lo + n - 1 : Zero[k] = 0
  <2>1. Zero \in Word /\ \A k \in 0 .. 31 : Zero[k] = 0 BY DEF Zero, Word, Bits, Bit
  <2>2. \A k \in lo .. lo + n - 1 : k \in 0 .. 31 OBVIOUS
  <2> QED BY <2>1, <2>2
<1>4. Field(Zero, lo, n) = 0
  <2>1. \A k \in lo .. lo + n - 1 : Zero[k] \in Bit BY <1>3 DEF Bit
  <2>2. PICK t : Sums(t, Zero, lo, n) /\ Field(Zero, lo, n) = t[n]
    BY <2>1, FieldIs
  <2> DEFINE S == {k \in 0 .. n : t[k] = 0}
  <2>3. 0 \in S BY <2>2 DEF Sums
  <2>4. ASSUME NEW k \in 0 .. n, k \in S, k < n PROVE k + 1 \in S
    <3>1. k + 1 \in 1 .. n /\ k + 1 - 1 = k /\ t[k] = 0 /\ lo + n - (k + 1) \in lo .. lo + n - 1 BY <2>4
    <3>2. Zero[lo + n - (k + 1)] = 0 BY <1>3, <3>1
    <3>3. t[k + 1] = 2 * t[k] + Zero[lo + n - (k + 1)] BY <2>2, <3>1 DEF Sums
    <3> QED BY <3>1, <3>2, <3>3
  <2>5. n \in S
    <3> HIDE DEF S
    <3>1. 0 .. n \subseteq S BY <2>3, <2>4, UpTo
    <3> QED BY <3>1
  <2> QED BY <2>2, <2>5
<1>5. ASSUME Field(w, lo, n) = 0 PROVE \A k \in lo .. lo + n - 1 : w[k] = 0
  <2>1. \A k \in lo .. lo + n - 1 : Zero[k] \in Bit BY <1>3 DEF Bit
  <2>2. \A k \in lo .. lo + n - 1 : w[k] = Zero[k] BY <1>1, <1>4, <1>5, <2>1, FieldTells
  <2> QED BY <1>3, <2>2
<1>6. ASSUME \A k \in lo .. lo + n - 1 : w[k] = 0 PROVE Field(w, lo, n) = 0
  <2>1. \A k \in lo .. lo + n - 1 : w[k] \in Bit /\ Zero[k] = w[k] BY <1>1, <1>3, <1>6
  <2>2. Field(w, lo, n) = Field(Zero, lo, n) BY <2>1, FieldOfSame
  <2> QED BY <1>4, <2>2
<1>7. Field(w, lo, n) \in Nat
  <2>1. n \in 0 .. n OBVIOUS
  <2> QED BY <1>2, <2>1 DEF Sums
<1> QED BY <1>5, <1>6, <1>7

-----------------------------------------------------------------------------
(* Sums. *)

\* c are the carries into the bits of a sum.
Carries(c, a, b, in) == /\ c \in [Bits -> Bit] /\ c[0] = in
                        /\ \A i \in 1 .. 31 : c[i] = (a[i - 1] + b[i - 1] + c[i - 1]) \div 2

(* A sum is the word of the lowest bits of its columns, whose carries are bits. *)
LEMMA SumIs ==
  ASSUME NEW a \in Word, NEW b \in Word, NEW in \in Bit
  PROVE  /\ SumWithCarry(a, b, in) \in Word
         /\ \E c : Carries(c, a, b, in)
                   /\ SumWithCarry(a, b, in) = [i \in Bits |-> (a[i] + b[i] + c[i]) % 2]
<1> DEFINE Is(c) == c = [i \in Bits |-> IF i = 0 THEN in ELSE (a[i - 1] + b[i - 1] + c[i - 1]) \div 2]
           carry == CHOOSE c : Is(c)
           g == [x \in (1 .. 31) \X Bit |-> (a[x[1] - 1] + b[x[1] - 1] + x[2]) \div 2]
<1>1. SumWithCarry(a, b, in) = [i \in Bits |-> (a[i] + b[i] + carry[i]) % 2] BY DEF SumWithCarry
<1>2. ASSUME NEW k \in 1 .. 31, NEW x \in Bit PROVE (a[k - 1] + b[k - 1] + x) \div 2 \in Bit
  <2>1. a[k - 1] \in {0, 1} /\ b[k - 1] \in {0, 1} BY WordIs
  <2>2. x \in {0, 1} BY DEF Bit
  <2>3. a[k - 1] + b[k - 1] + x \in 0 .. 3 BY <2>1, <2>2
  <2> QED BY <2>3 DEF Bit
<1>3. g \in [(1 .. 31) \X Bit -> Bit]
  <2>1. \A x \in (1 .. 31) \X Bit : x[1] \in 1 .. 31 /\ x[2] \in Bit OBVIOUS
  <2> QED BY <1>2, <2>1
<1>4. PICK v \in [0 .. 31 -> Bit] : Steps(v, 31, in, g)
  <2> HIDE DEF g
  <2> QED BY <1>3, StepsExist
<1>5. Is(v)
  <2>1. \A k \in 0 .. 31 : k # 0 => g[k, v[k - 1]] = (a[k - 1] + b[k - 1] + v[k - 1]) \div 2
    <3> SUFFICES ASSUME NEW k \in 0 .. 31, k # 0 PROVE g[k, v[k - 1]] = (a[k - 1] + b[k - 1] + v[k - 1]) \div 2 OBVIOUS
    <3> DEFINE q == <<k, v[k - 1]>>
    <3>1. q \in (1 .. 31) \X Bit /\ q[1] = k /\ q[2] = v[k - 1] OBVIOUS
    <3>2. g[q] = (a[q[1] - 1] + b[q[1] - 1] + q[2]) \div 2
      <4> HIDE DEF q
      <4> QED BY <3>1
    <3> QED BY <3>1, <3>2
  <2> HIDE DEF g
  <2> QED BY <1>4, <2>1 DEF Steps, Bits
<1>6. Is(carry) BY <1>5
<1> HIDE DEF carry
<1>7. carry = [i \in Bits |-> carry[i]] /\ carry[0] = in
      /\ \A i \in 1 .. 31 : carry[i] = (a[i - 1] + b[i - 1] + carry[i - 1]) \div 2
  BY <1>6 DEF Bits
<1>8. \A i \in 0 .. 31 : carry[i] \in Bit
  <2> DEFINE S == {k \in 0 .. 31 : carry[k] \in Bit}
  <2>1. 0 \in S BY <1>7
  <2>2. ASSUME NEW k \in 0 .. 31, k \in S, k < 31 PROVE k + 1 \in S
    <3>1. k + 1 \in 1 .. 31 /\ k + 1 - 1 = k /\ carry[k] \in Bit BY <2>2
    <3>2. carry[k + 1] = (a[k + 1 - 1] + b[k + 1 - 1] + carry[k + 1 - 1]) \div 2 BY <1>7, <3>1
    <3>3. carry[k + 1] \in Bit
      <4> DEFINE j == k + 1
      <4>1. j \in 1 .. 31 /\ carry[j - 1] \in Bit BY <3>1
      <4> HIDE DEF j
      <4>2. (a[j - 1] + b[j - 1] + carry[j - 1]) \div 2 \in Bit BY <1>2, <4>1
      <4> QED BY <3>2, <4>2 DEF j
    <3> QED BY <3>1, <3>3
  <2>3. 0 .. 31 \subseteq S
    <3> HIDE DEF S
    <3> QED BY <2>1, <2>2, UpTo
  <2> QED BY <2>3
<1>9. Carries(carry, a, b, in) BY <1>7, <1>8 DEF Carries, Bits
<1>10. SumWithCarry(a, b, in) \in Word
  <2>1. \A i \in 0 .. 31 : (a[i] + b[i] + carry[i]) % 2 \in Bit
    <3> SUFFICES ASSUME NEW i \in 0 .. 31 PROVE (a[i] + b[i] + carry[i]) % 2 \in Bit OBVIOUS
    <3>1. a[i] \in Nat /\ b[i] \in Nat /\ carry[i] \in Nat BY <1>8, WordIs DEF Bit
    <3> QED BY <3>1 DEF Bit
  <2> QED BY <1>1, <2>1 DEF Word, Bits
<1> QED BY <1>1, <1>9, <1>10

(* The constants are words. *)
LEMMA ZeroWord == Zero \in Word /\ Ones \in Word /\ (\A i \in 0 .. 31 : Zero[i] = 0 /\ Ones[i] = 1)
BY DEF Zero, Ones, Word, Bits, Bit

(* The complement of a word is one. *)
LEMMA NotWord == ASSUME NEW a \in Word PROVE Not(a) \in Word /\ \A i \in 0 .. 31 : Not(a)[i] = 1 - a[i]
<1>1. \A i \in 0 .. 31 : 1 - a[i] \in Bit
  <2> SUFFICES ASSUME NEW i \in 0 .. 31 PROVE 1 - a[i] \in Bit OBVIOUS
  <2>1. a[i] \in {0, 1} BY WordIs
  <2> QED BY <2>1 DEF Bit
<1> QED BY <1>1 DEF Not, Word, Bits

(* Sums and differences are words. *)
LEMMA AddWord == ASSUME NEW a \in Word, NEW b \in Word PROVE Add(a, b) \in Word /\ Sub(a, b) \in Word
<1>1. 0 \in Bit /\ 1 \in Bit BY DEF Bit
<1> QED BY <1>1, SumIs, NotWord DEF Add, Sub

(* Words that have no bit in common are added bit by bit. *)
LEMMA AddApart ==
  ASSUME NEW a \in Word, NEW b \in Word, \A i \in 0 .. 31 : a[i] = 0 \/ b[i] = 0
  PROVE  \A i \in 0 .. 31 : Add(a, b)[i] = a[i] + b[i]
<1>1. 0 \in Bit BY DEF Bit
<1>2. PICK c : Carries(c, a, b, 0) /\ SumWithCarry(a, b, 0) = [i \in Bits |-> (a[i] + b[i] + c[i]) % 2]
  BY <1>1, SumIs
<1> DEFINE S == {k \in 0 .. 31 : c[k] = 0}
<1>3. 0 \in S BY <1>2 DEF Carries
<1>4. ASSUME NEW k \in 0 .. 31, k \in S, k < 31 PROVE k + 1 \in S
  <2>1. k + 1 \in 1 .. 31 /\ k + 1 - 1 = k /\ c[k] = 0 /\ k + 1 \in 0 .. 31 BY <1>4
  <2>2. c[k + 1] = (a[k] + b[k] + c[k]) \div 2 BY <1>2, <2>1 DEF Carries
  <2>3. a[k] \in {0, 1} /\ b[k] \in {0, 1} /\ (a[k] = 0 \/ b[k] = 0) BY WordIs
  <2>4. a[k] + b[k] + c[k] \in {0, 1} BY <2>1, <2>3
  <2>5. c[k + 1] = 0 BY <2>2, <2>4
  <2> QED BY <2>1, <2>5
<1>5. 0 .. 31 \subseteq S
  <2> HIDE DEF S
  <2> QED BY <1>3, <1>4, UpTo
<1>6. ASSUME NEW i \in 0 .. 31 PROVE Add(a, b)[i] = a[i] + b[i]
  <2>1. c[i] = 0 BY <1>5
  <2>2. a[i] \in {0, 1} /\ b[i] \in {0, 1} /\ (a[i] = 0 \/ b[i] = 0) BY WordIs
  <2>3. Add(a, b)[i] = (a[i] + b[i] + c[i]) % 2 BY <1>2 DEF Add, Bits
  <2>4. a[i] + b[i] + c[i] \in {0, 1} BY <2>1, <2>2
  <2> QED BY <2>1, <2>2, <2>3, <2>4
<1> QED BY <1>6

(* Adding zero changes nothing. *)
LEMMA AddZero == ASSUME NEW a \in Word PROVE Add(Zero, a) = a /\ Add(a, Zero) = a
<1>1. Add(Zero, a) \in Word /\ Add(a, Zero) \in Word BY AddWord, ZeroWord
<1>2. \A i \in 0 .. 31 : Add(Zero, a)[i] = Zero[i] + a[i] BY AddApart, ZeroWord
<1>3. \A i \in 0 .. 31 : Add(a, Zero)[i] = a[i] + Zero[i] BY AddApart, ZeroWord
<1>4. \A i \in 0 .. 31 : Add(Zero, a)[i] = a[i] /\ Add(a, Zero)[i] = a[i] BY <1>2, <1>3, ZeroWord, WordIs
<1> QED BY <1>1, <1>4, SameBits

(* Different words added to one give different sums. *)
LEMMA AddTells ==
  ASSUME NEW a \in Word, NEW b \in Word, NEW d \in Word, Add(a, b) = Add(a, d)
  PROVE  b = d
<1>1. 0 \in Bit BY DEF Bit
<1>2. PICK c : Carries(c, a, b, 0) /\ SumWithCarry(a, b, 0) = [i \in Bits |-> (a[i] + b[i] + c[i]) % 2]
  BY <1>1, SumIs
<1>3. PICK e : Carries(e, a, d, 0) /\ SumWithCarry(a, d, 0) = [i \in Bits |-> (a[i] + d[i] + e[i]) % 2]
  BY <1>1, SumIs
<1>4. ASSUME NEW k \in 0 .. 31, c[k] = e[k] PROVE b[k] = d[k]
  <2>1. a[k] \in {0, 1} /\ b[k] \in {0, 1} /\ d[k] \in {0, 1} BY WordIs
  <2>2. c[k] \in {0, 1} BY <1>2 DEF Carries, Bits, Bit
  <2>3. Add(a, b)[k] = (a[k] + b[k] + c[k]) % 2 BY <1>2 DEF Add, Bits
  <2>4. Add(a, d)[k] = (a[k] + d[k] + c[k]) % 2 BY <1>3, <1>4 DEF Add, Bits
  <2>5. (a[k] + b[k] + c[k]) % 2 = (a[k] + d[k] + c[k]) % 2 BY <2>3, <2>4
  <2> QED BY <2>1, <2>2, <2>5
<1> DEFINE S == {k \in 0 .. 31 : c[k] = e[k]}
<1>5. 0 \in S BY <1>2, <1>3 DEF Carries
<1>6. ASSUME NEW k \in 0 .. 31, k \in S, k < 31 PROVE k + 1 \in S
  <2>1. k + 1 \in 1 .. 31 /\ k + 1 - 1 = k /\ c[k] = e[k] /\ k + 1 \in 0 .. 31 BY <1>6
  <2>2. c[k + 1] = (a[k] + b[k] + c[k]) \div 2 BY <1>2, <2>1 DEF Carries
  <2>3. e[k + 1] = (a[k] + d[k] + e[k]) \div 2 BY <1>3, <2>1 DEF Carries
  <2>4. b[k] = d[k] BY <1>4, <2>1
  <2> QED BY <2>1, <2>2, <2>3, <2>4
<1>7. 0 .. 31 \subseteq S
  <2> HIDE DEF S
  <2> QED BY <1>5, <1>6, UpTo
<1>8. \A k \in 0 .. 31 : b[k] = d[k] BY <1>4, <1>7
<1> QED BY <1>8, SameBits

-----------------------------------------------------------------------------
(* Numbers as words. *)

(* The word of a number, by the numbers it is halved to. *)
LEMMA NaturalIs ==
  ASSUME NEW n \in Nat
  PROVE  /\ Natural(n) \in Word
         /\ \E half \in [0 .. 31 -> Nat] :
              /\ half[0] = n /\ \A i \in 1 .. 31 : half[i] = half[i - 1] \div 2
              /\ Natural(n) = [i \in Bits |-> IF i = 31 THEN 0 ELSE half[i] % 2]
<1> DEFINE Is(h) == h = [i \in Bits |-> IF i = 0 THEN n ELSE h[i - 1] \div 2]
           half == CHOOSE h : Is(h)
           g == [x \in (1 .. 31) \X Nat |-> x[2] \div 2]
<1>1. Natural(n) = [i \in Bits |-> IF i = 31 THEN 0 ELSE half[i] % 2] BY DEF Natural
<1>2. g \in [(1 .. 31) \X Nat -> Nat]
  <2>1. \A x \in (1 .. 31) \X Nat : x[2] \in Nat /\ x[2] \div 2 \in Nat OBVIOUS
  <2> QED BY <2>1
<1>3. PICK v \in [0 .. 31 -> Nat] : Steps(v, 31, n, g)
  <2> HIDE DEF g
  <2> QED BY <1>2, StepsExist
<1>4. Is(v)
  <2>1. \A k \in 0 .. 31 : k # 0 => g[k, v[k - 1]] = v[k - 1] \div 2
    <3> SUFFICES ASSUME NEW k \in 0 .. 31, k # 0 PROVE g[k, v[k - 1]] = v[k - 1] \div 2 OBVIOUS
    <3>1. <<k, v[k - 1]>> \in (1 .. 31) \X Nat OBVIOUS
    <3> QED BY <3>1
  <2> HIDE DEF g
  <2> QED BY <1>3, <2>1 DEF Steps, Bits
<1>5. Is(half) BY <1>4
<1> HIDE DEF half
<1>6. half = [i \in 0 .. 31 |-> half[i]] /\ half[0] = n /\ \A i \in 1 .. 31 : half[i] = half[i - 1] \div 2
  BY <1>5 DEF Bits
<1>7. \A i \in 0 .. 31 : half[i] \in Nat
  <2> DEFINE S == {k \in 0 .. 31 : half[k] \in Nat}
  <2>1. 0 \in S BY <1>6
  <2>2. ASSUME NEW k \in 0 .. 31, k \in S, k < 31 PROVE k + 1 \in S
    <3>1. k + 1 \in 1 .. 31 /\ k + 1 - 1 = k /\ half[k] \in Nat BY <2>2
    <3>2. half[k + 1] = half[k] \div 2 BY <1>6, <3>1
    <3>3. half[k + 1] \in Nat BY <3>1, <3>2
    <3> QED BY <3>1, <3>3
  <2>3. 0 .. 31 \subseteq S
    <3> HIDE DEF S
    <3> QED BY <2>1, <2>2, UpTo
  <2> QED BY <2>3
<1>8. half \in [0 .. 31 -> Nat] BY <1>6, <1>7
<1>9. Natural(n) \in Word
  <2>1. \A i \in 0 .. 31 : half[i] % 2 \in Bit BY <1>7 DEF Bit
  <2> QED BY <1>1, <2>1 DEF Word, Bits, Bit
<1> QED BY <1>1, <1>6, <1>8, <1>9

(* The three lowest bits of a number below eight tell it; the others are zero. *)
LEMMA SmallNatural ==
  ASSUME NEW n \in 0 .. 7
  PROVE  /\ Natural(n) \in Word
         /\ Natural(n)[0] + 2 * Natural(n)[1] + 4 * Natural(n)[2] = n
         /\ \A i \in 3 .. 31 : Natural(n)[i] = 0
<1>0. n \in Nat OBVIOUS
<1>1. PICK half \in [0 .. 31 -> Nat] :
        /\ half[0] = n /\ \A i \in 1 .. 31 : half[i] = half[i - 1] \div 2
        /\ Natural(n) = [i \in Bits |-> IF i = 31 THEN 0 ELSE half[i] % 2]
  BY <1>0, NaturalIs
<1>2. half[1] = n \div 2 /\ half[2] = (n \div 2) \div 2 /\ half[3] = ((n \div 2) \div 2) \div 2
  <2>1. half[1] = half[1 - 1] \div 2 /\ half[2] = half[2 - 1] \div 2 /\ half[3] = half[3 - 1] \div 2 BY <1>1
  <2>2. 1 - 1 = 0 /\ 2 - 1 = 1 /\ 3 - 1 = 2 OBVIOUS
  <2> QED BY <1>1, <2>1, <2>2
<1>3. half[3] = 0 BY <1>2
<1> DEFINE S == {k \in 0 .. 31 : k >= 3 => half[k] = 0}
<1>4. 0 .. 31 \subseteq S
  <2>1. 0 \in S OBVIOUS
  <2>2. ASSUME NEW k \in 0 .. 31, k \in S, k < 31 PROVE k + 1 \in S
    <3>1. CASE k < 2
      <4>1. k + 1 \in 0 .. 31 /\ ~ (k + 1 >= 3) BY <3>1
      <4> QED BY <4>1
    <3>2. CASE k = 2 BY <1>3, <3>2
    <3>3. CASE k > 2
      <4>1. k + 1 \in 1 .. 31 /\ k + 1 - 1 = k /\ k >= 3 BY <2>2, <3>3
      <4>2. half[k] = 0 BY <2>2, <4>1
      <4>3. half[k + 1] = half[k] \div 2 BY <1>1, <4>1
      <4>4. half[k + 1] = 0 BY <4>2, <4>3
      <4> QED BY <4>1, <4>4
    <3> QED BY <3>1, <3>2, <3>3
  <2> HIDE DEF S
  <2> QED BY <2>1, <2>2, UpTo
<1>5. \A i \in 3 .. 31 : Natural(n)[i] = 0
  <2> SUFFICES ASSUME NEW i \in 3 .. 31 PROVE Natural(n)[i] = 0 OBVIOUS
  <2>1. i \in Bits /\ half[i] = 0 BY <1>4 DEF Bits
  <2>2. Natural(n)[i] = IF i = 31 THEN 0 ELSE half[i] % 2 BY <1>1, <2>1
  <2> QED BY <2>1, <2>2
<1>6. Natural(n)[0] = n % 2 /\ Natural(n)[1] = (n \div 2) % 2 /\ Natural(n)[2] = ((n \div 2) \div 2) % 2
  <2>1. 0 \in Bits /\ 1 \in Bits /\ 2 \in Bits BY DEF Bits
  <2> QED BY <1>1, <1>2, <2>1
<1>7. (n % 2) + 2 * ((n \div 2) % 2) + 4 * (((n \div 2) \div 2) % 2) = n OBVIOUS
<1> QED BY <1>0, <1>5, <1>6, <1>7, NaturalIs

(* The word of the number 0. *)
LEMMA ZeroNatural == Natural(0) = Zero
<1>1. Natural(0) \in Word /\ Natural(0)[0] + 2 * Natural(0)[1] + 4 * Natural(0)[2] = 0
      /\ \A i \in 3 .. 31 : Natural(0)[i] = 0
  BY SmallNatural
<1>2. \A i \in 0 .. 2 : Natural(0)[i] = 0
  <2>1. Natural(0)[0] \in {0, 1} /\ Natural(0)[1] \in {0, 1} /\ Natural(0)[2] \in {0, 1} BY <1>1, WordIs
  <2>2. Natural(0)[0] = 0 /\ Natural(0)[1] = 0 /\ Natural(0)[2] = 0 BY <1>1, <2>1
  <2> QED BY <2>2
<1>3. \A i \in 0 .. 31 : Natural(0)[i] = Zero[i] BY <1>1, <1>2, ZeroWord
<1> QED BY <1>1, <1>3, SameBits, ZeroWord

(* The word of an integer, negative or not. *)
LEMMA OfIntWord == ASSUME NEW k \in Int PROVE OfInt(k) \in Word
<1>1. CASE k >= 0 BY <1>1, NaturalIs DEF OfInt
<1>2. CASE k < 0
  <2>1. - (k + 1) \in Nat BY <1>2
  <2>2. Not(Natural(- (k + 1))) \in Word BY <2>1, NaturalIs, NotWord
  <2> QED BY <1>2, <2>2 DEF OfInt
<1> QED BY <1>1, <1>2

(* Different small numbers are different words. *)
LEMMA OfIntTells ==
  ASSUME NEW j \in -4 .. 7, NEW k \in -4 .. 7, OfInt(j) = OfInt(k)
  PROVE  j = k
<1> DEFINE Low(w) == w[0] + 2 * w[1] + 4 * w[2]
<1>1. ASSUME NEW n \in -4 .. 7
      PROVE  /\ n >= 0 => Low(OfInt(n)) = n /\ OfInt(n)[31] = 0
             /\ n < 0 => Low(OfInt(n)) = 8 + n /\ OfInt(n)[31] = 1
  <2>1. CASE n >= 0
    <3>1. n \in 0 .. 7 /\ OfInt(n) = Natural(n) BY <2>1 DEF OfInt
    <3> QED BY <2>1, <3>1, SmallNatural
  <2>2. CASE n < 0
    <3> DEFINE m == - (n + 1)
    <3>1. m \in 0 .. 7 /\ OfInt(n) = Not(Natural(m)) /\ m = - (n + 1) BY <2>2 DEF OfInt
    <3> HIDE DEF m
    <3>2. Natural(m) \in Word /\ Natural(m)[0] + 2 * Natural(m)[1] + 4 * Natural(m)[2] = m /\ Natural(m)[31] = 0
      BY <3>1, SmallNatural
    <3>3. \A i \in 0 .. 31 : OfInt(n)[i] = 1 - Natural(m)[i] BY <3>1, <3>2, NotWord
    <3>4. OfInt(n)[0] = 1 - Natural(m)[0] /\ OfInt(n)[1] = 1 - Natural(m)[1] /\ OfInt(n)[2] = 1 - Natural(m)[2]
          /\ OfInt(n)[31] = 1 - Natural(m)[31]
      BY <3>3
    <3>5. Natural(m)[0] \in Nat /\ Natural(m)[1] \in Nat /\ Natural(m)[2] \in Nat BY <3>2, WordIs
    <3>6. Low(OfInt(n)) = 7 - m BY <3>2, <3>4, <3>5
    <3> QED BY <2>2, <3>1, <3>2, <3>4, <3>6
  <2> QED BY <2>1, <2>2
<1> HIDE DEF Low
<1>2. Low(OfInt(j)) = Low(OfInt(k)) /\ OfInt(j)[31] = OfInt(k)[31] OBVIOUS
<1> QED BY <1>1, <1>2

-----------------------------------------------------------------------------
(* Memory. *)

\* A memory is made of words.
OfWords(m) == m \in [DOMAIN m -> Word]

(* get_page adds a word that is zero if there is none, and keeps the others (memory.c:25-33). *)
LEMMA PageIs ==
  ASSUME NEW m, OfWords(m), NEW a
  PROVE  /\ get_page(m, a) \in [DOMAIN m \cup {place(a)} -> Word]
         /\ \A p \in DOMAIN m : get_page(m, a)[p] = m[p]
         /\ place(a) \notin DOMAIN m => get_page(m, a)[place(a)] = Zero
<1> DEFINE at == place(a)
<1>1. get_page(m, a) = [x \in DOMAIN m \cup {at} |-> IF x \in DOMAIN m THEN m[x] ELSE Zero]
  BY DEF get_page
<1>3. Zero \in Word /\ m \in [DOMAIN m -> Word] BY ZeroWord DEF OfWords
<1> HIDE DEF at
<1>4. \A x \in DOMAIN m \cup {at} : (IF x \in DOMAIN m THEN m[x] ELSE Zero) \in Word
  BY <1>3
<1>5. get_page(m, a) \in [DOMAIN m \cup {at} -> Word] BY <1>1, <1>4
<1> QED BY <1>1, <1>5 DEF at

(* What is read is a word. *)
LEMMA WordAt == ASSUME NEW m, OfWords(m), NEW a PROVE memory_rd_w(m, a) \in Word /\ memory_rd_w(m, a) = word_at(m, a)
<1>1. get_page(m, a) \in [DOMAIN m \cup {place(a)} -> Word] BY PageIs
<1> QED BY <1>1 DEF memory_rd_w, word_at

(* A word written changes the word at its place and no other. *)
LEMMA Written ==
  ASSUME NEW m, OfWords(m), NEW a, NEW d \in Word
  PROVE  LET m2 == memory_wr_w(m, a, d)
         IN /\ OfWords(m2)
            /\ \A b : word_at(m2, b) = IF place(b) = place(a) THEN d ELSE word_at(m, b)
            /\ \A p \in DOMAIN m \ {place(a)} : m2[p] = m[p]
<1> DEFINE m2 == memory_wr_w(m, a, d)
           page == get_page(m, a)
           at == place(a)
<1>1. page \in [DOMAIN m \cup {at} -> Word] /\ \A p \in DOMAIN m : page[p] = m[p] BY PageIs
<1>2. m2 = [page EXCEPT ![at] = d] BY DEF memory_wr_w
<1> HIDE DEF m2, page, at
<1>3. m2 \in [DOMAIN m \cup {at} -> Word] /\ DOMAIN m2 = DOMAIN m \cup {at} BY <1>1, <1>2
<1>4. OfWords(m2) BY <1>3 DEF OfWords
<1>5. m2[at] = d /\ \A p \in DOMAIN m \ {at} : m2[p] = m[p] BY <1>1, <1>2
<1>6. ASSUME NEW b PROVE word_at(m2, b) = IF place(b) = at THEN d ELSE word_at(m, b)
  <2>1. CASE place(b) = at
    <3>1. get_page(m2, b)[at] = m2[at]
      <4>1. at \in DOMAIN m2 BY <1>3
      <4> QED BY <1>4, <4>1, PageIs
    <3> QED BY <2>1, <3>1, <1>5 DEF word_at
  <2>2. CASE place(b) # at /\ place(b) \in DOMAIN m
    <3>1. place(b) \in DOMAIN m2 /\ m2[place(b)] = m[place(b)] BY <1>3, <1>5, <2>2
    <3>2. get_page(m2, b)[place(b)] = m2[place(b)] BY <1>4, <3>1, PageIs
    <3>3. get_page(m, b)[place(b)] = m[place(b)] BY <2>2, PageIs
    <3> QED BY <2>2, <3>1, <3>2, <3>3 DEF word_at
  <2>3. CASE place(b) # at /\ place(b) \notin DOMAIN m
    <3>1. place(b) \notin DOMAIN m2 BY <1>3, <2>3
    <3>2. get_page(m2, b)[place(b)] = Zero /\ get_page(m, b)[place(b)] = Zero BY <1>4, <2>3, <3>1, PageIs
    <3> QED BY <2>3, <3>2 DEF word_at
  <2> QED BY <2>1, <2>2, <2>3
<1> QED BY <1>3, <1>4, <1>5, <1>6 DEF m2, at

(* A write uses the place it writes to and no other. *)
LEMMA WrittenDomain ==
  ASSUME NEW m, OfWords(m), NEW a, NEW d PROVE DOMAIN memory_wr_w(m, a, d) = DOMAIN m \cup {place(a)}
<1>1. DOMAIN get_page(m, a) = DOMAIN m \cup {place(a)} BY DEF get_page
<1> QED BY <1>1 DEF memory_wr_w

(* The bits of a word with a part replaced, *)
LEMMA InsertIs ==
  ASSUME NEW old \in Word, NEW data \in Word, NEW lo \in Nat, NEW n \in Nat
  PROVE  /\ Insert(old, data, lo, n) \in Word
         /\ \A i \in 0 .. 31 : Insert(old, data, lo, n)[i] = IF i \in lo .. lo + n - 1 THEN data[i - lo] ELSE old[i]
<1>1. \A i \in 0 .. 31 : (IF i \in lo .. lo + n - 1 THEN data[i - lo] ELSE old[i]) \in Bit
  <2> SUFFICES ASSUME NEW i \in 0 .. 31 PROVE (IF i \in lo .. lo + n - 1 THEN data[i - lo] ELSE old[i]) \in Bit OBVIOUS
  <2>1. i \in lo .. lo + n - 1 => i - lo \in 0 .. 31 OBVIOUS
  <2>2. \A j \in 0 .. 31 : data[j] \in Bit /\ old[j] \in Bit BY WordIs DEF Bit
  <2> QED BY <2>1, <2>2
<1> QED BY <1>1 DEF Insert, Word, Bits

(* and of a part of a word. *)
LEMMA ExtractIs ==
  ASSUME NEW w \in Word, NEW lo \in Nat, NEW n \in Nat, lo + n <= 32
  PROVE  /\ Extract(w, lo, n) \in Word
         /\ \A i \in 0 .. 31 : Extract(w, lo, n)[i] = IF i < n THEN w[lo + i] ELSE 0
<1>1. \A i \in 0 .. 31 : (IF i < n THEN w[lo + i] ELSE 0) \in Bit
  <2> SUFFICES ASSUME NEW i \in 0 .. 31 PROVE (IF i < n THEN w[lo + i] ELSE 0) \in Bit OBVIOUS
  <2>1. i < n => lo + i \in 0 .. 31 OBVIOUS
  <2>2. \A j \in 0 .. 31 : w[j] \in Bit BY WordIs DEF Bit
  <2> QED BY <2>1, <2>2 DEF Bit
<1> QED BY <1>1 DEF Extract, Word, Bits

(* Where the parts of a word begin. *)
LEMMA BeginsAt ==
  ASSUME NEW a \in Word
  PROVE  /\ a[0] \in {0, 1} /\ a[1] \in {0, 1}
         /\ ByteAt(a) = 8 * (a[0] + 2 * a[1]) /\ ByteAt(a) \in 0 .. 24
         /\ HalfAt(a) = 16 * a[1] /\ HalfAt(a) \in 0 .. 16
         /\ HalfAligned(a) => HalfAt(a) = ByteAt(a)
         /\ WordAligned(a) => ByteAt(a) = 0
<1>1. a[0] \in {0, 1} /\ a[1] \in {0, 1} BY WordIs
<1> QED BY <1>1 DEF ByteAt, HalfAt, HalfAligned, WordAligned

(* Memory holds words after every write; writing a halfword or a byte is writing a word back
   with that part replaced (memory.c:46-80). *)
LEMMA WritesKeep ==
  ASSUME NEW m, OfWords(m), NEW a \in Word, NEW d \in Word
  PROVE  /\ OfWords(memory_wr_w(m, a, d)) /\ OfWords(memory_wr_h(m, a, d)) /\ OfWords(memory_wr_b(m, a, d))
         /\ DOMAIN memory_wr_w(m, a, d) = DOMAIN m \cup {place(a)}
         /\ DOMAIN memory_wr_b(m, a, d) = DOMAIN m \cup {place(a)}
         /\ memory_rd_h(m, a) \in Word /\ memory_rd_b(m, a) \in Word
         /\ memory_wr_h(m, a, d) = memory_wr_w(m, a, Insert(word_at(m, a), d, HalfAt(a), 16))
         /\ memory_wr_b(m, a, d) = memory_wr_w(m, a, Insert(word_at(m, a), d, ByteAt(a), 8))
<1> DEFINE h == Insert(word_at(m, a), d, HalfAt(a), 16)
           b == Insert(word_at(m, a), d, ByteAt(a), 8)
<1>1. word_at(m, a) \in Word BY WordAt
<1>2. HalfAt(a) \in Nat /\ HalfAt(a) + 16 <= 32 /\ ByteAt(a) \in Nat /\ ByteAt(a) + 8 <= 32
  <2>1. HalfAt(a) \in 0 .. 16 /\ ByteAt(a) \in 0 .. 24 BY BeginsAt
  <2> QED BY <2>1
<1>3. h \in Word /\ b \in Word BY <1>1, <1>2, InsertIs
<1>4. memory_rd_h(m, a) \in Word /\ memory_rd_b(m, a) \in Word
  BY <1>1, <1>2, ExtractIs DEF memory_rd_h, memory_rd_b
<1>5. memory_wr_h(m, a, d) = memory_wr_w(m, a, h) BY DEF memory_wr_h, memory_wr_w, word_at
<1>6. memory_wr_b(m, a, d) = memory_wr_w(m, a, b) BY DEF memory_wr_b, memory_wr_w, word_at
<1>8. OfWords(memory_wr_w(m, a, d)) /\ DOMAIN memory_wr_w(m, a, d) = DOMAIN m \cup {place(a)} BY Written, WrittenDomain
<1> HIDE DEF h, b
<1>9. OfWords(memory_wr_h(m, a, d)) /\ OfWords(memory_wr_b(m, a, d)) BY <1>3, <1>5, <1>6, Written
<1>10. DOMAIN memory_wr_b(m, a, d) = DOMAIN m \cup {place(a)} BY <1>6, WrittenDomain
<1> QED BY <1>4, <1>5, <1>6, <1>8, <1>9, <1>10 DEF h, b

(* Words with the same bits have the same fields there, and the other way round. *)
LEMMA FieldsOfWords ==
  ASSUME NEW a \in Word, NEW b \in Word, NEW lo \in Nat, NEW n \in Nat, lo + n <= 32
  PROVE  Field(a, lo, n) = Field(b, lo, n) <=> \A i \in lo .. lo + n - 1 : a[i] = b[i]
<1>1. (\A i \in lo .. lo + n - 1 : a[i] \in Bit) /\ (\A i \in lo .. lo + n - 1 : b[i] \in Bit)
  <2>1. \A i \in lo .. lo + n - 1 : i \in 0 .. 31 OBVIOUS
  <2> QED BY <2>1, WordIs DEF Bit
<1>2. ASSUME \A i \in lo .. lo + n - 1 : a[i] = b[i] PROVE Field(a, lo, n) = Field(b, lo, n)
  <2>1. \A k \in lo .. lo + n - 1 : a[k] \in Bit /\ b[k] = a[k] BY <1>1, <1>2
  <2> QED BY <2>1, FieldOfSame
<1>3. ASSUME Field(a, lo, n) = Field(b, lo, n) PROVE \A i \in lo .. lo + n - 1 : a[i] = b[i]
  BY <1>1, <1>3, FieldTells
<1> QED BY <1>2, <1>3

(* The word of an address does not depend on its two lowest bits. *)
LEMMA PlaceOfSame ==
  ASSUME NEW a \in Word, NEW b \in Word, \A i \in 2 .. 31 : a[i] = b[i]
  PROVE  place(a) = place(b)
<1>1. ASSUME NEW lo \in Nat, NEW n \in Nat, 2 <= lo, lo + n <= 32 PROVE Field(a, lo, n) = Field(b, lo, n)
  <2>1. \A i \in lo .. lo + n - 1 : a[i] = b[i] BY <1>1
  <2> QED BY <1>1, <2>1, FieldsOfWords
<1>2. Field(a, 16, 16) = Field(b, 16, 16) /\ Field(a, 2, 14) = Field(b, 2, 14) BY <1>1
<1> QED BY <1>2 DEF place, page_number, index

(* An address is told by the place of its word and by the byte in it. *)
LEMMA PlaceTells ==
  ASSUME NEW a \in Word, NEW b \in Word, place(a) = place(b), ByteAt(a) = ByteAt(b)
  PROVE  a = b
<1>1. Field(a, 16, 16) = Field(b, 16, 16) /\ Field(a, 2, 14) = Field(b, 2, 14)
  <2>1. <<Field(a, 16, 16), Field(a, 2, 14)>> = <<Field(b, 16, 16), Field(b, 2, 14)>> BY DEF place, page_number, index
  <2> HIDE DEF Field
  <2> QED BY <2>1
<1>2. \A i \in 16 .. 16 + 16 - 1 : a[i] = b[i] BY <1>1, FieldsOfWords
<1>3. \A i \in 2 .. 2 + 14 - 1 : a[i] = b[i] BY <1>1, FieldsOfWords
<1>4. a[0] = b[0] /\ a[1] = b[1] BY BeginsAt
<1>5. ASSUME NEW i \in 0 .. 31 PROVE a[i] = b[i]
  <2>1. i = 0 \/ i = 1 \/ i \in 2 .. 2 + 14 - 1 \/ i \in 16 .. 16 + 16 - 1 OBVIOUS
  <2> QED BY <1>2, <1>3, <1>4, <2>1
<1> QED BY <1>5, SameBits

-----------------------------------------------------------------------------
(* Bytes of memory. *)

\* n bytes may be loaded from an address or stored at it.
Aligned(n, addr) == n \in {1, 2, 4} /\ (n = 2 => HalfAligned(addr)) /\ (n = 4 => WordAligned(addr))

(* They are in one word, next to each other. *)
LEMMA BytesTogether ==
  ASSUME NEW n, NEW a \in Word, Aligned(n, a)
  PROVE  /\ n \in Nat /\ ByteAt(a) \in Nat /\ ByteAt(a) + 8 * n <= 32
         /\ \A k \in 0 .. n - 1 : /\ Add(a, Natural(k)) \in Word
                                  /\ place(Add(a, Natural(k))) = place(a)
                                  /\ ByteAt(Add(a, Natural(k))) = ByteAt(a) + 8 * k
<1>1. n \in {1, 2, 4} /\ (n = 2 => a[0] = 0) /\ (n = 4 => a[0] = 0 /\ a[1] = 0)
  BY DEF Aligned, HalfAligned, WordAligned
<1>2. a[0] \in {0, 1} /\ a[1] \in {0, 1} /\ ByteAt(a) = 8 * (a[0] + 2 * a[1]) BY BeginsAt
<1>3. n \in Nat /\ ByteAt(a) \in Nat /\ ByteAt(a) + 8 * n <= 32 BY <1>1, <1>2
<1>4. ASSUME NEW k \in 0 .. n - 1
      PROVE  /\ Add(a, Natural(k)) \in Word
             /\ place(Add(a, Natural(k))) = place(a)
             /\ ByteAt(Add(a, Natural(k))) = ByteAt(a) + 8 * k
  <2>1. k \in 0 .. 3 /\ k \in 0 .. 7 BY <1>1
  <2> DEFINE b == Natural(k)
  <2>2. b \in Word /\ b[0] + 2 * b[1] + 4 * b[2] = k /\ \A i \in 3 .. 31 : b[i] = 0 BY <2>1, SmallNatural
  <2> HIDE DEF b
  <2>3. b[0] \in {0, 1} /\ b[1] \in {0, 1} /\ b[2] \in {0, 1} BY <2>2, WordIs
  <2>4. b[2] = 0 /\ b[0] + 2 * b[1] = k BY <2>1, <2>2, <2>3
  <2>5. (a[0] = 0 \/ b[0] = 0) /\ (a[1] = 0 \/ b[1] = 0) BY <1>1, <2>3, <2>4
  <2>6. ASSUME NEW i \in 0 .. 31 PROVE a[i] = 0 \/ b[i] = 0
    <3>1. i = 0 \/ i = 1 \/ i = 2 \/ i \in 3 .. 31 OBVIOUS
    <3> QED BY <2>2, <2>4, <2>5, <3>1
  <2>7. \A i \in 0 .. 31 : Add(a, b)[i] = a[i] + b[i] BY <2>2, <2>6, AddApart
  <2>8. Add(a, b) \in Word BY <2>2, AddWord
  <2>9. ASSUME NEW i \in 2 .. 31 PROVE Add(a, b)[i] = a[i]
    <3>1. i \in 0 .. 31 /\ (i = 2 \/ i \in 3 .. 31) OBVIOUS
    <3>2. b[i] = 0 /\ a[i] \in Nat BY <2>2, <2>4, <3>1, WordIs
    <3>3. Add(a, b)[i] = a[i] + b[i] BY <2>7, <3>1
    <3> QED BY <3>2, <3>3
  <2>10. place(Add(a, b)) = place(a) BY <2>8, <2>9, PlaceOfSame
  <2>11. ByteAt(Add(a, b)) = 8 * (Add(a, b)[0] + 2 * Add(a, b)[1]) BY <2>8, BeginsAt
  <2>12. Add(a, b)[0] = a[0] + b[0] /\ Add(a, b)[1] = a[1] + b[1] BY <2>7
  <2>13. ByteAt(Add(a, b)) = ByteAt(a) + 8 * k BY <1>2, <2>3, <2>4, <2>11, <2>12
  <2> QED BY <2>8, <2>10, <2>13 DEF b
<1> QED BY <1>3, <1>4

(* Offsets are added in the same way. *)
LEMMA SamePlus == \A a, n : ISA!Plus(a, n) = Plus(a, n)
BY SameSum, SameNatural DEF ISA!Plus, Plus

(* The bytes that the specification loads are the part of a word that the code reads. *)
LEMMA LoadedIs ==
  ASSUME NEW n, NEW a \in Word, Aligned(n, a), OfWords(mem)
  PROVE  ISA!Loaded(a, n) = Extract(word_at(mem, a), ByteAt(a), 8 * n)
<1> DEFINE w == word_at(mem, a)
<1>1. w \in Word BY WordAt
<1>2. n \in Nat /\ ByteAt(a) \in Nat /\ ByteAt(a) + 8 * n <= 32 BY BytesTogether
<1>3. ASSUME NEW i \in 0 .. 31
      PROVE  (IF i < 8 * n THEN ISA!memory_rd_b(mem, ISA!Plus(a, i \div 8))[i % 8] ELSE 0)
             = (IF i < 8 * n THEN w[ByteAt(a) + i] ELSE 0)
  <2> SUFFICES ASSUME i < 8 * n PROVE ISA!memory_rd_b(mem, ISA!Plus(a, i \div 8))[i % 8] = w[ByteAt(a) + i]
    OBVIOUS
  <2> DEFINE k == i \div 8
             j == i % 8
             at == Add(a, Natural(k))
  <2>1. k \in 0 .. n - 1 /\ j \in 0 .. 7 /\ j \in 0 .. 31 /\ i = 8 * k + j BY <1>2
  <2>2. ISA!memory_rd_b(mem, ISA!Plus(a, k)) = memory_rd_b(mem, at) BY SamePlus, SameMemory DEF Plus
  <2> HIDE DEF k, j
  <2>3. at \in Word /\ place(at) = place(a) /\ ByteAt(at) = ByteAt(a) + 8 * k BY <2>1, BytesTogether
  <2> HIDE DEF at
  <2>4. word_at(mem, at) = w BY <2>3 DEF word_at, get_page
  <2>5. memory_rd_b(mem, at) = Extract(w, ByteAt(at), 8) BY <2>4 DEF memory_rd_b
  <2>6. Extract(w, ByteAt(at), 8)[j] = w[ByteAt(at) + j] BY <2>1 DEF Extract, Bits
  <2>7. ByteAt(at) + j = ByteAt(a) + i BY <1>2, <2>1, <2>3
  <2> QED BY <2>2, <2>5, <2>6, <2>7 DEF k, j
<1> HIDE DEF w
<1> QED BY <1>3 DEF ISA!Loaded, Extract, ISA!Bits, Bits, w

(* Reads of the code at addresses they are allowed at are the bytes the specification loads. *)
LEMMA LoadedIsRead ==
  ASSUME NEW a \in Word, OfWords(mem)
  PROVE  /\ ISA!Loaded(a, 1) = memory_rd_b(mem, a)
         /\ HalfAligned(a) => ISA!Loaded(a, 2) = memory_rd_h(mem, a)
         /\ WordAligned(a) => ISA!Loaded(a, 4) = memory_rd_w(mem, a)
<1> DEFINE w == word_at(mem, a)
<1>0. w \in Word /\ memory_rd_w(mem, a) = w BY WordAt
<1>1. ISA!Loaded(a, 1) = memory_rd_b(mem, a)
  <2>1. Aligned(1, a) /\ 8 * 1 = 8 BY DEF Aligned
  <2> QED BY <2>1, LoadedIs DEF memory_rd_b
<1>2. ASSUME HalfAligned(a) PROVE ISA!Loaded(a, 2) = memory_rd_h(mem, a)
  <2>1. Aligned(2, a) /\ 8 * 2 = 16 BY <1>2 DEF Aligned
  <2>2. HalfAt(a) = ByteAt(a) BY <1>2, BeginsAt
  <2>3. ISA!Loaded(a, 2) = Extract(w, ByteAt(a), 8 * 2) BY <2>1, LoadedIs
  <2> QED BY <2>1, <2>2, <2>3 DEF memory_rd_h
<1>3. ASSUME WordAligned(a) PROVE ISA!Loaded(a, 4) = memory_rd_w(mem, a)
  <2>1. Aligned(4, a) /\ 8 * 4 = 32 BY <1>3 DEF Aligned
  <2>2. ByteAt(a) = 0 BY <1>3, BeginsAt
  <2>3. ISA!Loaded(a, 4) = Extract(w, 0, 32) BY <2>1, <2>2, LoadedIs
  <2> HIDE DEF w
  <2>4. Extract(w, 0, 32) \in Word /\ \A i \in 0 .. 31 : Extract(w, 0, 32)[i] = w[i]
    <3>1. Extract(w, 0, 32) \in Word /\ \A i \in 0 .. 31 : Extract(w, 0, 32)[i] = IF i < 32 THEN w[0 + i] ELSE 0
      BY <1>0, ExtractIs
    <3>2. \A i \in 0 .. 31 : i < 32 /\ 0 + i = i OBVIOUS
    <3> QED BY <3>1, <3>2
  <2>5. Extract(w, 0, 32) = w BY <1>0, <2>4, SameBits
  <2> QED BY <1>0, <2>3, <2>5
<1> QED BY <1>1, <1>2, <1>3

(* Bytes of a word written at an address: they are read again there, and every other byte is as
   before. *)
LEMMA BytesChanged ==
  ASSUME NEW n, NEW a \in Word, Aligned(n, a), NEW m, OfWords(m), NEW data \in Word, NEW m2,
         m2 = memory_wr_w(m, a, Insert(word_at(m, a), data, ByteAt(a), 8 * n))
  PROVE  /\ \A k \in 0 .. n - 1 : memory_rd_b(m2, Add(a, Natural(k))) = Extract(data, 8 * k, 8)
         /\ \A b \in Word : (\A k \in 0 .. n - 1 : b # Add(a, Natural(k))) => memory_rd_b(m2, b) = memory_rd_b(m, b)
<1> DEFINE old == word_at(m, a)
           new == Insert(old, data, ByteAt(a), 8 * n)
<1>1. n \in Nat /\ 8 * n \in Nat /\ ByteAt(a) \in Nat /\ ByteAt(a) + 8 * n <= 32 BY BytesTogether
<1>2. old \in Word BY WordAt
<1>3. new \in Word
      /\ \A i \in 0 .. 31 : new[i] = IF i \in ByteAt(a) .. ByteAt(a) + 8 * n - 1 THEN data[i - ByteAt(a)] ELSE old[i]
  <2> DEFINE size == 8 * n
  <2>1. size \in Nat BY <1>1
  <2> HIDE DEF size, old
  <2>2. Insert(old, data, ByteAt(a), size) \in Word BY <1>1, <1>2, <2>1, InsertIs
  <2>3. \A i \in 0 .. 31 : Insert(old, data, ByteAt(a), size)[i]
                          = IF i \in ByteAt(a) .. ByteAt(a) + size - 1 THEN data[i - ByteAt(a)] ELSE old[i]
    BY DEF Insert, Bits
  <2> QED BY <2>2, <2>3 DEF size
<1>4. m2 = memory_wr_w(m, a, new) OBVIOUS
<1> HIDE DEF new
<1>5. \A b : word_at(m2, b) = IF place(b) = place(a) THEN new ELSE word_at(m, b) BY <1>3, <1>4, Written
<1>6. ASSUME NEW k \in 0 .. n - 1
      PROVE  memory_rd_b(m2, Add(a, Natural(k))) = Extract(data, 8 * k, 8)
  <2> DEFINE at == Add(a, Natural(k))
  <2>1. at \in Word /\ place(at) = place(a) /\ ByteAt(at) = ByteAt(a) + 8 * k BY BytesTogether
  <2> HIDE DEF at
  <2>2. memory_rd_b(m2, at) = Extract(new, ByteAt(at), 8) BY <1>5, <2>1 DEF memory_rd_b
  <2>3. 8 * k \in Nat /\ 8 * k + 8 <= 8 * n /\ ByteAt(at) \in Nat /\ ByteAt(at) + 8 <= 32 /\ 8 * k + 8 <= 32 BY <1>1, <2>1
  <2>4. Extract(new, ByteAt(at), 8) \in Word /\ Extract(data, 8 * k, 8) \in Word
        /\ (\A i \in 0 .. 31 : Extract(new, ByteAt(at), 8)[i] = IF i < 8 THEN new[ByteAt(at) + i] ELSE 0)
        /\ (\A i \in 0 .. 31 : Extract(data, 8 * k, 8)[i] = IF i < 8 THEN data[8 * k + i] ELSE 0)
    <3> DEFINE from == 8 * k
               to == ByteAt(at)
    <3>0. new \in Word BY <1>3
    <3>1. from \in Nat /\ from + 8 <= 32 /\ to \in Nat /\ to + 8 <= 32 /\ 8 \in Nat BY <2>3
    <3> HIDE DEF from, to
    <3>2. Extract(new, to, 8) \in Word /\ \A i \in 0 .. 31 : Extract(new, to, 8)[i] = IF i < 8 THEN new[to + i] ELSE 0
      BY <3>0, <3>1, ExtractIs, Zenon
    <3>3. Extract(data, from, 8) \in Word
          /\ \A i \in 0 .. 31 : Extract(data, from, 8)[i] = IF i < 8 THEN data[from + i] ELSE 0
      BY <3>1, ExtractIs, Zenon
    <3> QED BY <3>2, <3>3 DEF from, to
  <2>5. ASSUME NEW i \in 0 .. 31 PROVE Extract(new, ByteAt(at), 8)[i] = Extract(data, 8 * k, 8)[i]
    <3>1. CASE i < 8
      <4> DEFINE j == ByteAt(at) + i
      <4>1. j \in 0 .. 31 /\ j \in ByteAt(a) .. ByteAt(a) + 8 * n - 1 /\ j - ByteAt(a) = 8 * k + i
        <5> DEFINE b == ByteAt(a)
                   l == 8 * n
                   o == 8 * k
        <5>1. b \in Nat /\ l \in Nat /\ o \in Nat /\ b + l <= 32 /\ o + 8 <= l /\ ByteAt(at) = b + o BY <1>1, <2>1, <2>3
        <5> HIDE DEF b, l, o
        <5>2. j = b + o + i BY <5>1
        <5> HIDE DEF j
        <5>3. j \in 0 .. 31 /\ j \in b .. b + l - 1 /\ j - b = o + i BY <3>1, <5>1, <5>2
        <5> QED BY <5>3 DEF b, l, o
      <4> HIDE DEF j
      <4>2. new[j] = data[8 * k + i] BY <1>3, <4>1
      <4> QED BY <2>4, <3>1, <4>2 DEF j
    <3>2. CASE ~ (i < 8) BY <2>4, <3>2
    <3> QED BY <3>1, <3>2
  <2>6. Extract(new, ByteAt(at), 8) = Extract(data, 8 * k, 8) BY <2>4, <2>5, SameBits
  <2> QED BY <2>2, <2>6 DEF at
<1>7. ASSUME NEW at \in Word, \A k \in 0 .. n - 1 : at # Add(a, Natural(k))
      PROVE  memory_rd_b(m2, at) = memory_rd_b(m, at)
  <2>1. CASE place(at) # place(a) BY <1>5, <2>1 DEF memory_rd_b
  <2>2. CASE place(at) = place(a)
    <3>1. at[0] \in {0, 1} /\ at[1] \in {0, 1} /\ ByteAt(at) = 8 * (at[0] + 2 * at[1]) BY BeginsAt
    <3>2. a[0] \in {0, 1} /\ a[1] \in {0, 1} /\ ByteAt(a) = 8 * (a[0] + 2 * a[1]) BY BeginsAt
    <3>3. \A j \in 0 .. n - 1 : ByteAt(at) # ByteAt(a) + 8 * j
      <4> SUFFICES ASSUME NEW j \in 0 .. n - 1, ByteAt(at) = ByteAt(a) + 8 * j PROVE FALSE OBVIOUS
      <4> DEFINE other == Add(a, Natural(j))
      <4>1. other \in Word /\ place(other) = place(a) /\ ByteAt(other) = ByteAt(a) + 8 * j BY BytesTogether
      <4>2. at = other
        <5> HIDE DEF other
        <5> QED BY <2>2, <4>1, PlaceTells
      <4> QED BY <1>7, <4>2
    <3>4. ByteAt(at) \in Nat /\ ByteAt(at) + 8 <= 32
          /\ (ByteAt(at) + 8 <= ByteAt(a) \/ ByteAt(a) + 8 * n <= ByteAt(at))
      <4>1. n \in {1, 2, 4} BY DEF Aligned
      <4>2. \A j \in 0 .. n - 1 : at[0] + 2 * at[1] # a[0] + 2 * a[1] + j BY <3>1, <3>2, <3>3
      <4> DEFINE q == at[0] + 2 * at[1]
                 p == a[0] + 2 * a[1]
      <4>3. q \in 0 .. 3 /\ p \in 0 .. 3 /\ ByteAt(at) = 8 * q /\ ByteAt(a) = 8 * p BY <3>1, <3>2
      <4>4. \A j \in 0 .. n - 1 : q # p + j BY <4>2
      <4> HIDE DEF q, p
      <4>5. q < p \/ q >= p + n
        <5>1. q - p \in 0 .. n - 1 => FALSE BY <4>3, <4>4
        <5> QED BY <4>1, <4>3, <5>1
      <4> QED BY <4>1, <4>3, <4>5
    <3>5. word_at(m2, at) = new /\ word_at(m, at) = old BY <1>5, <2>2 DEF word_at, get_page
    <3>6. \A i \in 0 .. 7 : new[ByteAt(at) + i] = old[ByteAt(at) + i]
      <4> SUFFICES ASSUME NEW i \in 0 .. 7 PROVE new[ByteAt(at) + i] = old[ByteAt(at) + i] OBVIOUS
      <4> DEFINE j == ByteAt(at) + i
      <4>1. j \in 0 .. 31 /\ j \notin ByteAt(a) .. ByteAt(a) + 8 * n - 1 BY <1>1, <3>4
      <4> HIDE DEF j
      <4>2. new[j] = old[j] BY <1>3, <4>1
      <4> QED BY <4>2 DEF j
    <3>7. Extract(new, ByteAt(at), 8) = Extract(old, ByteAt(at), 8)
      <4> HIDE DEF old
      <4> QED BY <3>6 DEF Extract, Bits
    <3> QED BY <3>5, <3>7 DEF memory_rd_b
  <2> QED BY <2>1, <2>2
<1> QED BY <1>6, <1>7

(* The same for the bytes around the address. *)
LEMMA BytesWritten ==
  ASSUME NEW n, NEW a \in Word, Aligned(n, a), NEW m, OfWords(m), NEW data \in Word, NEW m2,
         m2 = memory_wr_w(m, a, Insert(word_at(m, a), data, ByteAt(a), 8 * n))
  PROVE  \A k \in -4 .. 7 :
           memory_rd_b(m2, Add(a, OfInt(k)))
           = IF k \in 0 .. n - 1 THEN Extract(data, 8 * k, 8) ELSE memory_rd_b(m, Add(a, OfInt(k)))
<1>1. /\ \A k \in 0 .. n - 1 : memory_rd_b(m2, Add(a, Natural(k))) = Extract(data, 8 * k, 8)
      /\ \A b \in Word : (\A k \in 0 .. n - 1 : b # Add(a, Natural(k))) => memory_rd_b(m2, b) = memory_rd_b(m, b)
  BY BytesChanged
<1>2. n \in {1, 2, 4} BY DEF Aligned
<1>3. \A j \in 0 .. n - 1 : j \in -4 .. 7 /\ j \in Int /\ OfInt(j) = Natural(j)
  <2> SUFFICES ASSUME NEW j \in 0 .. n - 1 PROVE j \in -4 .. 7 /\ j \in Int /\ OfInt(j) = Natural(j) OBVIOUS
  <2>1. j \in Nat /\ j < 4 BY <1>2
  <2> QED BY <2>1 DEF OfInt
<1>4. ASSUME NEW k \in -4 .. 7, k \in 0 .. n - 1
      PROVE  memory_rd_b(m2, Add(a, OfInt(k))) = Extract(data, 8 * k, 8)
  BY <1>1, <1>3, <1>4
<1>5. ASSUME NEW k \in -4 .. 7, k \notin 0 .. n - 1
      PROVE  memory_rd_b(m2, Add(a, OfInt(k))) = memory_rd_b(m, Add(a, OfInt(k)))
  <2>1. k \in Int /\ OfInt(k) \in Word BY OfIntWord
  <2>2. Add(a, OfInt(k)) \in Word BY <2>1, AddWord
  <2>3. ASSUME NEW j \in 0 .. n - 1, Add(a, OfInt(k)) = Add(a, Natural(j)) PROVE FALSE
    <3>1. j \in -4 .. 7 /\ j \in Int /\ OfInt(j) = Natural(j) BY <1>3
    <3>2. OfInt(j) \in Word BY <3>1, OfIntWord
    <3>3. OfInt(k) = OfInt(j) BY <2>1, <2>3, <3>1, <3>2, AddTells
    <3>4. k = j BY <3>1, <3>3, OfIntTells
    <3> QED BY <1>5, <3>4
  <2> QED BY <1>1, <2>2, <2>3
<1> QED BY <1>4, <1>5

-----------------------------------------------------------------------------
(* What is computed are words. *)

(* Bitwise operations and shifts, *)
LEMMA BitwiseWord ==
  ASSUME NEW a \in Word, NEW b \in Word, NEW n \in Nat
  PROVE  /\ And(a, b) \in Word /\ Or(a, b) \in Word /\ Xor(a, b) \in Word
         /\ ShiftLeft(a, n) \in Word /\ ShiftRight(a, n) \in Word /\ ShiftRightArith(a, n) \in Word
<1>1. ASSUME NEW i \in 0 .. 31
      PROVE  /\ a[i] * b[i] \in Bit /\ (IF a[i] = b[i] THEN a[i] ELSE 1) \in Bit
             /\ (IF a[i] = b[i] THEN 0 ELSE 1) \in Bit
             /\ (IF i >= n THEN a[i - n] ELSE 0) \in Bit
             /\ (IF i + n <= 31 THEN a[i + n] ELSE 0) \in Bit /\ (IF i + n <= 31 THEN a[i + n] ELSE a[31]) \in Bit
  <2>1. \A j \in 0 .. 31 : a[j] \in Bit /\ b[j] \in Bit BY WordIs DEF Bit
  <2>2. a[i] * b[i] \in Bit
    <3>1. a[i] = 0 \/ a[i] = 1 BY <2>1 DEF Bit
    <3>2. b[i] = 0 \/ b[i] = 1 BY <2>1 DEF Bit
    <3> QED BY <3>1, <3>2 DEF Bit
  <2>3. (IF i >= n THEN a[i - n] ELSE 0) \in Bit
    <3>1. i >= n => i - n \in 0 .. 31 OBVIOUS
    <3> QED BY <2>1, <3>1 DEF Bit
  <2>4. i + n <= 31 => a[i + n] \in Bit
    <3>1. i + n <= 31 => i + n \in 0 .. 31 OBVIOUS
    <3> QED BY <2>1, <3>1
  <2>5. a[31] \in Bit BY <2>1
  <2> QED BY <2>1, <2>2, <2>3, <2>4, <2>5 DEF Bit
<1> QED BY <1>1 DEF And, Or, Xor, ShiftLeft, ShiftRight, ShiftRightArith, Word, Bits

(* comparisons, *)
LEMMA FlagWord == ASSUME NEW p PROVE Flag(p) \in Word
<1>1. Natural(0) \in Word /\ Natural(1) \in Word BY NaturalIs
<1> QED BY <1>1 DEF Flag

(* The ones of a column can be counted. *)
LEMMA CardinalityNat == ASSUME NEW N \in Nat, NEW S, S \subseteq 0 .. N PROVE Cardinality(S) \in Nat
<1>1. IsFiniteSet(0 .. N) BY FS_Interval
<1>2. IsFiniteSet(S) BY <1>1, FS_Subset
<1> QED BY <1>2, FS_CardinalityType

\* column are the columns of a long multiplication, of which k has ones[k] ones and the carry.
Columns(column, ones) == column = [k \in 0 .. 63 |-> ones[k] + (IF k = 0 THEN 0 ELSE column[k - 1] \div 2)]

(* There are such columns, *)
LEMMA ColumnsExist == ASSUME NEW ones \in [0 .. 63 -> Nat] PROVE \E column : Columns(column, ones)
<1> DEFINE g == [x \in (1 .. 63) \X Nat |-> ones[x[1]] + x[2] \div 2]
<1>1. g \in [(1 .. 63) \X Nat -> Nat]
  <2> SUFFICES ASSUME NEW x \in (1 .. 63) \X Nat PROVE ones[x[1]] + x[2] \div 2 \in Nat OBVIOUS
  <2>1. x[1] \in 0 .. 63 /\ x[2] \in Nat OBVIOUS
  <2>2. ones[x[1]] \in Nat BY <2>1
  <2> QED BY <2>1, <2>2
<1>2. ones[0] \in Nat OBVIOUS
<1>3. \A k \in 1 .. 63 : \A c \in Nat : g[k, c] = ones[k] + c \div 2 OBVIOUS
<1> HIDE DEF g
<1>4. PICK v \in [0 .. 63 -> Nat] : Steps(v, 63, ones[0], g) BY <1>1, <1>2, StepsExist
<1>5. v = [k \in 0 .. 63 |-> IF k = 0 THEN ones[0] ELSE g[k, v[k - 1]]] BY <1>4, Zenon DEF Steps
<1>6. ASSUME NEW k \in 0 .. 63
      PROVE  (IF k = 0 THEN ones[0] ELSE g[k, v[k - 1]]) = ones[k] + (IF k = 0 THEN 0 ELSE v[k - 1] \div 2)
  <2>1. CASE k = 0
    <3>1. ones[k] \in Nat /\ ones[0] = ones[k] BY <1>2, <2>1
    <3>2. ones[k] + 0 = ones[k] BY <3>1
    <3> QED BY <2>1, <3>1, <3>2
  <2>2. CASE k # 0
    <3>1. k \in 1 .. 63 /\ k - 1 \in 0 .. 63 BY <2>2
    <3>2. v[k - 1] \in Nat BY <1>4, <3>1
    <3>3. g[k, v[k - 1]] = ones[k] + v[k - 1] \div 2 BY <1>3, <3>1, <3>2, Zenon
    <3> QED BY <2>2, <3>3, Zenon
  <2> QED BY <2>1, <2>2
<1>7. Columns(v, ones)
  <2> DEFINE lhs(k) == IF k = 0 THEN ones[0] ELSE g[k, v[k - 1]]
             rhs(k) == ones[k] + (IF k = 0 THEN 0 ELSE v[k - 1] \div 2)
  <2>1. v = [k \in 0 .. 63 |-> lhs(k)] BY <1>5, Zenon
  <2>2. \A k \in 0 .. 63 : lhs(k) = rhs(k) BY <1>6, Zenon
  <2> HIDE DEF lhs, rhs
  <2>3. v = [k \in 0 .. 63 |-> rhs(k)] BY <2>1, <2>2
  <2> QED BY <2>3, Zenon DEF Columns, rhs
<1> QED BY <1>7, Zenon

(* and 32 of them that follow each other are a word. *)
LEMMA ColumnsWord ==
  ASSUME NEW ones \in [0 .. 63 -> Nat], NEW column, Columns(column, ones)
  PROVE  \A lo \in 0 .. 32 : [i \in Bits |-> column[lo + i] % 2] \in Word
<1> DEFINE S == {k \in 0 .. 63 : column[k] \in Nat}
<1>1. column[0] = ones[0] + 0 /\ \A k \in 1 .. 63 : column[k] = ones[k] + column[k - 1] \div 2
  <2>1. column = [k \in 0 .. 63 |-> ones[k] + (IF k = 0 THEN 0 ELSE column[k - 1] \div 2)] BY DEF Columns
  <2>2. \A k \in 0 .. 63 : column[k] = ones[k] + (IF k = 0 THEN 0 ELSE column[k - 1] \div 2)
    <3> HIDE DEF S
    <3> QED BY <2>1, Zenon
  <2>3. \A k \in 1 .. 63 : k \in 0 .. 63 /\ k # 0 OBVIOUS
  <2>4. 0 \in 0 .. 63 OBVIOUS
  <2> QED BY <2>2, <2>3, <2>4
<1>2. 0 \in S BY <1>1
<1>3. ASSUME NEW k \in 0 .. 63, k \in S, k < 63 PROVE k + 1 \in S
  <2>1. k + 1 \in 1 .. 63 /\ k + 1 - 1 = k /\ k + 1 \in 0 .. 63 /\ column[k] \in Nat BY <1>3
  <2>2. column[k + 1] = ones[k + 1] + column[k] \div 2 /\ ones[k + 1] \in Nat BY <1>1, <2>1
  <2>3. column[k + 1] \in Nat BY <2>1, <2>2
  <2> QED BY <2>1, <2>3
<1>4. 0 .. 63 \subseteq S
  <2> HIDE DEF S
  <2> QED BY <1>2, <1>3, UpTo
<1>5. ASSUME NEW lo \in 0 .. 32, NEW i \in 0 .. 31 PROVE column[lo + i] % 2 \in Bit
  <2>1. lo + i \in 0 .. 63 OBVIOUS
  <2>2. column[lo + i] \in Nat BY <1>4, <2>1
  <2> QED BY <2>2 DEF Bit
<1> QED BY <1>5 DEF Word, Bits

(* The bits of a product are bits, whatever is multiplied. *)
LEMMA ProductWord == ASSUME NEW a, NEW b PROVE Product(a, b) \in Word /\ HighOfSigned(a, b) \in Word
<1>1. Product(a, b) \in Word
  <2> DEFINE ones == [k \in 0 .. 63 |-> Cardinality({i \in 0 .. k : Unsigned(a, i) * Unsigned(b, k - i) = 1})]
             Is(c) == c = [k \in 0 .. 63 |-> Cardinality({i \in 0 .. k : Unsigned(a, i) * Unsigned(b, k - i) = 1})
                                             + (IF k = 0 THEN 0 ELSE c[k - 1] \div 2)]
             column == CHOOSE c : Is(c)
  <2>1. Product(a, b) = [i \in Bits |-> column[0 + i] % 2] BY DEF Product, ProductFrom
  <2>2. ones \in [0 .. 63 -> Nat]
    <3> SUFFICES ASSUME NEW k \in 0 .. 63
                 PROVE  Cardinality({i \in 0 .. k : Unsigned(a, i) * Unsigned(b, k - i) = 1}) \in Nat
      OBVIOUS
    <3>1. k \in Nat /\ {i \in 0 .. k : Unsigned(a, i) * Unsigned(b, k - i) = 1} \subseteq 0 .. k OBVIOUS
    <3> QED BY <3>1, CardinalityNat
  <2>3. \A c : Columns(c, ones) <=> Is(c) BY DEF Columns
  <2> HIDE DEF ones, Is
  <2>4. Is(column) BY <2>2, <2>3, ColumnsExist
  <2> HIDE DEF column
  <2>5. 0 \in 0 .. 32 /\ Columns(column, ones) BY <2>3, <2>4
  <2>6. \A lo \in 0 .. 32 : [i \in Bits |-> column[lo + i] % 2] \in Word BY <2>2, <2>5, ColumnsWord
  <2> QED BY <2>1, <2>5, <2>6, Zenon
<1>2. HighOfSigned(a, b) \in Word
  <2> DEFINE ones == [k \in 0 .. 63 |-> Cardinality({i \in 0 .. k : Signed(a, i) * Signed(b, k - i) = 1})]
             Is(c) == c = [k \in 0 .. 63 |-> Cardinality({i \in 0 .. k : Signed(a, i) * Signed(b, k - i) = 1})
                                             + (IF k = 0 THEN 0 ELSE c[k - 1] \div 2)]
             column == CHOOSE c : Is(c)
  <2>1. HighOfSigned(a, b) = [i \in Bits |-> column[32 + i] % 2] BY DEF HighOfSigned, ProductFrom
  <2>2. ones \in [0 .. 63 -> Nat]
    <3> SUFFICES ASSUME NEW k \in 0 .. 63
                 PROVE  Cardinality({i \in 0 .. k : Signed(a, i) * Signed(b, k - i) = 1}) \in Nat
      OBVIOUS
    <3>1. k \in Nat /\ {i \in 0 .. k : Signed(a, i) * Signed(b, k - i) = 1} \subseteq 0 .. k OBVIOUS
    <3> QED BY <3>1, CardinalityNat
  <2>3. \A c : Columns(c, ones) <=> Is(c) BY DEF Columns
  <2> HIDE DEF ones, Is
  <2>4. Is(column) BY <2>2, <2>3, ColumnsExist
  <2> HIDE DEF column
  <2>5. 32 \in 0 .. 32 /\ Columns(column, ones) BY <2>3, <2>4
  <2>6. \A lo \in 0 .. 32 : [i \in Bits |-> column[lo + i] % 2] \in Word BY <2>2, <2>5, ColumnsWord
  <2> QED BY <2>1, <2>5, <2>6, Zenon
<1> QED BY <1>1, <1>2

(* The divisors are not zero. *)
LEMMA Divisor ==
  ASSUME NEW b \in Word, b # Zero
  PROVE  /\ b[31] \in {0, 1}
         /\ ~ IsNegative(b) => Field(b, 0, 31) \in Nat /\ Field(b, 0, 31) > 0
<1>1. b[31] \in {0, 1} BY WordIs
<1>2. Field(b, 0, 31) \in Nat /\ (Field(b, 0, 31) = 0 <=> \A k \in 0 .. 0 + 31 - 1 : b[k] = 0)
  <2>1. 0 \in Nat /\ 31 \in Nat /\ 0 + 31 <= 32 OBVIOUS
  <2> QED BY <2>1, FieldNat
<1>3. ASSUME b[31] = 0 PROVE Field(b, 0, 31) # 0
  <2>1. ASSUME Field(b, 0, 31) = 0 PROVE FALSE
    <3>1. \A k \in 0 .. 0 + 31 - 1 : b[k] = 0 BY <1>2, <2>1
    <3>2. \A k \in 0 .. 31 : b[k] = Zero[k]
      <4> SUFFICES ASSUME NEW k \in 0 .. 31 PROVE b[k] = Zero[k] OBVIOUS
      <4>1. k = 31 \/ k \in 0 .. 0 + 31 - 1 OBVIOUS
      <4> QED BY <1>3, <3>1, <4>1, ZeroWord
    <3> QED BY <3>2, SameBits, ZeroWord
  <2> QED BY <2>1
<1> QED BY <1>1, <1>2, <1>3 DEF IsNegative

(* Unsigned quotients and remainders by a word that is not zero are words. *)
LEMMA QuotientWord ==
  ASSUME NEW a \in Word, NEW b \in Word, b # Zero
  PROVE  Quotient(a, b) \in Word /\ Remainder(a, b) \in Word
<1> DEFINE half == Field(a, 1, 31)
           d == Field(b, 0, 31)
           h == half % d
<1>1. half \in Nat
  <2>1. 1 \in Nat /\ 31 \in Nat /\ 1 + 31 <= 32 OBVIOUS
  <2> QED BY <2>1, FieldNat
<1>2. ~ IsNegative(b) => d \in Nat /\ d > 0 BY Divisor
<1>3. a[0] \in {0, 1} BY WordIs
<1>4. Zero \in Word /\ Natural(1) \in Word /\ Sub(a, b) \in Word BY ZeroWord, NaturalIs, AddWord
<1>5. CASE IsNegative(b)
  BY <1>4, <1>5 DEF Quotient, Remainder
<1>6. CASE ~ IsNegative(b)
  <2> DEFINE last == IF h + a[0] >= d - h THEN 1 ELSE 0
             q == Natural(half \div d)
             r == IF h + a[0] >= d - h THEN h - (d - h) + a[0] ELSE 2 * h + a[0]
  <2>1. Quotient(a, b) = [i \in Bits |-> IF i = 0 THEN last ELSE q[i - 1]] /\ Remainder(a, b) = Natural(r)
    BY <1>6 DEF Quotient, Remainder
  <2>2. half \div d \in Nat /\ h \in Nat
    <3> HIDE DEF half, d
    <3> QED BY <1>1, <1>2, <1>6
  <2>3. q \in Word BY <2>2, NaturalIs
  <2> HIDE DEF half, d, h
  <2>4. r \in Nat BY <1>2, <1>3, <1>6, <2>2
  <2>5. Natural(r) \in Word BY <2>4, NaturalIs
  <2> HIDE DEF q
  <2>6. ASSUME NEW i \in 0 .. 31 PROVE (IF i = 0 THEN last ELSE q[i - 1]) \in Bit
    <3>1. i # 0 => i - 1 \in 0 .. 31 OBVIOUS
    <3>2. \A j \in 0 .. 31 : q[j] \in Bit BY <2>3, WordIs DEF Bit
    <3> QED BY <3>1, <3>2 DEF Bit
  <2> QED BY <2>1, <2>5, <2>6 DEF Word, Bits
<1> QED BY <1>5, <1>6

(* The number of a word. *)
LEMMA ToIntInt == ASSUME NEW a \in Word PROVE ToInt(a) \in Int
<1>1. 0 \in Nat /\ 31 \in Nat /\ 0 + 31 <= 32 OBVIOUS
<1>2. Field(a, 0, 31) \in Nat /\ Field(Not(a), 0, 31) \in Nat BY <1>1, FieldNat, NotWord
<1> HIDE DEF Field
<1> QED BY <1>2 DEF ToInt

(* Signed quotients are words. *)
LEMMA SignedQuotientWord ==
  ASSUME NEW a \in Word, NEW b \in Word, b # Zero
  PROVE  SignedQuotient(a, b) \in Word
<1> DEFINE x == ToInt(a)
           d == IF IsNegative(b) THEN - ToInt(b) ELSE ToInt(b)
           q == (x \div d) + (IF x < 0 /\ x % d # 0 THEN 1 ELSE 0)
<1>1. x \in Int BY ToIntInt
<1>2. d \in Nat /\ d > 0
  <2>1. CASE IsNegative(b)
    <3>1. 0 \in Nat /\ 31 \in Nat /\ 0 + 31 <= 32 OBVIOUS
    <3>2. Field(Not(b), 0, 31) \in Nat BY <3>1, FieldNat, NotWord
    <3>3. d = - (- Field(Not(b), 0, 31) - 1) BY <2>1 DEF ToInt
    <3> QED BY <3>2, <3>3
  <2>2. CASE ~ IsNegative(b)
    <3>1. d = Field(b, 0, 31) BY <2>2 DEF ToInt
    <3> QED BY <2>2, <3>1, Divisor
  <2> QED BY <2>1, <2>2
<1>3. Zero \in Word /\ Natural(1) \in Word BY ZeroWord, NaturalIs
<1>4. SignedQuotient(a, b) = IF b = Lowest THEN (IF a = Lowest THEN Natural(1) ELSE Zero)
                             ELSE OfInt(IF IsNegative(b) THEN - q ELSE q)
  BY DEF SignedQuotient
<1> HIDE DEF x, d
<1>5. q \in Int
  <2>1. x \div d \in Int BY <1>1, <1>2
  <2> QED BY <2>1
<1> HIDE DEF q
<1>6. OfInt(- q) \in Word /\ OfInt(q) \in Word
  <2>1. - q \in Int BY <1>5
  <2> QED BY <1>5, <2>1, OfIntWord
<1> QED BY <1>3, <1>4, <1>6

-----------------------------------------------------------------------------
(* What instructions compute are words. *)

(* The fields of an instruction are numbers of their widths (simulate.c:23-72). *)
LEMMA FieldOfWord ==
  ASSUME NEW w \in Word
  PROVE  /\ Field(w, 0, 7) \in Nat /\ Field(w, 7, 5) \in 0 .. 31 /\ Field(w, 12, 3) \in 0 .. 7
         /\ Field(w, 15, 5) \in 0 .. 31 /\ Field(w, 20, 5) \in 0 .. 31 /\ Field(w, 25, 7) \in Nat
         /\ Field(w, 0, 5) \in Nat /\ Field(w, 0, 4) \in Nat /\ Field(w, 5, 7) \in Nat
<1>1. \A lo \in Nat, n \in Nat : lo + n <= 32 => Field(w, lo, n) \in Nat BY FieldNat
<1>2. ASSUME NEW lo \in {7, 15, 20} PROVE Field(w, lo, 5) \in 0 .. 31
  <2>1. \A k \in lo .. lo + 4 : w[k] \in Bit
    <3>1. \A k \in lo .. lo + 4 : k \in 0 .. 31 OBVIOUS
    <3> QED BY <3>1, WordIs DEF Bit
  <2>2. lo \in Nat OBVIOUS
  <2>3. Field(w, lo, 5) = 16 * w[lo + 4] + 8 * w[lo + 3] + 4 * w[lo + 2] + 2 * w[lo + 1] + w[lo]
    BY <2>1, <2>2, ShortField
  <2>4. lo + 4 \in 0 .. 31 /\ lo + 3 \in 0 .. 31 /\ lo + 2 \in 0 .. 31 /\ lo + 1 \in 0 .. 31 /\ lo \in 0 .. 31 OBVIOUS
  <2>5. w[lo + 4] \in {0, 1} /\ w[lo + 3] \in {0, 1} /\ w[lo + 2] \in {0, 1} /\ w[lo + 1] \in {0, 1} /\ w[lo] \in {0, 1}
    BY <2>4, WordIs
  <2> HIDE DEF Field
  <2> QED BY <2>3, <2>5
<1>3. Field(w, 12, 3) \in 0 .. 7
  <2>1. \A k \in 12 .. 12 + 2 : w[k] \in Bit
    <3>1. \A k \in 12 .. 12 + 2 : k \in 0 .. 31 OBVIOUS
    <3> QED BY <3>1, WordIs DEF Bit
  <2>2. 12 \in Nat OBVIOUS
  <2>3. Field(w, 12, 3) = 4 * w[12 + 2] + 2 * w[12 + 1] + w[12] BY <2>1, <2>2, ShortField
  <2>4. 12 + 2 \in 0 .. 31 /\ 12 + 1 \in 0 .. 31 /\ 12 \in 0 .. 31 OBVIOUS
  <2>5. w[12 + 2] \in {0, 1} /\ w[12 + 1] \in {0, 1} /\ w[12] \in {0, 1} BY <2>4, WordIs
  <2> HIDE DEF Field
  <2> QED BY <2>3, <2>5
<1> HIDE DEF Field
<1> QED BY <1>1, <1>2, <1>3

(* Every branch for two registers computes a word, if it does not trap (simulate.c:264-405), *)
LEMMA ResultsOfRegisters ==
  ASSUME NEW f3, NEW f7, NEW a \in Word, NEW b \in Word, ~ (f3 = 7 /\ f7 = 1 /\ b = Zero)
  PROVE  \A v \in result_R(f3, f7, a, b) : v \in Word
<1>1. Count(b) \in Nat BY FieldOfWord DEF Count
<1>2. Add(a, b) \in Word /\ Sub(a, b) \in Word BY AddWord
<1>3. And(a, b) \in Word /\ Or(a, b) \in Word /\ Xor(a, b) \in Word
      /\ ShiftLeft(a, Count(b)) \in Word /\ ShiftRight(a, Count(b)) \in Word /\ ShiftRightArith(a, Count(b)) \in Word
  BY <1>1, BitwiseWord
<1>4. Product(a, b) \in Word /\ HighOfSigned(a, b) \in Word BY ProductWord
<1>5. b # Zero => Quotient(a, b) \in Word /\ Remainder(a, b) \in Word /\ SignedQuotient(a, b) \in Word
  BY QuotientWord, SignedQuotientWord
<1>6. Zero \in Word /\ Flag(Below(a, b)) \in Word BY ZeroWord, FlagWord
<1> QED BY <1>2, <1>3, <1>4, <1>5, <1>6 DEF result_R

(* every branch for a register and a constant (simulate.c:406-466), *)
LEMMA ResultsOfConstants ==
  ASSUME NEW f3, NEW a \in Word, NEW imm \in Word
  PROVE  \A v \in result_I(f3, a, imm) : v \in Word
<1> DEFINE n == Field(imm, 0, 4)
<1>1. n \in Nat BY FieldOfWord
<1> HIDE DEF n
<1>2. Add(a, imm) \in Word BY AddWord
<1>3. And(a, imm) \in Word /\ Or(a, imm) \in Word /\ Xor(a, imm) \in Word
      /\ ShiftLeft(a, n) \in Word /\ ShiftRight(a, n) \in Word /\ ShiftRightArith(a, n) \in Word
  BY <1>1, BitwiseWord
<1>4. Flag(Less(a, imm)) \in Word /\ Flag(Below(a, imm)) \in Word BY FlagWord
<1> QED BY <1>2, <1>3, <1>4 DEF result_I, n

(* and every format of calculate_immediate (simulate.c:85-241). *)
LEMMA ImmediateWord ==
  ASSUME NEW w \in Word
  PROVE  /\ immediate_I(w) \in Word /\ immediate_S(w) \in Word /\ immediate_B(w) \in Word
         /\ immediate_J(w) \in Word /\ immediate_U(w) \in Word /\ calculate_immediate(w) \in Word
<1>0. \A i \in 0 .. 31 : w[i] \in Bit BY WordIs DEF Bit
<1>1. immediate_I(w) \in Word
  <2>1. \A i \in 0 .. 31 : (IF i <= 10 THEN w[i + 20] ELSE w[31]) \in Bit BY <1>0
  <2> QED BY <2>1 DEF immediate_I, Word, Bits
<1>2. immediate_S(w) \in Word
  <2>1. \A i \in 0 .. 31 : (IF i = 0 THEN w[7] ELSE IF i <= 4 THEN w[i + 7]
                            ELSE IF i <= 10 THEN w[i + 20] ELSE w[31]) \in Bit BY <1>0
  <2> QED BY <2>1 DEF immediate_S, Word, Bits
<1>3. immediate_B(w) \in Word
  <2>1. \A i \in 0 .. 31 : (IF i = 0 THEN 0 ELSE IF i <= 4 THEN w[i + 27]
                            ELSE IF i <= 10 THEN w[i + 20] ELSE IF i = 11 THEN w[7] ELSE w[31]) \in Bit BY <1>0 DEF Bit
  <2> QED BY <2>1 DEF immediate_B, Word, Bits
<1>4. immediate_J(w) \in Word
  <2>1. \A i \in 0 .. 31 : (IF i = 0 THEN 1 ELSE IF i <= 10 THEN w[i + 20] ELSE IF i = 11 THEN w[20]
                            ELSE IF i <= 19 THEN w[i] ELSE w[31]) \in Bit BY <1>0 DEF Bit
  <2> QED BY <2>1 DEF immediate_J, Word, Bits
<1>5. immediate_U(w) \in Word
  <2>1. \A i \in 0 .. 31 : (IF i \in 11 .. 30 THEN w[i] ELSE 0) \in Bit BY <1>0 DEF Bit
  <2> QED BY <2>1 DEF immediate_U, Word, Bits
<1>6. calculate_immediate(w) \in Word
  <2> DEFINE op == Field(w, 0, 7)
  <2> HIDE DEF op
  <2> QED BY <1>1, <1>2, <1>3, <1>4, <1>5, ZeroWord DEF calculate_immediate, op
<1> QED BY <1>1, <1>2, <1>3, <1>4, <1>5, <1>6

-----------------------------------------------------------------------------
(* What the loader writes. *)

(* The member of a set of one. *)
LEMMA OnlyIs == \A e : Only({e}) = e
BY DEF Only

\* The memories that come of m by writing words.
Writings(m) == UNION {[D -> Word] : D \in SUBSET (DOMAIN m \cup (Nat \X Nat))}

(* They hold words, *)
LEMMA WritingsAre ==
  ASSUME NEW m, NEW v
  PROVE  v \in Writings(m) <=> OfWords(v) /\ DOMAIN v \subseteq DOMAIN m \cup (Nat \X Nat)
<1>1. ASSUME v \in Writings(m) PROVE OfWords(v) /\ DOMAIN v \subseteq DOMAIN m \cup (Nat \X Nat)
  <2>1. PICK D \in SUBSET (DOMAIN m \cup (Nat \X Nat)) : v \in [D -> Word] BY <1>1 DEF Writings
  <2>2. DOMAIN v = D BY <2>1
  <2> QED BY <2>1, <2>2 DEF OfWords
<1>2. ASSUME OfWords(v), DOMAIN v \subseteq DOMAIN m \cup (Nat \X Nat) PROVE v \in Writings(m)
  BY <1>2 DEF OfWords, Writings
<1> QED BY <1>1, <1>2

(* The place of a word. *)
LEMMA PlaceIsPair == ASSUME NEW a \in Word PROVE place(a) \in Nat \X Nat
<1>1. \A lo \in Nat, n \in Nat : lo + n <= 32 => Field(a, lo, n) \in Nat BY FieldNat
<1>2. Field(a, 16, 16) \in Nat /\ Field(a, 2, 14) \in Nat
  <2> HIDE DEF Field
  <2> QED BY <1>1
<1> QED BY <1>2 DEF place, page_number, index

(* and writing a word or a byte gives one of them again. *)
LEMMA WritingsWritten ==
  ASSUME NEW m, NEW v \in Writings(m), NEW a \in Word, NEW d \in Word
  PROVE  memory_wr_w(v, a, d) \in Writings(m) /\ memory_wr_b(v, a, d) \in Writings(m)
<1>1. OfWords(v) /\ DOMAIN v \subseteq DOMAIN m \cup (Nat \X Nat) BY WritingsAre
<1>2. /\ OfWords(memory_wr_w(v, a, d)) /\ OfWords(memory_wr_b(v, a, d))
      /\ DOMAIN memory_wr_w(v, a, d) = DOMAIN v \cup {place(a)}
      /\ DOMAIN memory_wr_b(v, a, d) = DOMAIN v \cup {place(a)}
  BY <1>1, WritesKeep
<1>3. DOMAIN v \cup {place(a)} \subseteq DOMAIN m \cup (Nat \X Nat) BY <1>1, PlaceIsPair
<1>4. memory_wr_w(v, a, d) \in Writings(m)
  <2>1. DOMAIN memory_wr_w(v, a, d) \subseteq DOMAIN m \cup (Nat \X Nat) BY <1>2, <1>3
  <2> QED BY <1>2, <2>1, WritingsAre
<1>5. memory_wr_b(v, a, d) \in Writings(m)
  <2>1. DOMAIN memory_wr_b(v, a, d) \subseteq DOMAIN m \cup (Nat \X Nat) BY <1>2, <1>3
  <2> QED BY <1>2, <2>1, WritingsAre
<1> QED BY <1>4, <1>5

(* Bytes are numbers. *)
LEMMA BytesAreNumbers == Seq(Byte) \subseteq Seq(Nat) /\ Seq(Seq(Byte)) \subseteq Seq(Seq(Nat))
<1>1. ASSUME NEW S, NEW T, S \subseteq T PROVE Seq(S) \subseteq Seq(T)
  <2> SUFFICES ASSUME NEW s \in Seq(S) PROVE s \in Seq(T) OBVIOUS
  <2>1. s \in [1 .. Len(s) -> T] /\ Len(s) \in Nat BY <1>1
  <2> QED BY <2>1, SeqDef
<1>2. Byte \subseteq Nat BY DEF Byte
<1>3. Seq(Byte) \subseteq Seq(Nat) BY <1>1, <1>2
<1> QED BY <1>1, <1>3

(* Writing bytes (read_exec.c:86-93): one after the other, each behind the one before. *)
LEMMA WriteBytesIs ==
  ASSUME NEW m, NEW v \in Writings(m), NEW addr \in Word, NEW bytes \in Seq(Nat)
  PROVE  \E u \in [0 .. Len(bytes) -> Writings(m)] :
           /\ u[0] = v
           /\ \A n \in 1 .. Len(bytes) : u[n] = memory_wr_b(u[n - 1], Plus(addr, n - 1), Natural(bytes[n]))
           /\ WriteBytes(v, addr, bytes) = u[Len(bytes)]
<1> DEFINE N == Len(bytes)
           Step(x, n) == Only({memory_wr_b(before, Plus(addr, n - 1), Natural(bytes[n])) : before \in {x}})
           Is(u) == u = [n \in 0 .. Len(bytes) |-> IF n = 0 THEN v ELSE Step(u[n - 1], n)]
           written == CHOOSE u : Is(u)
           g == [x \in (1 .. N) \X Writings(m) |-> Step(x[2], x[1])]
<1>1. WriteBytes(v, addr, bytes) = written[N] BY DEF WriteBytes
<1>2. N \in Nat OBVIOUS
<1>3. ASSUME NEW x \in Writings(m), NEW n \in 1 .. N
      PROVE  Step(x, n) \in Writings(m) /\ Step(x, n) = memory_wr_b(x, Plus(addr, n - 1), Natural(bytes[n]))
  <2>1. n - 1 \in Nat /\ bytes[n] \in Nat BY <1>2
  <2>2. Plus(addr, n - 1) \in Word /\ Natural(bytes[n]) \in Word BY <2>1, NaturalIs, AddWord DEF Plus
  <2> DEFINE d == Natural(bytes[n])
             a == Plus(addr, n - 1)
  <2> HIDE DEF d, a
  <2>3. memory_wr_b(x, a, d) \in Writings(m) BY <2>2, WritingsWritten DEF a, d
  <2>4. {memory_wr_b(before, a, d) : before \in {x}} = {memory_wr_b(x, a, d)} OBVIOUS
  <2>5. Only({memory_wr_b(before, a, d) : before \in {x}}) = memory_wr_b(x, a, d) BY <2>4, OnlyIs
  <2> QED BY <2>3, <2>5 DEF a, d
<1> HIDE DEF Step, N
<1>4. g \in [(1 .. N) \X Writings(m) -> Writings(m)]
  <2>1. \A x \in (1 .. N) \X Writings(m) : x[1] \in 1 .. N /\ x[2] \in Writings(m) OBVIOUS
  <2> QED BY <1>3, <2>1
<1>5. PICK u \in [0 .. N -> Writings(m)] : Steps(u, N, v, g)
  <2> HIDE DEF g
  <2> QED BY <1>2, <1>4, StepsExist
<1>6. \A k \in 0 .. N : k # 0 => g[k, u[k - 1]] = Step(u[k - 1], k)
  <2> SUFFICES ASSUME NEW k \in 0 .. N, k # 0 PROVE g[k, u[k - 1]] = Step(u[k - 1], k) OBVIOUS
  <2>1. <<k, u[k - 1]>> \in (1 .. N) \X Writings(m) BY <1>2
  <2> QED BY <2>1
<1> HIDE DEF g
<1>7. Is(u) BY <1>5, <1>6 DEF Steps, N
<1>8. Is(written) BY <1>7
<1> HIDE DEF written
<1>9. written = [n \in 0 .. N |-> IF n = 0 THEN v ELSE Step(written[n - 1], n)] BY <1>8 DEF N
<1>10. written[0] = v /\ \A k \in 1 .. N : written[k] = Step(written[k - 1], k)
  <2>1. 0 \in 0 .. N /\ \A k \in 1 .. N : k \in 0 .. N /\ k # 0 BY <1>2
  <2> HIDE DEF Is
  <2> QED BY <1>9, <2>1
<1> HIDE DEF Is
<1> DEFINE S == {k \in 0 .. N : written[k] \in Writings(m)}
<1>11. 0 \in S BY <1>2, <1>10
<1>12. ASSUME NEW k \in 0 .. N, k \in S, k < N PROVE k + 1 \in S
  <2>1. k + 1 \in 1 .. N /\ k + 1 - 1 = k /\ k + 1 \in 0 .. N /\ written[k] \in Writings(m) BY <1>2, <1>12
  <2>2. written[k + 1] = Step(written[k], k + 1) BY <1>10, <2>1
  <2>3. written[k + 1] \in Writings(m) BY <1>3, <2>1, <2>2
  <2> QED BY <2>1, <2>3
<1>13. \A k \in 0 .. N : written[k] \in Writings(m)
  <2>1. 0 .. N \subseteq S
    <3> HIDE DEF S
    <3> QED BY <1>2, <1>11, <1>12, UpTo
  <2> QED BY <2>1
<1>14. \A n \in 1 .. N : written[n] = memory_wr_b(written[n - 1], Plus(addr, n - 1), Natural(bytes[n]))
  <2> SUFFICES ASSUME NEW n \in 1 .. N
               PROVE  written[n] = memory_wr_b(written[n - 1], Plus(addr, n - 1), Natural(bytes[n]))
    OBVIOUS
  <2>1. n - 1 \in 0 .. N BY <1>2
  <2>2. written[n - 1] \in Writings(m) BY <1>13, <2>1
  <2> QED BY <1>3, <1>10, <2>2
<1>15. written \in [0 .. N -> Writings(m)]
  <2>1. DOMAIN written = 0 .. N /\ written = [n \in DOMAIN written |-> written[n]]
    <3> DEFINE f == [n \in 0 .. N |-> IF n = 0 THEN v ELSE Step(written[n - 1], n)]
    <3>1. DOMAIN f = 0 .. N /\ f = [n \in DOMAIN f |-> f[n]] OBVIOUS
    <3> HIDE DEF f
    <3>2. written = f BY <1>9 DEF f
    <3> QED BY <3>1, <3>2
  <2> QED BY <1>13, <2>1
<1> QED BY <1>1, <1>10, <1>14, <1>15 DEF N

(* So memory holds words after it. *)
LEMMA BytesKeep ==
  ASSUME NEW m, NEW v \in Writings(m), NEW addr \in Word, NEW bytes \in Seq(Nat)
  PROVE  WriteBytes(v, addr, bytes) \in Writings(m)
<1>1. PICK u \in [0 .. Len(bytes) -> Writings(m)] : WriteBytes(v, addr, bytes) = u[Len(bytes)] BY WriteBytesIs
<1>2. Len(bytes) \in 0 .. Len(bytes) OBVIOUS
<1> QED BY <1>1, <1>2

(* The address of an argument string, by the addresses of those before it (main.c:38-47). *)
LEMMA AddressIs ==
  ASSUME NEW args \in Seq(Seq(Nat)), NEW n \in 1 .. Len(args)
  PROVE  \E begin \in [1 .. n -> Nat] :
           /\ begin[1] = argv_addr + 4 * Len(args)
           /\ \A k \in 2 .. n : begin[k] = begin[k - 1] + Len(args[k - 1]) + 1
           /\ str_addr(args, n) = begin[n]
<1> DEFINE Is(b) == b = [k \in 1 .. n |-> IF k = 1 THEN argv_addr + 4 * Len(args)
                                          ELSE b[k - 1] + Len(args[k - 1]) + 1]
           begin == CHOOSE b : Is(b)
           first == argv_addr + 4 * Len(args)
           N == n - 1
           g == [x \in (1 .. N) \X Nat |-> x[2] + Len(args[x[1]]) + 1]
<1>1. str_addr(args, n) = begin[n] BY DEF str_addr
<1>2. n \in Nat /\ N \in Nat /\ first \in Nat /\ N + 1 = n
  <2>1. Len(args) \in Nat OBVIOUS
  <2> QED BY <2>1 DEF argv_addr
<1>3. \A k \in 1 .. n : Len(args[k]) \in Nat
  <2> SUFFICES ASSUME NEW k \in 1 .. n PROVE Len(args[k]) \in Nat OBVIOUS
  <2>1. k \in 1 .. Len(args) BY <1>2
  <2>2. args[k] \in Seq(Nat) BY <2>1
  <2> QED BY <2>2
<1> HIDE DEF first
<1>4. g \in [(1 .. N) \X Nat -> Nat]
  <2> SUFFICES ASSUME NEW x \in (1 .. N) \X Nat PROVE x[2] + Len(args[x[1]]) + 1 \in Nat OBVIOUS
  <2>1. x[1] \in 1 .. n /\ x[2] \in Nat BY <1>2
  <2>2. Len(args[x[1]]) \in Nat BY <1>3, <2>1
  <2>3. \A a, b \in Nat : a + b + 1 \in Nat OBVIOUS
  <2> QED BY ONLY <2>1, <2>2, <2>3
<1>5. PICK u \in [0 .. N -> Nat] : Steps(u, N, first, g)
  <2> HIDE DEF g, N
  <2> QED BY <1>2, <1>4, StepsExist
<1> DEFINE b == [k \in 1 .. n |-> u[k - 1]]
<1>6. Is(b)
  <2> SUFFICES ASSUME NEW k \in 1 .. n
               PROVE  u[k - 1] = IF k = 1 THEN first ELSE b[k - 1] + Len(args[k - 1]) + 1
    BY DEF first
  <2>1. u = [j \in 0 .. N |-> IF j = 0 THEN first ELSE g[j, u[j - 1]]] BY <1>5 DEF Steps
  <2>2. CASE k = 1
    <3>1. k - 1 = 0 /\ 0 \in 0 .. N BY <1>2, <2>2
    <3> QED BY <2>1, <2>2, <3>1
  <2>3. CASE k # 1
    <3> DEFINE j == k - 1
    <3>1. j \in 1 .. N /\ j \in 0 .. N /\ j # 0 /\ j - 1 \in 0 .. N /\ j \in 1 .. n BY <1>2, <2>3
    <3> HIDE DEF j
    <3>2. u[j] = g[j, u[j - 1]]
      <4> HIDE DEF g, N
      <4> QED BY <2>1, <3>1
    <3>3. <<j, u[j - 1]>> \in (1 .. N) \X Nat BY <1>5, <3>1
    <3>4. g[j, u[j - 1]] = u[j - 1] + Len(args[j]) + 1 BY <3>3
    <3>5. b[j] = u[j - 1] BY <3>1
    <3> QED BY <2>3, <3>2, <3>4, <3>5 DEF j
  <2> QED BY <2>2, <2>3
<1> HIDE DEF b, g
<1>7. Is(begin) BY <1>6
<1> HIDE DEF begin
<1>8. begin[1] = first /\ \A k \in 2 .. n : begin[k] = begin[k - 1] + Len(args[k - 1]) + 1
  <2>1. 1 \in 1 .. n /\ \A k \in 2 .. n : k \in 1 .. n /\ k # 1 BY <1>2
  <2> QED BY <1>7, <2>1 DEF first
<1>9. DOMAIN begin = 1 .. n /\ begin = [k \in DOMAIN begin |-> begin[k]]
  <2> DEFINE f == [k \in 1 .. n |-> IF k = 1 THEN argv_addr + 4 * Len(args) ELSE begin[k - 1] + Len(args[k - 1]) + 1]
  <2>1. DOMAIN f = 1 .. n /\ f = [k \in DOMAIN f |-> f[k]] OBVIOUS
  <2>2. begin = f BY <1>7
  <2> HIDE DEF f
  <2> QED BY <2>1, <2>2
<1> HIDE DEF Is
<1> DEFINE S == {k \in 0 .. N : begin[k + 1] \in Nat}
<1>10. 0 \in S
  <2>1. 0 + 1 = 1 /\ 0 \in 0 .. N BY <1>2
  <2> QED BY <1>2, <1>8, <2>1
<1>11. ASSUME NEW k \in 0 .. N, k \in S, k < N PROVE k + 1 \in S
  <2> DEFINE j == k + 1
             next == j + 1
  <2>1. next \in 2 .. n /\ next - 1 = j /\ j \in 1 .. n /\ j \in 0 .. N BY <1>2, <1>11
  <2> HIDE DEF next
  <2>0. begin[j] \in Nat BY <1>11
  <2> HIDE DEF j
  <2>2. begin[next] = begin[j] + Len(args[j]) + 1 BY <1>8, <2>1
  <2>3. Len(args[j]) \in Nat BY <1>3, <2>1
  <2>5. \A x, y \in Nat : x + y + 1 \in Nat OBVIOUS
  <2>4. begin[next] \in Nat BY ONLY <2>0, <2>2, <2>3, <2>5
  <2> QED BY <2>1, <2>4 DEF next, j
<1>12. \A k \in 1 .. n : begin[k] \in Nat
  <2>1. 0 .. N \subseteq S
    <3> HIDE DEF S, N
    <3> QED BY <1>2, <1>10, <1>11, UpTo
  <2> SUFFICES ASSUME NEW k \in 1 .. n PROVE begin[k] \in Nat OBVIOUS
  <2>2. k - 1 \in 0 .. N /\ k - 1 + 1 = k BY <1>2
  <2> QED BY <2>1, <2>2
<1> QED BY <1>1, <1>8, <1>9, <1>12 DEF first

(* Each string begins behind the one before it. *)
LEMMA AddressesAre ==
  ASSUME NEW args \in Seq(Seq(Nat)), args # <<>>
  PROVE  /\ \A n \in 1 .. Len(args) : str_addr(args, n) \in Nat
         /\ str_addr(args, 1) = argv_addr + 4 * Len(args)
         /\ \A n \in 2 .. Len(args) : str_addr(args, n) = str_addr(args, n - 1) + Len(args[n - 1]) + 1
<1> DEFINE N == Len(args)
           Begins(begin, n) == /\ begin \in [1 .. n -> Nat]
                               /\ begin[1] = argv_addr + 4 * Len(args)
                               /\ \A k \in 2 .. n : begin[k] = begin[k - 1] + Len(args[k - 1]) + 1
                               /\ str_addr(args, n) = begin[n]
<1>1. N \in Nat /\ 1 \in 1 .. N OBVIOUS
<1>2. \A n \in 1 .. N : \E begin : Begins(begin, n) BY AddressIs
<1> HIDE DEF N
<1>3. \A n \in 1 .. N : str_addr(args, n) \in Nat
  <2> SUFFICES ASSUME NEW n \in 1 .. N PROVE str_addr(args, n) \in Nat OBVIOUS
  <2>1. PICK begin : Begins(begin, n) BY <1>2
  <2>2. n \in 1 .. n BY <1>1
  <2> QED BY <2>1, <2>2
<1>4. str_addr(args, 1) = argv_addr + 4 * Len(args)
  <2>1. PICK begin : Begins(begin, 1) BY <1>1, <1>2
  <2> QED BY <2>1
<1>5. ASSUME NEW n \in 2 .. N PROVE str_addr(args, n) = str_addr(args, n - 1) + Len(args[n - 1]) + 1
  <2> DEFINE before == n - 1
  <2>1. n \in 1 .. N /\ before \in 1 .. N /\ n \in 2 .. n /\ before \in Nat /\ before >= 1
        /\ \A k \in 2 .. before : k \in 2 .. n
    BY <1>1
  <2>2. PICK b : Begins(b, n) BY <1>2, <2>1
  <2>3. PICK c : Begins(c, before) BY <1>2, <2>1
  <2> DEFINE last == before - 1
             S == {k \in 0 .. last : b[k + 1] = c[k + 1]}
  <2>4. last \in Nat /\ last + 1 = before BY <2>1
  <2> HIDE DEF last
  <2>5. 0 \in S
    <3>1. 0 \in 0 .. last /\ 0 + 1 = 1 BY <2>4
    <3> QED BY <2>2, <2>3, <3>1
  <2>6. ASSUME NEW k \in 0 .. last, k \in S, k < last PROVE k + 1 \in S
    <3> DEFINE next == k + 1 + 1
    <3>1. next \in 2 .. before /\ next - 1 = k + 1 /\ k + 1 \in 0 .. last /\ b[k + 1] = c[k + 1] BY <2>4, <2>6
    <3> HIDE DEF next
    <3>2. b[next] = b[next - 1] + Len(args[next - 1]) + 1 BY <2>1, <2>2, <3>1
    <3>3. c[next] = c[next - 1] + Len(args[next - 1]) + 1 BY <2>3, <3>1
    <3>4. b[next] = c[next] BY <3>1, <3>2, <3>3
    <3> QED BY <3>1, <3>4 DEF next
  <2>7. last \in S
    <3> HIDE DEF S
    <3>1. 0 .. last \subseteq S BY <2>4, <2>5, <2>6, UpTo
    <3> QED BY <2>4, <3>1
  <2>8. b[before] = str_addr(args, before) BY <2>3, <2>4, <2>7
  <2>9. b[n] = b[n - 1] + Len(args[n - 1]) + 1 BY <2>1, <2>2
  <2> QED BY <2>2, <2>8, <2>9
<1> QED BY <1>3, <1>4, <1>5 DEF N

(* Passing the arguments (main.c:32-49): their number, then for each a pointer and its string. *)
LEMMA WriteArgsIs ==
  ASSUME NEW m, OfWords(m), NEW args \in Seq(Seq(Nat))
  PROVE  \E u \in [0 .. Len(args) -> Writings(m)] :
           /\ u[0] = memory_wr_w(m, Natural(count_addr), Natural(Len(args)))
           /\ \A n \in 1 .. Len(args) :
                u[n] = WriteBytes(memory_wr_w(u[n - 1], Natural(argv_addr + 4 * (n - 1)), Natural(str_addr(args, n))),
                                  Natural(str_addr(args, n)), Append(args[n], 0))
           /\ WriteArgs(m, args) = u[Len(args)]
<1> DEFINE N == Len(args)
           first == memory_wr_w(m, Natural(count_addr), Natural(Len(args)))
           Put(x, n) == WriteBytes(memory_wr_w(x, Natural(argv_addr + 4 * (n - 1)), Natural(str_addr(args, n))),
                                   Natural(str_addr(args, n)), Append(args[n], 0))
           Step(x, n) == Only({WriteBytes(memory_wr_w(before, Natural(argv_addr + 4 * (n - 1)),
                                                      Natural(str_addr(args, n))),
                                          Natural(str_addr(args, n)), Append(args[n], 0)) : before \in {x}})
           Is(u) == u = [n \in 0 .. Len(args) |-> IF n = 0 THEN first ELSE Step(u[n - 1], n)]
           written == CHOOSE u : Is(u)
           g == [x \in (1 .. N) \X Writings(m) |-> Step(x[2], x[1])]
<1>1. WriteArgs(m, args) = written[N] BY DEF WriteArgs
<1>2. N \in Nat OBVIOUS
<1>3. first \in Writings(m)
  <2>1. m \in Writings(m) BY WritingsAre
  <2>2. count_addr \in Nat BY DEF count_addr
  <2>3. Natural(count_addr) \in Word /\ Natural(Len(args)) \in Word BY <1>2, <2>2, NaturalIs
  <2> QED BY <2>1, <2>3, WritingsWritten
<1>4. ASSUME NEW x \in Writings(m), NEW n \in 1 .. N PROVE Step(x, n) \in Writings(m) /\ Step(x, n) = Put(x, n)
  <2> DEFINE a == Natural(argv_addr + 4 * (n - 1))
             at == Natural(str_addr(args, n))
             bytes == Append(args[n], 0)
  <2>1. a \in Word
    <3>1. argv_addr + 4 * (n - 1) \in Nat BY <1>2 DEF argv_addr
    <3> QED BY <3>1, NaturalIs
  <2>2. at \in Word
    <3>1. args # <<>> BY <1>2
    <3>2. str_addr(args, n) \in Nat BY <3>1, AddressesAre
    <3> QED BY <3>2, NaturalIs
  <2>3. bytes \in Seq(Nat)
    <3>1. args[n] \in Seq(Nat) BY <1>2
    <3> QED BY <3>1
  <2> HIDE DEF a, at, bytes
  <2>4. memory_wr_w(x, a, at) \in Writings(m) BY <2>1, <2>2, WritingsWritten
  <2>5. WriteBytes(memory_wr_w(x, a, at), at, bytes) \in Writings(m) BY <2>2, <2>3, <2>4, BytesKeep
  <2>6. {WriteBytes(memory_wr_w(before, a, at), at, bytes) : before \in {x}}
        = {WriteBytes(memory_wr_w(x, a, at), at, bytes)} OBVIOUS
  <2>7. Only({WriteBytes(memory_wr_w(before, a, at), at, bytes) : before \in {x}})
        = WriteBytes(memory_wr_w(x, a, at), at, bytes) BY <2>6, OnlyIs
  <2> QED BY <2>5, <2>7 DEF a, at, bytes
<1> HIDE DEF Step, N, first
<1>5. g \in [(1 .. N) \X Writings(m) -> Writings(m)]
  <2>1. \A x \in (1 .. N) \X Writings(m) : x[1] \in 1 .. N /\ x[2] \in Writings(m) OBVIOUS
  <2> HIDE DEF Put
  <2> QED BY <1>4, <2>1
<1>6. PICK u \in [0 .. N -> Writings(m)] : Steps(u, N, first, g)
  <2> HIDE DEF g
  <2> QED BY <1>2, <1>3, <1>5, StepsExist
<1>7. \A k \in 0 .. N : k # 0 => g[k, u[k - 1]] = Step(u[k - 1], k)
  <2> SUFFICES ASSUME NEW k \in 0 .. N, k # 0 PROVE g[k, u[k - 1]] = Step(u[k - 1], k) OBVIOUS
  <2>1. <<k, u[k - 1]>> \in (1 .. N) \X Writings(m) BY <1>2
  <2> QED BY <2>1
<1> HIDE DEF g, Put
<1>8. Is(u) BY <1>6, <1>7 DEF Steps, N
<1>9. Is(written) BY <1>8
<1> HIDE DEF written
<1>10. written = [n \in 0 .. N |-> IF n = 0 THEN first ELSE Step(written[n - 1], n)] BY <1>9 DEF N
<1>11. written[0] = first /\ \A k \in 1 .. N : written[k] = Step(written[k - 1], k)
  <2>1. 0 \in 0 .. N /\ \A k \in 1 .. N : k \in 0 .. N /\ k # 0 BY <1>2
  <2> HIDE DEF Is
  <2> QED BY <1>10, <2>1
<1> HIDE DEF Is
<1> DEFINE S == {k \in 0 .. N : written[k] \in Writings(m)}
<1>12. 0 \in S BY <1>2, <1>3, <1>11
<1>13. ASSUME NEW k \in 0 .. N, k \in S, k < N PROVE k + 1 \in S
  <2>1. k + 1 \in 1 .. N /\ k + 1 - 1 = k /\ k + 1 \in 0 .. N /\ written[k] \in Writings(m) BY <1>2, <1>13
  <2>2. written[k + 1] = Step(written[k], k + 1) BY <1>11, <2>1
  <2>3. written[k + 1] \in Writings(m) BY <1>4, <2>1, <2>2
  <2> QED BY <2>1, <2>3
<1>14. \A k \in 0 .. N : written[k] \in Writings(m)
  <2>1. 0 .. N \subseteq S
    <3> HIDE DEF S
    <3> QED BY <1>2, <1>12, <1>13, UpTo
  <2> QED BY <2>1
<1>15. \A n \in 1 .. N : written[n] = Put(written[n - 1], n)
  <2> SUFFICES ASSUME NEW n \in 1 .. N PROVE written[n] = Put(written[n - 1], n) OBVIOUS
  <2>1. n - 1 \in 0 .. N BY <1>2
  <2>2. written[n - 1] \in Writings(m) BY <1>14, <2>1
  <2> QED BY <1>4, <1>11, <2>2
<1>16. written \in [0 .. N -> Writings(m)]
  <2> DEFINE f == [n \in 0 .. N |-> IF n = 0 THEN first ELSE Step(written[n - 1], n)]
  <2>1. DOMAIN f = 0 .. N /\ f = [n \in DOMAIN f |-> f[n]] OBVIOUS
  <2> HIDE DEF f
  <2>2. written = f BY <1>10 DEF f
  <2>3. DOMAIN written = 0 .. N /\ written = [n \in DOMAIN written |-> written[n]] BY <2>1, <2>2
  <2> QED BY <1>14, <2>3
<1>17. written[0] = memory_wr_w(m, Natural(count_addr), Natural(Len(args))) BY <1>11 DEF first
<1>18. \A n \in 1 .. N : written[n]
         = WriteBytes(memory_wr_w(written[n - 1], Natural(argv_addr + 4 * (n - 1)), Natural(str_addr(args, n))),
                      Natural(str_addr(args, n)), Append(args[n], 0))
  BY <1>15 DEF Put
<1> QED BY <1>1, <1>16, <1>17, <1>18 DEF N

(* So memory holds words after it. *)
LEMMA ArgsKeep ==
  ASSUME NEW m, OfWords(m), NEW args \in Seq(Seq(Nat))
  PROVE  OfWords(WriteArgs(m, args))
<1>1. PICK u \in [0 .. Len(args) -> Writings(m)] : WriteArgs(m, args) = u[Len(args)] BY WriteArgsIs
<1>2. Len(args) \in 0 .. Len(args) OBVIOUS
<1>3. WriteArgs(m, args) \in Writings(m) BY <1>1, <1>2
<1> QED BY <1>3, WritingsAre

(* The arguments behind the separator are some of the words of the command line. *)
LEMMA ArgsAreStrings == ASSUME NEW S, NEW argv \in Seq(S) PROVE ProgramArgs(argv) \in Seq(S)
<1> DEFINE found == {n \in 1 .. Len(argv) - 1 : argv[n + 1] = Dashes}
           N == Len(argv)
<1>0. N \in Nat OBVIOUS
<1>1. seperator_position(argv) \in Nat
  <2>1. CASE found = {} BY <1>0, <2>1 DEF seperator_position
  <2>2. CASE found # {}
    <3>1. \E n \in found : \A other \in found : n <= other
      <4> SUFFICES ASSUME \A n \in found : \E other \in found : other < n PROVE FALSE
        <5>1. \A n \in found, other \in found : n \in Int /\ other \in Int OBVIOUS
        <5> QED BY <5>1
      <4> DEFINE T == {k \in 0 .. N : \A n \in found : k < n}
      <4>1. 0 \in T BY <1>0
      <4>2. ASSUME NEW k \in 0 .. N, k \in T, k < N PROVE k + 1 \in T
        <5>1. ASSUME NEW n \in found PROVE k + 1 < n
          <6>1. k < n /\ n \in Int BY <4>2
          <6>2. PICK other \in found : other < n OBVIOUS
          <6>3. k < other /\ other \in Int BY <4>2
          <6> QED BY <6>1, <6>2, <6>3
        <5>2. k + 1 \in 0 .. N BY <1>0, <4>2
        <5> HIDE DEF found
        <5> QED BY <5>1, <5>2
      <4>3. N \in T
        <5> HIDE DEF T, N
        <5>1. 0 .. N \subseteq T BY <1>0, <4>1, <4>2, UpTo
        <5> QED BY <1>0, <5>1
      <4>4. PICK n \in found : TRUE BY <2>2
      <4>5. N < n BY <4>3
      <4> QED BY <1>0, <4>5
    <3>2. seperator_position(argv) = CHOOSE n \in found : \A other \in found : n <= other
      BY <2>2 DEF seperator_position
    <3>3. seperator_position(argv) \in found
      <4> HIDE DEF found
      <4> QED BY <3>1, <3>2
    <3> QED BY <1>0, <3>3
  <2> QED BY <2>1, <2>2
<1>2. seperator_position(argv) + 1 \in Nat /\ seperator_position(argv) + 1 >= 1 BY <1>1
<1>3. \A i \in seperator_position(argv) + 1 .. Len(argv) : argv[i] \in S BY <1>0, <1>2
<1> HIDE DEF found
<1> QED BY <1>0, <1>2, <1>3, SubSeqProperties DEF ProgramArgs

-----------------------------------------------------------------------------
(* The type invariant. *)

Lines == {input.listing[n] : n \in DOMAIN input.listing}

TypeOK == /\ input \in Inputs
          /\ rest \in Seq(Lines)
          /\ OfWords(mem)
          /\ start \in Word
          /\ reg \in [0 .. 31 -> Word]
          /\ PC \in Word

\* What decode gives for the word at PC.
Decoded(ins) ==
  LET w == memory_rd_w(mem, PC)
  IN /\ w \in Word
     /\ ins.word = w
     /\ ins.opcode = Field(w, 0, 7)
     /\ ins.rd = Field(w, 7, 5) /\ ins.rd \in 0 .. 31
     /\ ins.funct3 = Field(w, 12, 3) /\ ins.funct3 \in 0 .. 7
     /\ ins.funct7 = Field(w, 25, 7) /\ ins.funct7 \in Nat
     /\ ins.rs1 = reg[Field(w, 15, 5)] /\ ins.rs1 \in Word
     /\ ins.rs2 = reg[Field(w, 20, 5)] /\ ins.rs2 \in Word
     /\ ins.immediate = calculate_immediate(w) /\ ins.immediate \in Word

(* The instruction that is executed is decoded from the word at PC. *)
LEMMA FetchedIs ==
  ASSUME TypeOK, NEW ops, NEW ins \in Fetched(ops)
  PROVE  Decoded(ins) /\ Executing /\ ins.opcode \in ops /\ ins = decode(memory_rd_w(mem, PC))
<1> DEFINE w == memory_rd_w(mem, PC)
<1>1. w \in Word BY WordAt DEF TypeOK
<1>2. ins = decode(w) /\ Executing /\ ins.opcode \in ops BY DEF Fetched
<1>3. Field(w, 7, 5) \in 0 .. 31 /\ Field(w, 12, 3) \in 0 .. 7 /\ Field(w, 25, 7) \in Nat
      /\ Field(w, 15, 5) \in 0 .. 31 /\ Field(w, 20, 5) \in 0 .. 31
  BY <1>1, FieldOfWord
<1>4. calculate_immediate(w) \in Word BY <1>1, ImmediateWord
<1> HIDE DEF w
<1>5. /\ ins.word = w /\ ins.opcode = Field(w, 0, 7) /\ ins.rd = Field(w, 7, 5) /\ ins.funct3 = Field(w, 12, 3)
      /\ ins.funct7 = Field(w, 25, 7) /\ ins.rs1 = reg[Field(w, 15, 5)] /\ ins.rs2 = reg[Field(w, 20, 5)]
      /\ ins.immediate = calculate_immediate(w)
  BY <1>2 DEF decode
<1>6. reg[Field(w, 15, 5)] \in Word /\ reg[Field(w, 20, 5)] \in Word BY <1>3 DEF TypeOK
<1>7. Decoded(ins) BY <1>1, <1>3, <1>4, <1>5, <1>6 DEF Decoded, w
<1> QED BY <1>2, <1>7 DEF w

\* The registers and PC stay words.
RegistersKeep == reg' \in [0 .. 31 -> Word] /\ PC' \in Word

(* The next PC is a word. *)
LEMMA PlusWord == ASSUME NEW a \in Word, NEW n \in Nat PROVE Plus(a, n) \in Word
BY NaturalIs, AddWord DEF Plus

(* What a branch computes is a word, and so are the registers and PC after it. *)
LEMMA FinishKeeps ==
  ASSUME TypeOK, NEW rd \in 0 .. 31, NEW results, \A v \in results : v \in Word, Finish(rd, results)
  PROVE  RegistersKeep
<1>1. CASE results = {} BY <1>1 DEF Finish, NoBranch, RegistersKeep, TypeOK
<1>2. CASE results # {}
  <2>1. PICK v \in results : Set(rd, v) /\ increment_PC BY <1>2 DEF Finish
  <2>2. v \in Word BY <2>1
  <2>3. reg' \in [0 .. 31 -> Word] BY <2>1, <2>2 DEF Set, TypeOK
  <2>4. PC' = Plus(PC, 4) BY <2>1 DEF increment_PC
  <2>5. PC' \in Word BY <2>4, PlusWord DEF TypeOK
  <2> QED BY <2>3, <2>5 DEF RegistersKeep
<1> QED BY <1>1, <1>2

(* The other variables keep their types where nothing is read from the listing, *)
LEMMA InputKept ==
  ASSUME TypeOK, UNCHANGED input, rest' \in Seq(Lines), OfWords(mem'), start' \in Word, RegistersKeep
  PROVE  TypeOK'
<1>1. Lines' = Lines BY DEF Lines
<1>2. OfWords(mem)' = OfWords(mem') BY DEF OfWords
<1> QED BY <1>1, <1>2 DEF TypeOK, RegistersKeep

(* as while the program runs. *)
LEMMA RunningKeeps ==
  ASSUME TypeOK, KeepsRunning, OfWords(mem'), RegistersKeep PROVE TypeOK'
BY InputKept DEF KeepsRunning, TypeOK

(* The simulator starts with the type invariant, *)
LEMMA TypeOfStart == Init => TypeOK
<1> SUFFICES ASSUME Init PROVE TypeOK OBVIOUS
<1>1. input \in Inputs /\ rest = input.listing /\ mem = <<>> /\ start = Ones
      /\ reg = [r \in 0 .. 31 |-> Zero] /\ PC = Zero
  BY DEF Init, LoaderInit, NoWords, NoStart
<1>2. rest \in Seq(Lines) BY <1>1, InputsAssumption DEF Lines
<1>3. OfWords(mem)
  <2>1. DOMAIN mem = {} BY <1>1
  <2>2. mem = [p \in {} |-> Zero] BY <1>1
  <2> QED BY <2>1, <2>2 DEF OfWords
<1> QED BY <1>1, <1>2, <1>3, ZeroWord DEF TypeOK

(* Loading a line writes words, and the registers are not used yet. *)
LEMMA LineIs ==
  ASSUME TypeOK, NEW kind, NextLine(kind)
  PROVE  /\ Head(rest) \in Lines /\ Readable(Head(rest)) /\ Head(rest).kind = kind
         /\ rest' \in Seq(Lines)
<1>1. rest \in Seq(Lines) /\ rest # <<>> /\ rest' = Tail(rest) /\ Head(rest).kind = kind BY DEF TypeOK, NextLine
<1>2. Head(rest) \in Lines /\ Tail(rest) \in Seq(Lines)
  <2> HIDE DEF Lines
  <2> QED BY <1>1
<1>3. \A line \in Lines : Readable(line) BY InputsAssumption DEF TypeOK, Lines
<1> QED BY <1>1, <1>2, <1>3

(* the arguments and every line of the listing keep it, *)
LEMMA TypeOfLoading ==
  ASSUME TypeOK, LoaderNext, UNCHANGED <<reg, PC>>
  PROVE  TypeOK'
<1>0. RegistersKeep /\ OfWords(mem) /\ start \in Word /\ rest \in Seq(Lines) BY DEF RegistersKeep, TypeOK
<1>1. CASE PassArgs
  <2>1. input.argv \in Seq(Seq(Nat)) BY InputsAssumption, BytesAreNumbers DEF TypeOK
  <2>2. OfWords(WriteArgs(mem, ProgramArgs(input.argv))) BY <1>0, <2>1, ArgsAreStrings, ArgsKeep
  <2>3. OfWords(mem') BY <1>0, <1>1, <2>2 DEF PassArgs
  <2> QED BY <1>0, <1>1, <2>3, InputKept DEF PassArgs
<1>2. CASE OpenListing BY <1>0, <1>2, InputKept DEF OpenListing
<1>3. CASE ReadData
  <2>1. NextLine("data") /\ UNCHANGED <<phase, input, text, start>> BY <1>3 DEF ReadData
  <2>2. Readable(Head(rest)) /\ Head(rest).kind = "data" /\ rest' \in Seq(Lines) BY <2>1, LineIs
  <2>3. Head(rest).addr \in Word /\ Head(rest).bytes \in Seq(Nat) /\ Head(rest).junk \in Seq(Nat)
    BY <2>2, BytesAreNumbers DEF Readable
  <2>4. BytesRead(Head(rest)) \in Seq(Nat) BY <2>3 DEF BytesRead
  <2>5. mem \in Writings(mem) BY <1>0, WritingsAre
  <2>6. WriteBytes(mem, Head(rest).addr, BytesRead(Head(rest))) \in Writings(mem) BY <2>3, <2>4, <2>5, BytesKeep
  <2>7. mem' \in Writings(mem) BY <1>3, <2>6 DEF ReadData
  <2>8. OfWords(mem') BY <2>7, WritingsAre
  <2> QED BY <1>0, <2>1, <2>2, <2>8, InputKept
<1>4. CASE ReadInsn
  <2> DEFINE line == Head(rest)
  <2>1. NextLine("insn") /\ UNCHANGED <<input, start>> BY <1>4 DEF ReadInsn
  <2>2. Readable(line) /\ line.kind = "insn" /\ rest' \in Seq(Lines) BY <2>1, LineIs
  <2>3. line.addr \in Word /\ line.word \in Word BY <2>2 DEF Readable
  <2>4. mem' = memory_wr_w(mem, line.addr, line.word) \/ mem' = mem BY <1>4 DEF ReadInsn
  <2>5. OfWords(memory_wr_w(mem, line.addr, line.word)) BY <1>0, <2>3, WritesKeep
  <2>6. OfWords(mem')
    <3> HIDE DEF line
    <3> QED BY <1>0, <2>4, <2>5
  <2> QED BY <1>0, <2>1, <2>2, <2>6, InputKept
<1>5. CASE ReadEntry
  <2>1. NextLine("entry") /\ UNCHANGED <<phase, input, mem, text>> BY <1>5 DEF ReadEntry
  <2>2. Readable(Head(rest)) /\ Head(rest).kind = "entry" /\ rest' \in Seq(Lines) BY <2>1, LineIs
  <2>3. Head(rest).addr \in Word BY <2>2 DEF Readable
  <2>4. start' \in Word BY <1>0, <1>5, <2>3 DEF ReadEntry
  <2> QED BY <1>0, <2>1, <2>2, <2>4, InputKept
<1>6. CASE ReadOther
  <2>1. NextLine("other") /\ UNCHANGED <<phase, input, mem, text, start>> BY <1>6 DEF ReadOther
  <2>2. rest' \in Seq(Lines) BY <2>1, LineIs
  <2> QED BY <1>0, <2>1, <2>2, InputKept
<1> QED BY <1>1, <1>2, <1>3, <1>4, <1>5, <1>6 DEF LoaderNext

(* The address of a load or store is a word. *)
LEMMA AddressWord ==
  ASSUME TypeOK, NEW ops, NEW ins \in Fetched(ops) PROVE Address(ins) \in Word
<1>1. ins.rs1 \in Word /\ ins.immediate \in Word /\ PC \in Word BY FetchedIs DEF Decoded, TypeOK
<1> QED BY <1>1, AddWord DEF Address

\* Both instructions are the one at PC.
LEMMA OneFetched ==
  ASSUME NEW ops, NEW ins \in Fetched(ops), NEW addr \in {Address(i) : i \in Fetched(ops)}
  PROVE  addr = Address(ins)
BY DEF Fetched

(* The end of the simulation keeps the types, *)
LEMMA DeadKeeps == ASSUME TypeOK, NEW how, Dies(how) PROVE TypeOK'
<1>1. UNCHANGED <<input, rest, mem, start, reg, PC>> BY DEF Dies
<1>2. RegistersKeep /\ OfWords(mem') /\ rest' \in Seq(Lines) /\ start' \in Word BY <1>1 DEF RegistersKeep, TypeOK
<1> QED BY <1>1, <1>2, InputKept

(* and every instruction does. *)
LEMMA TypeOfInstructions ==
  ASSUME TypeOK, Next, ~ (LoaderNext /\ UNCHANGED <<reg, PC>>)
  PROVE  TypeOK'
<1>0. OfWords(mem) /\ PC \in Word /\ reg \in [0 .. 31 -> Word] /\ start \in Word BY DEF TypeOK
<1>1. CASE Begin
  <2>1. UNCHANGED <<input, rest, mem, start, reg>> /\ PC' = start BY <1>1 DEF Begin, FinishLoading
  <2>2. RegistersKeep /\ OfWords(mem') /\ rest' \in Seq(Lines) /\ start' \in Word BY <2>1 DEF RegistersKeep, TypeOK
  <2> QED BY <2>1, <2>2, InputKept
<1>2. CASE Register
  <2>1. PICK ins \in Fetched({opcode_R}) :
          /\ ~ Trap(ins) /\ Finish(ins.rd, result_R(ins.funct3, ins.funct7, ins.rs1, ins.rs2))
          /\ UNCHANGED mem /\ KeepsRunning
    BY <1>2 DEF Register
  <2>2. Decoded(ins) /\ ins.opcode = opcode_R BY FetchedIs
  <2>3. ins.rd \in 0 .. 31 /\ ins.rs1 \in Word /\ ins.rs2 \in Word BY <2>2 DEF Decoded
  <2>4. ~ (ins.funct3 = 7 /\ ins.funct7 = 1 /\ ins.rs2 = Zero) BY <2>1, <2>2 DEF Trap
  <2>5. \A v \in result_R(ins.funct3, ins.funct7, ins.rs1, ins.rs2) : v \in Word BY <2>3, <2>4, ResultsOfRegisters
  <2>6. RegistersKeep BY <2>1, <2>3, <2>5, FinishKeeps
  <2>7. OfWords(mem') BY <1>0, <2>1
  <2> QED BY <2>1, <2>6, <2>7, RunningKeeps
<1>3. CASE RegisterTrap
  <2>1. Dies("killed") BY <1>3 DEF RegisterTrap
  <2> QED BY <2>1, DeadKeeps
<1>4. CASE Immediate
  <2>1. PICK ins \in Fetched({opcode_I_1}) :
          /\ Finish(ins.rd, result_I(ins.funct3, ins.rs1, ins.immediate))
          /\ UNCHANGED mem /\ KeepsRunning
    BY <1>4 DEF Immediate
  <2>2. ins.rd \in 0 .. 31 /\ ins.rs1 \in Word /\ ins.immediate \in Word BY FetchedIs DEF Decoded
  <2>3. \A v \in result_I(ins.funct3, ins.rs1, ins.immediate) : v \in Word BY <2>2, ResultsOfConstants
  <2>4. RegistersKeep BY <2>1, <2>2, <2>3, FinishKeeps
  <2>5. OfWords(mem') BY <1>0, <2>1
  <2> QED BY <2>1, <2>4, <2>5, RunningKeeps
<1>5. CASE Load
  <2>1. PICK ins \in Fetched({opcode_I_2}), addr \in {Address(i) : i \in Fetched({opcode_I_2})} :
          IF ins.funct3 \in {1, 2, 5} /\ Unaligned(ins.funct3 % 4, addr) THEN Dies("failed")
          ELSE Finish(ins.rd, loaded(ins.funct3, addr)) /\ UNCHANGED mem /\ KeepsRunning
    BY <1>5 DEF Load
  <2>2. ins.rd \in 0 .. 31 BY FetchedIs DEF Decoded
  <2>3. addr \in Word BY AddressWord
  <2>4. CASE Dies("failed") BY <2>4, DeadKeeps
  <2>5. CASE Finish(ins.rd, loaded(ins.funct3, addr)) /\ UNCHANGED mem /\ KeepsRunning
    <3>1. memory_rd_b(mem, addr) \in Word /\ memory_rd_h(mem, addr) \in Word /\ memory_rd_w(mem, addr) \in Word
      BY <1>0, <2>3, ZeroWord, WritesKeep, WordAt
    <3>2. \A v \in loaded(ins.funct3, addr) : v \in Word BY <3>1 DEF loaded
    <3>3. RegistersKeep BY <2>2, <2>5, <3>2, FinishKeeps
    <3>4. OfWords(mem') BY <1>0, <2>5
    <3> QED BY <2>5, <3>3, <3>4, RunningKeeps
  <2> QED BY <2>1, <2>4, <2>5
<1>6. CASE Store
  <2>1. PICK ins \in Fetched({opcode_S}), addr \in {Address(i) : i \in Fetched({opcode_S})} :
          IF ins.funct3 > 2 THEN NoBranch /\ UNCHANGED mem /\ KeepsRunning
          ELSE IF Unaligned(ins.funct3, addr) THEN Dies("failed")
          ELSE /\ mem' = stored(ins.funct3, addr, ins.rs2)
               /\ increment_PC /\ UNCHANGED reg /\ KeepsRunning
    BY <1>6 DEF Store
  <2>2. ins.rs2 \in Word /\ ins.funct3 \in 0 .. 7 BY FetchedIs DEF Decoded
  <2>3. addr \in Word BY AddressWord
  <2>4. CASE NoBranch /\ UNCHANGED mem /\ KeepsRunning
    <3>1. RegistersKeep /\ OfWords(mem') BY <1>0, <2>4 DEF NoBranch, RegistersKeep
    <3> QED BY <2>4, <3>1, RunningKeeps
  <2>5. CASE Dies("failed") BY <2>5, DeadKeeps
  <2>6. CASE /\ mem' = stored(ins.funct3, addr, ins.rs2) /\ ins.funct3 \in 0 .. 2
             /\ increment_PC /\ UNCHANGED reg /\ KeepsRunning
    <3>1. PC' \in Word BY <1>0, <2>6, PlusWord DEF increment_PC
    <3>2. RegistersKeep BY <1>0, <2>6, <3>1 DEF RegistersKeep
    <3>3. OfWords(memory_wr_w(mem, addr, ins.rs2)) /\ OfWords(memory_wr_h(mem, addr, ins.rs2))
          /\ OfWords(memory_wr_b(mem, addr, ins.rs2))
      BY <1>0, <2>2, <2>3, WritesKeep
    <3>4. mem' \in {memory_wr_w(mem, addr, ins.rs2), memory_wr_h(mem, addr, ins.rs2), memory_wr_b(mem, addr, ins.rs2)}
      BY <2>6 DEF stored
    <3>5. OfWords(mem') BY <3>3, <3>4
    <3> QED BY <2>6, <3>2, <3>5, RunningKeeps
  <2>7. ~ (ins.funct3 > 2) => ins.funct3 \in 0 .. 2 BY <2>2
  <2> QED BY <2>1, <2>4, <2>5, <2>6, <2>7
<1>7. CASE Branch
  <2>1. PICK ins \in Fetched({opcode_B}) :
          /\ IF ins.funct3 \in {2, 3} THEN UNCHANGED PC
             ELSE PC' = IF Taken(ins.funct3, ins.rs1, ins.rs2) THEN Add(PC, ins.immediate) ELSE Plus(PC, 4)
          /\ UNCHANGED <<mem, reg>> /\ KeepsRunning
    BY <1>7 DEF Branch
  <2>2. ins.immediate \in Word BY FetchedIs DEF Decoded
  <2>3. Add(PC, ins.immediate) \in Word /\ Plus(PC, 4) \in Word BY <1>0, <2>2, AddWord, PlusWord
  <2>4. PC' \in {PC, Add(PC, ins.immediate), Plus(PC, 4)} BY <2>1
  <2>5. RegistersKeep /\ OfWords(mem') BY <1>0, <2>1, <2>3, <2>4 DEF RegistersKeep
  <2> QED BY <2>1, <2>5, RunningKeeps
<1>8. CASE Jal
  <2>1. PICK ins \in Fetched({opcode_J}) :
          Set(ins.rd, Plus(PC, 4)) /\ PC' = Add(PC, ins.immediate) /\ UNCHANGED mem /\ KeepsRunning
    BY <1>8 DEF Jal
  <2>2. ins.rd \in 0 .. 31 /\ ins.immediate \in Word BY FetchedIs DEF Decoded
  <2>3. Add(PC, ins.immediate) \in Word /\ Plus(PC, 4) \in Word BY <1>0, <2>2, AddWord, PlusWord
  <2>4. RegistersKeep /\ OfWords(mem') BY <1>0, <2>1, <2>2, <2>3 DEF RegistersKeep, Set
  <2> QED BY <2>1, <2>4, RunningKeeps
<1>9. CASE Jalr
  <2>1. PICK ins \in Fetched({opcode_I_3}) :
          /\ IF ins.funct3 = 0 THEN Set(ins.rd, Plus(PC, 4)) /\ PC' = Add(ins.rs1, ins.immediate)
             ELSE NoBranch
          /\ UNCHANGED mem /\ KeepsRunning
    BY <1>9 DEF Jalr
  <2>2. ins.rd \in 0 .. 31 /\ ins.immediate \in Word /\ ins.rs1 \in Word BY FetchedIs DEF Decoded
  <2>3. Add(ins.rs1, ins.immediate) \in Word /\ Plus(PC, 4) \in Word BY <1>0, <2>2, AddWord, PlusWord
  <2>4. RegistersKeep /\ OfWords(mem') BY <1>0, <2>1, <2>2, <2>3 DEF RegistersKeep, Set, NoBranch
  <2> QED BY <2>1, <2>4, RunningKeeps
<1>10. CASE Lui
  <2>1. PICK ins \in Fetched({opcode_U_1}) :
          Finish(ins.rd, {ShiftLeft(ins.immediate, 12)}) /\ UNCHANGED mem /\ KeepsRunning
    BY <1>10 DEF Lui
  <2>2. ins.rd \in 0 .. 31 /\ ins.immediate \in Word BY FetchedIs DEF Decoded
  <2>3. ShiftLeft(ins.immediate, 12) \in Word BY <2>2, BitwiseWord
  <2>4. RegistersKeep
    <3>1. \A v \in {ShiftLeft(ins.immediate, 12)} : v \in Word BY <2>3
    <3> QED BY <2>1, <2>2, <3>1, FinishKeeps
  <2>5. OfWords(mem') BY <1>0, <2>1
  <2> QED BY <2>1, <2>4, <2>5, RunningKeeps
<1>11. CASE Auipc
  <2>1. PICK ins \in Fetched({opcode_U_2}) :
          /\ Finish(ins.rd, IF ins.funct3 = 0 THEN {Add(PC, ShiftLeft(ins.immediate, 12))} ELSE {})
          /\ UNCHANGED mem /\ KeepsRunning
    BY <1>11 DEF Auipc
  <2>2. ins.rd \in 0 .. 31 /\ ins.immediate \in Word BY FetchedIs DEF Decoded
  <2>3. ShiftLeft(ins.immediate, 12) \in Word BY <2>2, BitwiseWord
  <2>4. Add(PC, ShiftLeft(ins.immediate, 12)) \in Word BY <1>0, <2>3, AddWord
  <2> DEFINE results == IF ins.funct3 = 0 THEN {Add(PC, ShiftLeft(ins.immediate, 12))} ELSE {}
  <2>5. \A v \in results : v \in Word BY <2>4
  <2>6. Finish(ins.rd, results) BY <2>1
  <2> HIDE DEF results
  <2>7. RegistersKeep BY <2>2, <2>5, <2>6, FinishKeeps
  <2>8. OfWords(mem') BY <1>0, <2>1
  <2> QED BY <2>1, <2>7, <2>8, RunningKeeps
<1>12. CASE Ecall
  <2>1. PICK ins \in Fetched({opcode_I_4}) :
          IF ins.funct3 = 0 /\ ins.immediate = Zero THEN Dies("exited") ELSE NoBranch /\ UNCHANGED mem /\ KeepsRunning
    BY <1>12 DEF Ecall
  <2>2. CASE Dies("exited") BY <2>2, DeadKeeps
  <2>3. CASE NoBranch /\ UNCHANGED mem /\ KeepsRunning
    <3>1. RegistersKeep /\ OfWords(mem') BY <1>0, <2>3 DEF NoBranch, RegistersKeep
    <3> QED BY <2>3, <3>1, RunningKeeps
  <2> QED BY <2>1, <2>2, <2>3
<1>13. CASE Unknown
  <2>1. UNCHANGED <<input, rest, mem, start, reg, PC>> BY <1>13 DEF Unknown, vars, loaderVars
  <2>2. RegistersKeep /\ OfWords(mem') /\ rest' \in Seq(Lines) /\ start' \in Word BY <2>1 DEF RegistersKeep, TypeOK
  <2> QED BY <2>1, <2>2, InputKept
<1>14. CASE FetchUnaligned
  <2>1. Dies("failed") BY <1>14 DEF FetchUnaligned
  <2> QED BY <2>1, DeadKeeps
<1> QED BY <1>1, <1>2, <1>3, <1>4, <1>5, <1>6, <1>7, <1>8, <1>9, <1>10, <1>11, <1>12, <1>13, <1>14 DEF Next

(* Registers, PC, memory and the start address hold words, whatever program runs. *)
THEOREM SimulatorTypeCorrect == Spec => []TypeOK
<1>1. Init => TypeOK BY TypeOfStart
<1>2. TypeOK /\ [Next]_vars => TypeOK'
  <2> SUFFICES ASSUME TypeOK, [Next]_vars PROVE TypeOK' OBVIOUS
  <2>1. CASE LoaderNext /\ UNCHANGED <<reg, PC>> BY <2>1, TypeOfLoading
  <2>2. CASE Next /\ ~ (LoaderNext /\ UNCHANGED <<reg, PC>>) BY <2>2, TypeOfInstructions
  <2>3. CASE UNCHANGED vars
    <3>1. UNCHANGED <<input, rest, mem, start, reg, PC>> BY <2>3 DEF vars, loaderVars
    <3>2. RegistersKeep /\ OfWords(mem') /\ rest' \in Seq(Lines) /\ start' \in Word BY <3>1 DEF RegistersKeep, TypeOK
    <3> QED BY <3>1, <3>2, InputKept
  <2> QED BY <2>1, <2>2, <2>3
<1> QED BY <1>1, <1>2, PTL DEF Spec

-----------------------------------------------------------------------------
(* Memory after the listing has been read. *)

(* The halves of a number below 2^31 come to zero. *)
LEMMA HalvesEnd ==
  ASSUME NEW n \in Nat, n <= MaxNatural, NEW half \in [0 .. 31 -> Nat],
         half[0] = n, \A i \in 1 .. 31 : half[i] = half[i - 1] \div 2
  PROVE  half[31] = 0
<1>0. half[0] <= 2147483647 BY DEF MaxNatural
<1>1. \A i \in 0 .. 30 : /\ half[i] \in Nat /\ half[i + 1] \in Nat
                         /\ 2 * half[i + 1] <= half[i]
  <2> SUFFICES ASSUME NEW i \in 0 .. 30 PROVE half[i] \in Nat /\ half[i + 1] \in Nat /\ 2 * half[i + 1] <= half[i]
    OBVIOUS
  <2>1. i + 1 \in 1 .. 31 /\ i + 1 - 1 = i /\ i \in 0 .. 31 /\ i + 1 \in 0 .. 31 OBVIOUS
  <2>2. half[i + 1] = half[i] \div 2 BY <2>1
  <2> QED BY <2>1, <2>2
<1>2. half[8] <= 8388607
  <2>1. /\ 2 * half[1] <= half[0] /\ 2 * half[2] <= half[1] /\ 2 * half[3] <= half[2] /\ 2 * half[4] <= half[3]
        /\ 2 * half[5] <= half[4] /\ 2 * half[6] <= half[5] /\ 2 * half[7] <= half[6] /\ 2 * half[8] <= half[7]
        /\ \A i \in 0 .. 8 : half[i] \in Nat
    <3>1. \A i \in 0 .. 7 : 2 * half[i + 1] <= half[i] BY <1>1
    <3> QED BY <3>1
  <2> QED BY <1>0, <2>1
<1>3. half[16] <= 32767
  <2>1. /\ 2 * half[9] <= half[8] /\ 2 * half[10] <= half[9] /\ 2 * half[11] <= half[10] /\ 2 * half[12] <= half[11]
        /\ 2 * half[13] <= half[12] /\ 2 * half[14] <= half[13] /\ 2 * half[15] <= half[14] /\ 2 * half[16] <= half[15]
        /\ \A i \in 8 .. 16 : half[i] \in Nat
    <3>1. \A i \in 8 .. 15 : 2 * half[i + 1] <= half[i] BY <1>1
    <3> QED BY <3>1
  <2> QED BY <1>2, <2>1
<1>4. half[24] <= 127
  <2>1. /\ 2 * half[17] <= half[16] /\ 2 * half[18] <= half[17] /\ 2 * half[19] <= half[18] /\ 2 * half[20] <= half[19]
        /\ 2 * half[21] <= half[20] /\ 2 * half[22] <= half[21] /\ 2 * half[23] <= half[22] /\ 2 * half[24] <= half[23]
        /\ \A i \in 16 .. 24 : half[i] \in Nat
    <3>1. \A i \in 16 .. 23 : 2 * half[i + 1] <= half[i] BY <1>1
    <3> QED BY <3>1
  <2> QED BY <1>3, <2>1
<1> QED
  <2>1. /\ 2 * half[25] <= half[24] /\ 2 * half[26] <= half[25] /\ 2 * half[27] <= half[26] /\ 2 * half[28] <= half[27]
        /\ 2 * half[29] <= half[28] /\ 2 * half[30] <= half[29] /\ 2 * half[31] <= half[30]
        /\ \A i \in 24 .. 31 : half[i] \in Nat
    <3>1. \A i \in 24 .. 30 : 2 * half[i + 1] <= half[i] BY <1>1
    <3> QED BY <3>1
  <2> QED BY <1>4, <2>1

(* Different numbers are different words. *)
LEMMA NaturalTells ==
  ASSUME NEW x \in Nat, NEW y \in Nat, x <= MaxNatural, y <= MaxNatural, Natural(x) = Natural(y)
  PROVE  x = y
<1>1. PICK u \in [0 .. 31 -> Nat] : /\ u[0] = x /\ \A i \in 1 .. 31 : u[i] = u[i - 1] \div 2
                                    /\ Natural(x) = [i \in Bits |-> IF i = 31 THEN 0 ELSE u[i] % 2]
  BY NaturalIs
<1>2. PICK v \in [0 .. 31 -> Nat] : /\ v[0] = y /\ \A i \in 1 .. 31 : v[i] = v[i - 1] \div 2
                                    /\ Natural(y) = [i \in Bits |-> IF i = 31 THEN 0 ELSE v[i] % 2]
  BY NaturalIs
<1>3. u[31] = 0 /\ v[31] = 0 BY <1>1, <1>2, HalvesEnd
<1>4. \A i \in 0 .. 30 : u[i] % 2 = v[i] % 2
  <2> SUFFICES ASSUME NEW i \in 0 .. 30 PROVE u[i] % 2 = v[i] % 2 OBVIOUS
  <2>1. i \in Bits /\ i # 31 BY DEF Bits
  <2>2. Natural(x)[i] = u[i] % 2 BY <1>1, <2>1
  <2>3. Natural(y)[i] = v[i] % 2 BY <1>2, <2>1
  <2> QED BY <2>2, <2>3
<1> DEFINE S == {k \in 0 .. 31 : u[31 - k] = v[31 - k]}
<1>5. 0 \in S BY <1>3
<1>6. ASSUME NEW k \in 0 .. 31, k \in S, k < 31 PROVE k + 1 \in S
  <2> DEFINE i == 31 - (k + 1)
  <2>1. i \in 0 .. 30 /\ i + 1 \in 1 .. 31 /\ i + 1 - 1 = i /\ i + 1 = 31 - k /\ k + 1 \in 0 .. 31 BY <1>6
  <2> HIDE DEF i
  <2>2. u[i + 1] = u[i] \div 2 /\ v[i + 1] = v[i] \div 2 BY <1>1, <1>2, <2>1
  <2>3. u[i] % 2 = v[i] % 2 /\ u[i + 1] = v[i + 1] BY <1>4, <1>6, <2>1
  <2>4. u[i] \in Nat /\ v[i] \in Nat BY <1>1, <1>2, <2>1
  <2>5. u[i] = v[i] BY <2>2, <2>3, <2>4
  <2> QED BY <2>1, <2>5 DEF i
<1>7. 31 \in S
  <2>1. 0 .. 31 \subseteq S
    <3> HIDE DEF S
    <3> QED BY <1>5, <1>6, UpTo
  <2> QED BY <2>1
<1> QED BY <1>1, <1>2, <1>7

(* The word of a sum is the sum of the words. *)
LEMMA NaturalPlus ==
  ASSUME NEW x \in Nat, NEW y \in Nat, x + y <= MaxNatural
  PROVE  Plus(Natural(x), y) = Natural(x + y)
<1> DEFINE z == x + y
<1>0. z \in Nat /\ z <= MaxNatural /\ x <= MaxNatural /\ y <= MaxNatural BY DEF MaxNatural
<1>1. z = x + y BY Zenon
<1> HIDE DEF z
<1> DEFINE p == Natural(x)
           q == Natural(y)
           r == Natural(z)
<1>2. ASSUME NEW n \in Nat, n <= MaxNatural
      PROVE  \E h \in [0 .. 31 -> Nat] : /\ h[0] = n /\ \A i \in 1 .. 31 : h[i] = h[i - 1] \div 2
                                         /\ \A i \in 0 .. 31 : Natural(n)[i] = h[i] % 2
  <2>1. PICK h \in [0 .. 31 -> Nat] : /\ h[0] = n /\ \A i \in 1 .. 31 : h[i] = h[i - 1] \div 2
                                      /\ Natural(n) = [i \in Bits |-> IF i = 31 THEN 0 ELSE h[i] % 2]
    BY NaturalIs
  <2>2. h[31] = 0 BY <1>2, <2>1, HalvesEnd
  <2>3. \A i \in 0 .. 31 : Natural(n)[i] = h[i] % 2 BY <2>1, <2>2 DEF Bits
  <2> QED BY <2>1, <2>3, Zenon
<1>3. PICK u \in [0 .. 31 -> Nat] : /\ u[0] = x /\ \A i \in 1 .. 31 : u[i] = u[i - 1] \div 2
                                    /\ \A i \in 0 .. 31 : p[i] = u[i] % 2
  BY <1>0, <1>2
<1>4. PICK v \in [0 .. 31 -> Nat] : /\ v[0] = y /\ \A i \in 1 .. 31 : v[i] = v[i - 1] \div 2
                                    /\ \A i \in 0 .. 31 : q[i] = v[i] % 2
  BY <1>0, <1>2
<1>5. PICK t \in [0 .. 31 -> Nat] : /\ t[0] = z /\ \A i \in 1 .. 31 : t[i] = t[i - 1] \div 2
                                    /\ \A i \in 0 .. 31 : r[i] = t[i] % 2
  BY <1>0, <1>2
<1>6. p \in Word /\ q \in Word /\ r \in Word BY <1>0, NaturalIs
<1>7. Plus(p, y) = Add(p, q) BY DEF Plus
<1> HIDE DEF p, q, r
<1>8. 0 \in Bit BY DEF Bit
<1>9. PICK c : Carries(c, p, q, 0) /\ SumWithCarry(p, q, 0) = [i \in Bits |-> (p[i] + q[i] + c[i]) % 2]
  BY <1>6, <1>8, SumIs
<1>10. c \in [0 .. 31 -> {0, 1}] /\ c[0] = 0 /\ \A i \in 1 .. 31 : c[i] = (p[i - 1] + q[i - 1] + c[i - 1]) \div 2
  BY <1>9 DEF Carries, Bits, Bit
<1>11. \A i \in 0 .. 31 : Add(p, q)[i] = (p[i] + q[i] + c[i]) % 2 BY <1>9 DEF Add, Bits
<1> DEFINE S == {k \in 0 .. 31 : t[k] = u[k] + v[k] + c[k]}
<1>12. 0 \in S
  <2>1. t[0] = z /\ u[0] = x /\ v[0] = y /\ c[0] = 0 BY <1>3, <1>4, <1>5, <1>10
  <2>2. t[0] = u[0] + v[0] + c[0] BY <1>1, <2>1
  <2>3. 0 \in 0 .. 31 OBVIOUS
  <2> QED BY <2>2, <2>3, Zenon
<1>13. ASSUME NEW k \in 0 .. 31, k \in S, k < 31 PROVE k + 1 \in S
  <2>1. k + 1 \in 1 .. 31 /\ k + 1 - 1 = k /\ k + 1 \in 0 .. 31 /\ t[k] = u[k] + v[k] + c[k] BY <1>13
  <2>2. u[k + 1] = u[k] \div 2 /\ v[k + 1] = v[k] \div 2 /\ t[k + 1] = t[k] \div 2
    <3>1. u[k + 1] = u[k] \div 2 BY <1>3, <2>1
    <3>2. v[k + 1] = v[k] \div 2 BY <1>4, <2>1
    <3>3. t[k + 1] = t[k] \div 2 BY <1>5, <2>1
    <3> QED BY <3>1, <3>2, <3>3
  <2>3. c[k + 1] = (p[k] + q[k] + c[k]) \div 2 BY <1>10, <2>1
  <2>4. p[k] = u[k] % 2 /\ q[k] = v[k] % 2 BY <1>3, <1>4
  <2>5. u[k] \in Nat /\ v[k] \in Nat /\ c[k] \in {0, 1} BY <1>3, <1>4, <1>10
  <2>6. t[k] \div 2 = (u[k] \div 2) + (v[k] \div 2) + (((u[k] % 2) + (v[k] % 2) + c[k]) \div 2)
    <3> DEFINE a == u[k]
               b == v[k]
               d == c[k]
               n == t[k]
    <3>1. a \in Nat /\ b \in Nat /\ d \in {0, 1} /\ n = a + b + d BY <2>1, <2>5
    <3> HIDE DEF a, b, d, n
    <3>2. n \div 2 = (a \div 2) + (b \div 2) + (((a % 2) + (b % 2) + d) \div 2) BY <3>1
    <3> QED BY <3>2 DEF a, b, d, n
  <2>7. t[k + 1] = u[k + 1] + v[k + 1] + c[k + 1] BY <2>2, <2>3, <2>4, <2>6
  <2> QED BY <2>1, <2>7
<1>14. 0 .. 31 \subseteq S
  <2> HIDE DEF S
  <2> QED BY <1>12, <1>13, UpTo
<1>15. ASSUME NEW i \in 0 .. 31 PROVE Add(p, q)[i] = r[i]
  <2>1. t[i] = u[i] + v[i] + c[i] /\ r[i] = t[i] % 2 BY <1>5, <1>14
  <2>2. p[i] = u[i] % 2 /\ q[i] = v[i] % 2 BY <1>3, <1>4
  <2>3. u[i] \in Nat /\ v[i] \in Nat /\ c[i] \in {0, 1} BY <1>3, <1>4, <1>10
  <2>4. t[i] % 2 = ((u[i] % 2) + (v[i] % 2) + c[i]) % 2
    <3>1. t[i] = u[i] + v[i] + c[i] BY <2>1
    <3> QED BY <2>3, <3>1
  <2> QED BY <1>11, <2>1, <2>2, <2>4
<1>16. Add(p, q) \in Word BY <1>6, AddWord
<1>17. Add(p, q) = r BY <1>6, <1>15, <1>16, SameBits
<1> QED BY <1>1, <1>7, <1>17 DEF p, q, r

(* Different numbers that are added to an address give different addresses. *)
LEMMA PlusTells ==
  ASSUME NEW a \in Word, NEW j \in Nat, NEW k \in Nat, j <= MaxNatural, k <= MaxNatural, Plus(a, j) = Plus(a, k)
  PROVE  j = k
<1>1. Natural(j) \in Word /\ Natural(k) \in Word BY NaturalIs
<1>2. Natural(j) = Natural(k) BY <1>1, AddTells DEF Plus
<1> QED BY <1>2, NaturalTells

(* A byte that is written, *)
LEMMA ByteWritten ==
  ASSUME NEW m, OfWords(m), NEW a \in Word, NEW d \in Word
  PROVE  /\ memory_rd_b(memory_wr_b(m, a, d), a) = Extract(d, 0, 8)
         /\ \A b \in Word : b # a => memory_rd_b(memory_wr_b(m, a, d), b) = memory_rd_b(m, b)
<1>1. Aligned(1, a) /\ 8 * 1 = 8 /\ 8 * 0 = 0 BY DEF Aligned
<1>2. memory_wr_b(m, a, d) = memory_wr_w(m, a, Insert(word_at(m, a), d, ByteAt(a), 8 * 1))
  BY <1>1, WritesKeep, ZenonT(30)
<1>3. Add(a, Natural(0)) = a BY ZeroNatural, AddZero
<1>4. 0 \in 0 .. 1 - 1 /\ \A k \in 0 .. 1 - 1 : k = 0 OBVIOUS
<1>5. memory_rd_b(memory_wr_b(m, a, d), Add(a, Natural(0))) = Extract(d, 8 * 0, 8) BY <1>1, <1>2, <1>4, BytesChanged
<1>6. \A b \in Word : (\A k \in 0 .. 1 - 1 : b # Add(a, Natural(k)))
                      => memory_rd_b(memory_wr_b(m, a, d), b) = memory_rd_b(m, b)
  BY <1>1, <1>2, BytesChanged
<1> QED BY <1>1, <1>3, <1>4, <1>5, <1>6

(* and a word. *)
LEMMA WordWritten ==
  ASSUME NEW m, OfWords(m), NEW a \in Word, WordAligned(a), NEW d \in Word
  PROVE  /\ \A k \in 0 .. 3 : memory_rd_b(memory_wr_w(m, a, d), Plus(a, k)) = Extract(d, 8 * k, 8)
         /\ \A b \in Word : (\A k \in 0 .. 3 : b # Plus(a, k)) => memory_rd_b(memory_wr_w(m, a, d), b) = memory_rd_b(m, b)
<1>1. Aligned(4, a) /\ 8 * 4 = 32 /\ 4 - 1 = 3 BY DEF Aligned
<1>2. ByteAt(a) = 0 BY BeginsAt
<1>3. word_at(m, a) \in Word BY WordAt
<1>4. Insert(word_at(m, a), d, 0, 32) = d
  <2>1. Insert(word_at(m, a), d, 0, 32) \in Word
        /\ \A i \in 0 .. 31 : Insert(word_at(m, a), d, 0, 32)[i]
                              = IF i \in 0 .. 0 + 32 - 1 THEN d[i - 0] ELSE word_at(m, a)[i]
    BY <1>3, InsertIs
  <2>2. \A i \in 0 .. 31 : i \in 0 .. 0 + 32 - 1 /\ i - 0 = i OBVIOUS
  <2>3. \A i \in 0 .. 31 : Insert(word_at(m, a), d, 0, 32)[i] = d[i] BY <2>1, <2>2
  <2> QED BY <2>1, <2>3, SameBits
<1>5. memory_wr_w(m, a, d) = memory_wr_w(m, a, Insert(word_at(m, a), d, ByteAt(a), 8 * 4)) BY <1>1, <1>2, <1>4
<1>6. /\ \A k \in 0 .. 4 - 1 : memory_rd_b(memory_wr_w(m, a, d), Add(a, Natural(k))) = Extract(d, 8 * k, 8)
      /\ \A b \in Word : (\A k \in 0 .. 4 - 1 : b # Add(a, Natural(k)))
                         => memory_rd_b(memory_wr_w(m, a, d), b) = memory_rd_b(m, b)
  BY <1>1, <1>5, BytesChanged
<1> QED BY <1>1, <1>6 DEF Plus

(* A word that is read is made of its bytes. *)
LEMMA WordOfBytes ==
  ASSUME NEW m, OfWords(m), NEW a \in Word, WordAligned(a), NEW w \in Word,
         \A k \in 0 .. 3 : memory_rd_b(m, Plus(a, k)) = Extract(w, 8 * k, 8)
  PROVE  memory_rd_w(m, a) = w
<1> DEFINE v == word_at(m, a)
<1>1. v \in Word /\ memory_rd_w(m, a) = v BY WordAt
<1>2. Aligned(4, a) /\ 4 - 1 = 3 /\ ByteAt(a) = 0 BY BeginsAt DEF Aligned
<1>3. ASSUME NEW i \in 0 .. 31 PROVE v[i] = w[i]
  <2> DEFINE k == i \div 8
             j == i % 8
  <2>1. k \in 0 .. 3 /\ j \in 0 .. 7 /\ j \in 0 .. 31 /\ i = 8 * k + j OBVIOUS
  <2> HIDE DEF k, j
  <2> DEFINE at == Plus(a, k)
  <2>2. at \in Word /\ place(at) = place(a) /\ ByteAt(at) = 8 * k
    <3>1. k \in 0 .. 4 - 1 BY <2>1
    <3>2. Add(a, Natural(k)) \in Word /\ place(Add(a, Natural(k))) = place(a)
          /\ ByteAt(Add(a, Natural(k))) = ByteAt(a) + 8 * k
      BY <1>2, <3>1, BytesTogether
    <3>3. ByteAt(a) + 8 * k = 8 * k BY <1>2, <2>1
    <3> QED BY <3>2, <3>3 DEF Plus
  <2>3. memory_rd_b(m, at) = Extract(w, 8 * k, 8) BY <2>1
  <2> HIDE DEF at
  <2>4. word_at(m, at) = v BY <2>2 DEF word_at, get_page
  <2> HIDE DEF v
  <2>5. Extract(v, 8 * k, 8) = Extract(w, 8 * k, 8) BY <2>2, <2>3, <2>4 DEF memory_rd_b
  <2>6. Extract(v, 8 * k, 8)[j] = v[8 * k + j] /\ Extract(w, 8 * k, 8)[j] = w[8 * k + j] BY <2>1 DEF Extract, Bits
  <2> QED BY <2>1, <2>5, <2>6
<1> HIDE DEF v
<1>4. v = w BY <1>1, <1>3, SameBits
<1> QED BY <1>1, <1>4

(* The lowest byte of a number below 256 is the number. *)
LEMMA ByteNatural == ASSUME NEW n \in Byte PROVE Natural(n) \in Word /\ Extract(Natural(n), 0, 8) = Natural(n)
<1>0. n \in Nat /\ n <= 255 BY DEF Byte
<1>1. PICK half \in [0 .. 31 -> Nat] :
        /\ half[0] = n /\ \A i \in 1 .. 31 : half[i] = half[i - 1] \div 2
        /\ Natural(n) = [i \in Bits |-> IF i = 31 THEN 0 ELSE half[i] % 2]
  BY <1>0, NaturalIs
<1>2. half[8] = 0
  <2>1. \A i \in 0 .. 7 : half[i] \in Nat /\ half[i + 1] \in Nat /\ 2 * half[i + 1] <= half[i]
    <3> SUFFICES ASSUME NEW i \in 0 .. 7 PROVE half[i] \in Nat /\ half[i + 1] \in Nat /\ 2 * half[i + 1] <= half[i]
      OBVIOUS
    <3>1. i + 1 \in 1 .. 31 /\ i + 1 - 1 = i /\ i \in 0 .. 31 /\ i + 1 \in 0 .. 31 OBVIOUS
    <3>2. half[i + 1] = half[i] \div 2 BY <1>1, <3>1
    <3> QED BY <3>1, <3>2
  <2>2. /\ 2 * half[1] <= half[0] /\ 2 * half[2] <= half[1] /\ 2 * half[3] <= half[2] /\ 2 * half[4] <= half[3]
        /\ 2 * half[5] <= half[4] /\ 2 * half[6] <= half[5] /\ 2 * half[7] <= half[6] /\ 2 * half[8] <= half[7]
        /\ \A i \in 0 .. 8 : half[i] \in Nat
    <3>1. \A i \in 0 .. 7 : 2 * half[i + 1] <= half[i] BY <2>1
    <3> QED BY <3>1
  <2>3. half[0] <= 255 BY <1>0, <1>1
  <2> QED BY <2>2, <2>3
<1> DEFINE S == {k \in 0 .. 31 : k >= 8 => half[k] = 0}
<1>3. 0 .. 31 \subseteq S
  <2>1. 0 \in S OBVIOUS
  <2>2. ASSUME NEW k \in 0 .. 31, k \in S, k < 31 PROVE k + 1 \in S
    <3>1. CASE k < 7
      <4>1. k + 1 \in 0 .. 31 /\ ~ (k + 1 >= 8) BY <3>1
      <4> QED BY <4>1
    <3>2. CASE k = 7 BY <1>2, <3>2
    <3>3. CASE k > 7
      <4>1. k + 1 \in 1 .. 31 /\ k + 1 - 1 = k /\ k >= 8 BY <2>2, <3>3
      <4>2. half[k] = 0 BY <2>2, <4>1
      <4>3. half[k + 1] = half[k] \div 2 BY <1>1, <4>1
      <4>4. half[k + 1] = 0 BY <4>2, <4>3
      <4> QED BY <4>1, <4>4
    <3> QED BY <3>1, <3>2, <3>3
  <2> HIDE DEF S
  <2> QED BY <2>1, <2>2, UpTo
<1>4. Natural(n) \in Word BY <1>0, NaturalIs
<1>5. Extract(Natural(n), 0, 8) \in Word
      /\ \A i \in 0 .. 31 : Extract(Natural(n), 0, 8)[i] = IF i < 8 THEN Natural(n)[0 + i] ELSE 0
  <2> DEFINE from == 0
             w == Natural(n)
  <2>1. from \in Nat /\ 8 \in Nat /\ from + 8 <= 32 /\ w \in Word BY <1>4
  <2> HIDE DEF from, w
  <2>2. Extract(w, from, 8) \in Word /\ \A i \in 0 .. 31 : Extract(w, from, 8)[i] = IF i < 8 THEN w[from + i] ELSE 0
    BY <2>1, ExtractIs
  <2> QED BY <2>2 DEF from, w
<1>6. ASSUME NEW i \in 0 .. 31 PROVE Extract(Natural(n), 0, 8)[i] = Natural(n)[i]
  <2>1. CASE i < 8
    <3>1. 0 + i = i OBVIOUS
    <3> QED BY <1>5, <2>1, <3>1
  <2>2. CASE ~ (i < 8)
    <3>1. half[i] = 0 BY <1>3, <2>2
    <3>2. Natural(n)[i] = IF i = 31 THEN 0 ELSE half[i] % 2 BY <1>1 DEF Bits
    <3> QED BY <1>5, <2>2, <3>1, <3>2
  <2> QED BY <2>1, <2>2
<1> QED BY <1>4, <1>5, <1>6, SameBits

(* The bytes are read again where they were written, and every other byte is as before. *)
LEMMA BytesStored ==
  ASSUME NEW m, OfWords(m), NEW addr \in Word, NEW bytes \in Seq(Byte), Len(bytes) <= MaxNatural, NEW m2,
         m2 = WriteBytes(m, addr, bytes)
  PROVE  /\ \A k \in 1 .. Len(bytes) : memory_rd_b(m2, Plus(addr, k - 1)) = Natural(bytes[k])
         /\ \A b \in Word : (\A k \in 1 .. Len(bytes) : b # Plus(addr, k - 1)) => memory_rd_b(m2, b) = memory_rd_b(m, b)
<1> DEFINE N == Len(bytes)
<1>1. N \in Nat /\ MaxNatural \in Nat /\ N <= MaxNatural /\ bytes \in Seq(Nat) BY BytesAreNumbers DEF MaxNatural
<1>2. m \in Writings(m) BY WritingsAre
<1>3. PICK u \in [0 .. N -> Writings(m)] :
         /\ u[0] = m
         /\ \A n \in 1 .. N : u[n] = memory_wr_b(u[n - 1], Plus(addr, n - 1), Natural(bytes[n]))
         /\ m2 = u[N]
  BY <1>1, <1>2, WriteBytesIs
<1>4. \A n \in 1 .. N : bytes[n] \in Byte OBVIOUS
<1> HIDE DEF N
<1>5. \A n \in 0 .. N : OfWords(u[n]) BY WritingsAre
<1>6. \A n \in 1 .. N : Plus(addr, n - 1) \in Word
  <2> SUFFICES ASSUME NEW n \in 1 .. N PROVE Plus(addr, n - 1) \in Word OBVIOUS
  <2>1. n - 1 \in Nat BY <1>1
  <2> QED BY <2>1, PlusWord
<1> DEFINE Right(n) == /\ \A k \in 1 .. n : memory_rd_b(u[n], Plus(addr, k - 1)) = Natural(bytes[k])
                       /\ \A b \in Word : (\A k \in 1 .. n : b # Plus(addr, k - 1))
                                          => memory_rd_b(u[n], b) = memory_rd_b(m, b)
           S == {n \in 0 .. N : Right(n)}
<1>7. 0 \in S
  <2>1. 0 \in 0 .. N /\ \A k \in 1 .. 0 : FALSE BY <1>1
  <2> QED BY <1>3, <2>1
<1>8. ASSUME NEW n \in 0 .. N, n \in S, n < N PROVE n + 1 \in S
  <2> DEFINE at == Plus(addr, n)
             new == u[n + 1]
             byte == Natural(bytes[n + 1])
  <2>1. n \in Nat /\ n + 1 \in 1 .. N /\ n + 1 \in 0 .. N /\ n + 1 - 1 = n /\ n <= MaxNatural
        /\ 1 .. n + 1 = (1 .. n) \cup {n + 1} /\ Right(n) /\ \A k \in 1 .. n : k \in 1 .. N
    <3>1. n \in Nat /\ n < N BY <1>8
    <3>2. n + 1 \in 1 .. N /\ n + 1 \in 0 .. N /\ n + 1 - 1 = n /\ n <= MaxNatural BY ONLY <1>1, <3>1
    <3>3. 1 .. n + 1 = (1 .. n) \cup {n + 1} BY ONLY <3>1
    <3>4. \A k \in 1 .. n : k \in 1 .. N BY ONLY <1>1, <3>1
    <3>5. Right(n) BY <1>8
    <3> QED BY ONLY <3>1, <3>2, <3>3, <3>4, <3>5
  <2>2. new = memory_wr_b(u[n], at, byte) BY <1>3, <2>1
  <2>3. at \in Word BY <1>6, <2>1
  <2>4. bytes[n + 1] \in Byte BY <1>4, <2>1
  <2>5. byte \in Word /\ Extract(byte, 0, 8) = byte BY <2>4, ByteNatural
  <2>6. OfWords(u[n]) BY <1>5
  <2> HIDE DEF at, byte
  <2>7. memory_rd_b(new, at) = byte /\ \A b \in Word : b # at => memory_rd_b(new, b) = memory_rd_b(u[n], b)
    BY <2>2, <2>3, <2>5, <2>6, ByteWritten
  <2> HIDE DEF new
  <2>8. ASSUME NEW k \in 1 .. n + 1 PROVE memory_rd_b(new, Plus(addr, k - 1)) = Natural(bytes[k])
    <3>1. CASE k = n + 1 BY <2>1, <2>7, <3>1 DEF at, byte
    <3>2. CASE k \in 1 .. n
      <4>1. k - 1 \in Nat /\ k - 1 <= MaxNatural /\ k - 1 # n /\ k \in 1 .. N BY <1>1, <2>1, <3>2
      <4>2. Plus(addr, k - 1) # at BY <2>1, <4>1, PlusTells DEF at
      <4>3. Plus(addr, k - 1) \in Word BY <1>6, <4>1
      <4>4. memory_rd_b(u[n], Plus(addr, k - 1)) = Natural(bytes[k]) BY <2>1, <3>2
      <4> QED BY <2>7, <4>2, <4>3, <4>4
    <3> QED BY <2>1, <3>1, <3>2
  <2>9. ASSUME NEW b \in Word, \A k \in 1 .. n + 1 : b # Plus(addr, k - 1)
        PROVE  memory_rd_b(new, b) = memory_rd_b(m, b)
    <3>1. b # at BY <2>1, <2>9 DEF at
    <3>2. \A k \in 1 .. n : b # Plus(addr, k - 1) BY <2>1, <2>9
    <3>3. memory_rd_b(u[n], b) = memory_rd_b(m, b) BY <2>1, <3>2
    <3> QED BY <2>7, <3>1, <3>3
  <2>10. Right(n + 1) BY <2>8, <2>9 DEF new
  <2> QED BY <2>1, <2>10
<1>9. N \in S
  <2> HIDE DEF S
  <2>1. 0 .. N \subseteq S BY <1>1, <1>7, <1>8, UpTo
  <2> QED BY <1>1, <2>1
<1> QED BY <1>3, <1>9 DEF N

(* So no two of them overlap, and none overlaps the pointers. *)
LEMMA AddressesApart ==
  ASSUME NEW args \in Seq(Seq(Nat)), args # <<>>
  PROVE  /\ Len(args) \in Nat /\ Len(args) >= 1
         /\ \A n \in 1 .. Len(args) : /\ str_addr(args, n) \in Nat /\ Len(args[n]) \in Nat
                                      /\ argv_addr + 4 * Len(args) <= str_addr(args, n)
                                      /\ str_addr(args, n) + Len(args[n]) + 1 <= ArgsEnd(args)
         /\ \A i, j \in 1 .. Len(args) : i < j => str_addr(args, i) + Len(args[i]) + 1 <= str_addr(args, j)
         /\ ArgsEnd(args) \in Nat
<1> DEFINE N == Len(args)
           first == argv_addr + 4 * Len(args)
           A(n) == str_addr(args, n)
           L(n) == Len(args[n])
<1>1. N \in Nat /\ N >= 1 OBVIOUS
<1>2. first \in Nat BY <1>1 DEF argv_addr
<1>3. \A n \in 1 .. N : L(n) \in Nat
  <2> SUFFICES ASSUME NEW n \in 1 .. N PROVE L(n) \in Nat OBVIOUS
  <2>1. args[n] \in Seq(Nat) OBVIOUS
  <2> QED BY <2>1
<1>4. (\A n \in 1 .. N : A(n) \in Nat) /\ A(1) = first /\ (\A n \in 2 .. N : A(n) = A(n - 1) + L(n - 1) + 1)
  BY AddressesAre
<1>5. ArgsEnd(args) = A(N) + L(N) + 1 BY DEF ArgsEnd
<1> HIDE DEF N, first, A, L
<1>6. ASSUME NEW i \in 1 .. N PROVE \A j \in 1 .. N : i < j => A(i) + L(i) + 1 <= A(j)
  <2> DEFINE S == {k \in 0 .. N : k > i => A(i) + L(i) + 1 <= A(k)}
  <2>1. 0 \in S BY <1>1
  <2>2. ASSUME NEW k \in 0 .. N, k \in S, k < N PROVE k + 1 \in S
    <3>1. k + 1 \in 0 .. N BY <1>1, <2>2
    <3>2. CASE k < i
      <4>1. ~ (k + 1 > i) BY <1>1, <3>2
      <4> QED BY <3>1, <4>1
    <3>3. CASE k >= i
      <4>1. k \in 1 .. N /\ k + 1 \in 2 .. N /\ k + 1 - 1 = k /\ (k = i \/ k > i) BY <1>1, <2>2, <3>3
      <4>2. A(k + 1) = A(k) + L(k) + 1 BY <1>4, <4>1
      <4>3. A(k) \in Nat /\ L(k) \in Nat /\ A(i) \in Nat /\ L(i) \in Nat BY <1>3, <1>4, <4>1
      <4>4. k > i => A(i) + L(i) + 1 <= A(k) BY <2>2
      <4>6. \A a, l, b, d \in Nat : (b = a /\ d = l) \/ a + l + 1 <= b => a + l + 1 <= b + d + 1 OBVIOUS
      <4>7. (A(k) = A(i) /\ L(k) = L(i)) \/ A(i) + L(i) + 1 <= A(k) BY ONLY <4>1, <4>4
      <4>5. A(i) + L(i) + 1 <= A(k + 1) BY ONLY <4>2, <4>3, <4>6, <4>7
      <4> QED BY <3>1, <4>5
    <3> QED BY <1>1, <3>2, <3>3
  <2>3. 0 .. N \subseteq S
    <3> HIDE DEF S
    <3> QED BY <1>1, <2>1, <2>2, UpTo
  <2> SUFFICES ASSUME NEW j \in 1 .. N, i < j PROVE A(i) + L(i) + 1 <= A(j) OBVIOUS
  <2>4. j \in 0 .. N /\ j > i BY <1>1
  <2> QED BY <2>3, <2>4
<1>7. ASSUME NEW n \in 1 .. N PROVE first <= A(n) /\ A(n) + L(n) + 1 <= A(N) + L(N) + 1
  <2>1. 1 \in 1 .. N /\ N \in 1 .. N /\ (n = 1 \/ 1 < n) /\ (n = N \/ n < N) BY <1>1
  <2>2. A(n) \in Nat /\ L(n) \in Nat /\ A(N) \in Nat /\ L(N) \in Nat /\ A(1) \in Nat /\ L(1) \in Nat BY <1>3, <1>4, <2>1
  <2>3. 1 < n => A(1) + L(1) + 1 <= A(n) BY <1>6, <2>1
  <2>4. n < N => A(n) + L(n) + 1 <= A(N) BY <1>6, <2>1
  <2>5. first <= A(n)
    <3>1. A(1) = first BY <1>4
    <3>2. CASE n = 1 BY ONLY <1>2, <3>1, <3>2
    <3>3. CASE 1 < n
      <4>1. \A a, l, b \in Nat : a + l + 1 <= b => a <= b OBVIOUS
      <4>2. A(1) <= A(n) BY ONLY <2>2, <2>3, <3>3, <4>1
      <4> QED BY ONLY <3>1, <4>2
    <3> QED BY ONLY <2>1, <3>2, <3>3
  <2>6. A(n) + L(n) + 1 <= A(N) + L(N) + 1
    <3>1. CASE n = N
      <4>1. A(n) + L(n) + 1 = A(N) + L(N) + 1 BY <3>1
      <4> QED BY <2>2, <4>1
    <3>2. CASE n < N BY <2>2, <2>4, <3>2
    <3> QED BY <2>1, <3>1, <3>2
  <2> QED BY <2>5, <2>6
<1>8. A(N) + L(N) + 1 \in Nat
  <2>1. N \in 1 .. N BY <1>1
  <2> QED BY <1>3, <1>4, <2>1
<1> QED BY <1>1, <1>3, <1>4, <1>5, <1>6, <1>7, <1>8 DEF N, first, A, L

(* The word of a multiple of four is on a boundary. *)
LEMMA NaturalAligned ==
  ASSUME NEW x \in Nat, NEW y \in Nat, x = 4 * y PROVE WordAligned(Natural(x))
<1>1. PICK half \in [0 .. 31 -> Nat] :
        /\ half[0] = x /\ \A i \in 1 .. 31 : half[i] = half[i - 1] \div 2
        /\ Natural(x) = [i \in Bits |-> IF i = 31 THEN 0 ELSE half[i] % 2]
  BY NaturalIs
<1>2. 1 \in 1 .. 31 /\ 1 - 1 = 0 /\ 0 \in Bits /\ 1 \in Bits BY DEF Bits
<1>3. half[1] = half[0] \div 2 BY <1>1, <1>2
<1>4. Natural(x)[0] = half[0] % 2 /\ Natural(x)[1] = half[1] % 2 BY <1>1, <1>2
<1>5. x % 2 = 0 /\ x \div 2 = 2 * y OBVIOUS
<1>6. (2 * y) % 2 = 0 OBVIOUS
<1> QED BY <1>1, <1>3, <1>4, <1>5, <1>6 DEF WordAligned

\* The bytes at the address of a number are those of a word, or those of a string with its end.
WordBytes(m, x, word) == \A k \in 0 .. 3 : memory_rd_b(m, Natural(x + k)) = Extract(word, 8 * k, 8)
StringBytes(m, x, string) ==
  \A k \in 1 .. Len(string) + 1 :
    memory_rd_b(m, Natural(x + k - 1)) = Natural(IF k <= Len(string) THEN string[k] ELSE 0)

\* The same bytes are at the addresses of these numbers.
SameBytes(m, m2, numbers) == \A z \in numbers : memory_rd_b(m2, Natural(z)) = memory_rd_b(m, Natural(z))

(* A word that is written changes four bytes, *)
LEMMA WordPut ==
  ASSUME NEW m, OfWords(m), NEW x \in Nat, x + 3 <= MaxNatural, NEW y \in Nat, x = 4 * y, NEW d \in Word, NEW m2,
         m2 = memory_wr_w(m, Natural(x), d)
  PROVE  /\ OfWords(m2)
         /\ WordBytes(m2, x, d)
         /\ SameBytes(m, m2, {z \in Nat : z <= MaxNatural /\ (z < x \/ x + 3 < z)})
<1> DEFINE a == Natural(x)
<1>0. MaxNatural \in Nat BY DEF MaxNatural
<1>1. a \in Word /\ WordAligned(a) BY NaturalIs, NaturalAligned
<1>2. \A k \in 0 .. 3 : Plus(a, k) = Natural(x + k)
  <2> SUFFICES ASSUME NEW k \in 0 .. 3 PROVE Plus(a, k) = Natural(x + k) OBVIOUS
  <2>1. k \in Nat /\ x + k <= MaxNatural BY <1>0
  <2> QED BY <2>1, NaturalPlus
<1> HIDE DEF a
<1>3. m2 = memory_wr_w(m, a, d) BY DEF a
<1>4. OfWords(m2) BY <1>1, <1>3, WritesKeep
<1>5. /\ \A k \in 0 .. 3 : memory_rd_b(m2, Plus(a, k)) = Extract(d, 8 * k, 8)
      /\ \A b \in Word : (\A k \in 0 .. 3 : b # Plus(a, k)) => memory_rd_b(m2, b) = memory_rd_b(m, b)
  BY <1>1, <1>3, WordWritten
<1>6. WordBytes(m2, x, d) BY <1>2, <1>5 DEF WordBytes
<1>7. ASSUME NEW z \in Nat, z <= MaxNatural, z < x \/ x + 3 < z
      PROVE  memory_rd_b(m2, Natural(z)) = memory_rd_b(m, Natural(z))
  <2>1. Natural(z) \in Word BY NaturalIs
  <2>2. ASSUME NEW k \in 0 .. 3, Natural(z) = Plus(a, k) PROVE FALSE
    <3>1. x + k \in Nat /\ x + k <= MaxNatural /\ x + k # z BY <1>0, <1>7
    <3>2. Natural(z) = Natural(x + k) BY <1>2, <2>2
    <3> DEFINE t == x + k
    <3>3. t \in Nat /\ t <= MaxNatural /\ t # z /\ Natural(z) = Natural(t) BY <3>1, <3>2
    <3> HIDE DEF t
    <3> QED BY <1>7, <3>3, NaturalTells
  <2> QED BY <1>5, <2>1, <2>2
<1> QED BY <1>4, <1>6, <1>7 DEF SameBytes

(* and a string as many as it has characters and one. *)
LEMMA StringPut ==
  ASSUME NEW m, OfWords(m), NEW x \in Nat, x >= 1, NEW s \in Seq(Byte), x + Len(s) <= MaxNatural, NEW m2,
         m2 = WriteBytes(m, Natural(x), Append(s, 0))
  PROVE  /\ OfWords(m2)
         /\ StringBytes(m2, x, s)
         /\ SameBytes(m, m2, {z \in Nat : z <= MaxNatural /\ (z < x \/ x + Len(s) < z)})
<1> DEFINE a == Natural(x)
           bytes == Append(s, 0)
           L == Len(s)
<1>0. MaxNatural \in Nat BY DEF MaxNatural
<1>1. a \in Word BY NaturalIs
<1>2. /\ bytes \in Seq(Byte) /\ L \in Nat /\ Len(bytes) = L + 1
      /\ \A k \in 1 .. L + 1 : bytes[k] = IF k <= L THEN s[k] ELSE 0
  <2>1. 0 \in Byte BY DEF Byte
  <2> QED BY <2>1
<1>3. L + 1 \in Nat /\ L + 1 <= MaxNatural BY <1>0, <1>2
<1>4. m \in Writings(m) /\ bytes \in Seq(Nat) BY <1>2, WritingsAre, BytesAreNumbers
<1>5. \A k \in 1 .. L + 1 : Plus(a, k - 1) = Natural(x + k - 1) /\ x + k - 1 \in Nat /\ x + k - 1 <= MaxNatural
  <2> SUFFICES ASSUME NEW k \in 1 .. L + 1
               PROVE  Plus(a, k - 1) = Natural(x + k - 1) /\ x + k - 1 \in Nat /\ x + k - 1 <= MaxNatural
    OBVIOUS
  <2> DEFINE j == k - 1
  <2>1. j \in Nat /\ x + j <= MaxNatural /\ x + j = x + k - 1 BY <1>0, <1>2
  <2> HIDE DEF j
  <2>2. Plus(a, j) = Natural(x + j) BY <2>1, NaturalPlus
  <2>3. x + j \in Nat BY <2>1
  <2>4. Plus(a, j) = Natural(x + k - 1) /\ x + k - 1 \in Nat /\ x + k - 1 <= MaxNatural BY <2>1, <2>2, <2>3
  <2> QED BY <2>4 DEF j
<1> HIDE DEF a, bytes, L
<1>6. m2 = WriteBytes(m, a, bytes) BY DEF a, bytes
<1>7. m2 \in Writings(m) BY <1>1, <1>4, <1>6, BytesKeep
<1>8. OfWords(m2) BY <1>7, WritingsAre
<1>9. /\ \A k \in 1 .. Len(bytes) : memory_rd_b(m2, Plus(a, k - 1)) = Natural(bytes[k])
      /\ \A b \in Word : (\A k \in 1 .. Len(bytes) : b # Plus(a, k - 1)) => memory_rd_b(m2, b) = memory_rd_b(m, b)
  <2>1. bytes \in Seq(Byte) /\ Len(bytes) <= MaxNatural BY <1>2, <1>3
  <2> QED BY <1>1, <1>6, <2>1, BytesStored, SMTT(20)
<1>10. StringBytes(m2, x, s)
  <2> SUFFICES ASSUME NEW k \in 1 .. L + 1
               PROVE  memory_rd_b(m2, Natural(x + k - 1)) = Natural(IF k <= L THEN s[k] ELSE 0)
    BY DEF StringBytes, L
  <2> QED BY <1>2, <1>5, <1>9
<1>11. ASSUME NEW z \in Nat, z <= MaxNatural, z < x \/ x + L < z
       PROVE  memory_rd_b(m2, Natural(z)) = memory_rd_b(m, Natural(z))
  <2>1. Natural(z) \in Word BY NaturalIs
  <2>2. ASSUME NEW k \in 1 .. L + 1, Natural(z) = Plus(a, k - 1) PROVE FALSE
    <3> DEFINE t == x + k - 1
    <3>1. t \in Nat /\ t <= MaxNatural /\ Natural(z) = Natural(t) BY <1>5, <2>2
    <3>2. t # z BY <1>2, <1>11
    <3> HIDE DEF t
    <3> QED BY <1>11, <3>1, <3>2, NaturalTells
  <2> QED BY <1>2, <1>9, <2>1, <2>2
<1> QED BY <1>8, <1>10, <1>11 DEF SameBytes, L

(* What the bytes say of other memories that have them. *)
LEMMA BytesAgree ==
  ASSUME NEW m, NEW m2, NEW numbers, SameBytes(m, m2, numbers)
  PROVE  /\ \A word : \A x \in Nat :
              WordBytes(m, x, word) /\ x .. x + 3 \subseteq numbers => WordBytes(m2, x, word)
         /\ \A x \in Nat, string \in Seq(Byte) :
              StringBytes(m, x, string) /\ x .. x + Len(string) \subseteq numbers => StringBytes(m2, x, string)
<1>1. ASSUME NEW x \in Nat, NEW word, WordBytes(m, x, word), x .. x + 3 \subseteq numbers
      PROVE  WordBytes(m2, x, word)
  <2> SUFFICES ASSUME NEW k \in 0 .. 3 PROVE memory_rd_b(m2, Natural(x + k)) = Extract(word, 8 * k, 8) BY DEF WordBytes
  <2>1. x + k \in x .. x + 3 OBVIOUS
  <2>2. memory_rd_b(m, Natural(x + k)) = Extract(word, 8 * k, 8) BY <1>1 DEF WordBytes
  <2> QED BY <1>1, <2>1, <2>2 DEF SameBytes
<1>2. ASSUME NEW x \in Nat, NEW string \in Seq(Byte), StringBytes(m, x, string), x .. x + Len(string) \subseteq numbers
      PROVE  StringBytes(m2, x, string)
  <2> DEFINE L == Len(string)
  <2>1. L \in Nat OBVIOUS
  <2> SUFFICES ASSUME NEW k \in 1 .. L + 1
               PROVE  memory_rd_b(m2, Natural(x + k - 1)) = Natural(IF k <= L THEN string[k] ELSE 0)
    BY DEF StringBytes
  <2>2. x + k - 1 \in x .. x + L BY <2>1
  <2>3. memory_rd_b(m, Natural(x + k - 1)) = Natural(IF k <= L THEN string[k] ELSE 0) BY <1>2 DEF StringBytes
  <2> QED BY <1>2, <2>2, <2>3 DEF SameBytes
<1> QED BY <1>1, <1>2

(* Numbers of one range are not of another that ends before it or begins behind it. *)
LEMMA RangesApart ==
  ASSUME NEW x \in Nat, NEW l \in Nat, NEW y \in Nat, NEW n \in Nat, NEW max \in Nat, x + l <= max,
         x + l < y \/ y + n < x
  PROVE  x .. x + l \subseteq {z \in Nat : z <= max /\ (z < y \/ y + n < z)}
OBVIOUS

(* Every argument is in memory: the number, each pointer and each string, which no later one writes over. *)
LEMMA ArgsPlaced ==
  ASSUME NEW m, OfWords(m), NEW args \in Seq(Seq(Byte)), args # <<>>, ArgsEnd(args) <= MaxNatural, NEW m2,
         m2 = WriteArgs(m, args)
  PROVE  /\ WordBytes(m2, count_addr, Natural(Len(args)))
         /\ \A n \in 1 .. Len(args) : /\ WordBytes(m2, argv_addr + 4 * (n - 1), Natural(str_addr(args, n)))
                                      /\ StringBytes(m2, str_addr(args, n), args[n])
<1> DEFINE N == Len(args)
           max == MaxNatural
           A(n) == str_addr(args, n)
           L(n) == Len(args[n])
           P(n) == argv_addr + 4 * (n - 1)
           C == count_addr
<1>1. args \in Seq(Seq(Nat)) BY BytesAreNumbers
<1>2. PICK u \in [0 .. N -> Writings(m)] :
        /\ u[0] = memory_wr_w(m, Natural(C), Natural(N))
        /\ \A n \in 1 .. N : u[n] = WriteBytes(memory_wr_w(u[n - 1], Natural(P(n)), Natural(A(n))),
                                               Natural(A(n)), Append(args[n], 0))
        /\ m2 = u[N]
  BY <1>1, WriteArgsIs
<1>3. /\ N \in Nat /\ N >= 1
      /\ \A n \in 1 .. N : A(n) \in Nat /\ L(n) \in Nat /\ argv_addr + 4 * N <= A(n) /\ A(n) + L(n) + 1 <= ArgsEnd(args)
      /\ \A i, j \in 1 .. N : i < j => A(i) + L(i) + 1 <= A(j)
      /\ ArgsEnd(args) \in Nat
  BY <1>1, AddressesApart
<1>17. N \in Nat /\ N >= 1 BY <1>3
<1>4. \A n \in 1 .. N : args[n] \in Seq(Byte) OBVIOUS
<1>5. max \in Nat /\ ArgsEnd(args) <= max BY DEF MaxNatural
<1>6. C \in Nat /\ argv_addr = C + 4 /\ C >= 1 BY DEF count_addr, argv_addr
<1>16. PICK q \in Nat : C = 4 * q
  <2>1. C = 4 * 4194304 /\ 4194304 \in Nat BY DEF count_addr
  <2> QED BY <2>1
<1> HIDE DEF N, A, L, C, max
<1>7. \A n \in 1 .. N : P(n) = C + 4 * n BY <1>3, <1>6
<1>8. \A n \in 1 .. N : A(n) >= C + 4 * N + 4 /\ A(n) + L(n) < max
  <2> SUFFICES ASSUME NEW n \in 1 .. N PROVE A(n) >= C + 4 * N + 4 /\ A(n) + L(n) < max OBVIOUS
  <2>1. A(n) \in Nat /\ L(n) \in Nat /\ argv_addr + 4 * N <= A(n) /\ A(n) + L(n) + 1 <= ArgsEnd(args) BY <1>3
  <2>2. ArgsEnd(args) \in Nat BY <1>3
  <2>3. A(n) + L(n) < max BY ONLY <1>5, <2>1, <2>2
  <2>4. A(n) >= C + 4 * N + 4 BY ONLY <1>6, <1>17, <2>1
  <2> QED BY ONLY <2>3, <2>4
<1>9. C + 4 * N + 4 <= max
  <2>1. 1 \in 1 .. N BY <1>3
  <2>2. A(1) \in Nat /\ L(1) \in Nat /\ A(1) >= C + 4 * N + 4 /\ A(1) + L(1) < max BY <1>3, <1>8, <2>1
  <2> QED BY <1>3, <1>5, <1>6, <2>2
<1> HIDE DEF P
<1> DEFINE Q(v, n) == /\ WordBytes(v, C, Natural(N))
                      /\ \A j \in 1 .. n : WordBytes(v, P(j), Natural(A(j))) /\ StringBytes(v, A(j), args[j])
           S == {n \in 0 .. N : Q(u[n], n)}
<1>10. \A n \in 0 .. N : OfWords(u[n]) BY WritingsAre
<1>11. Natural(N) \in Word BY <1>3, NaturalIs
<1>12. 0 \in S
  <2>1. C + 3 <= MaxNatural BY <1>3, <1>5, <1>6, <1>9 DEF max
  <2>2. WordBytes(u[0], C, Natural(N))
    <3> DEFINE word == Natural(N)
    <3>1. word \in Word /\ u[0] = memory_wr_w(m, Natural(C), word) BY <1>2, <1>11
    <3> HIDE DEF word
    <3>2. WordBytes(u[0], C, word) BY <1>6, <1>16, <2>1, <3>1, WordPut
    <3> QED BY <3>2 DEF word
  <2>3. 0 \in 0 .. N /\ \A j \in 1 .. 0 : FALSE BY <1>3
  <2> QED BY <2>2, <2>3
<1>13. ASSUME NEW n \in 0 .. N, n \in S, n < N PROVE n + 1 \in S
  <2> DEFINE c == n + 1
             before == u[n]
             after == u[c]
             mid == memory_wr_w(before, Natural(P(c)), Natural(A(c)))
             around == {z \in Nat : z <= max /\ (z < P(c) \/ P(c) + 3 < z)}
             beside == {z \in Nat : z <= max /\ (z < A(c) \/ A(c) + L(c) < z)}
  <2>1. c \in 1 .. N /\ c \in 0 .. N /\ c - 1 = n /\ n \in Nat
        /\ (\A j \in 1 .. n : j \in 1 .. N /\ j < c)
        /\ (\A j \in 1 .. c : j \in 1 .. n \/ j = c)
    <3>1. n \in Nat /\ n < N BY <1>13
    <3>2. n + 1 \in 1 .. N /\ n + 1 \in 0 .. N /\ n + 1 - 1 = n BY ONLY <1>17, <3>1
    <3>3. \A j \in 1 .. n : j \in 1 .. N /\ j < n + 1 BY ONLY <1>17, <3>1
    <3>4. \A j \in 1 .. n + 1 : j \in 1 .. n \/ j = n + 1 BY ONLY <3>1
    <3> QED BY ONLY <3>1, <3>2, <3>3, <3>4 DEF c
  <2>2. after = WriteBytes(mid, Natural(A(c)), Append(args[c], 0)) BY <1>2, <2>1
  <2>3. P(c) = C + 4 * c /\ A(c) \in Nat /\ L(c) \in Nat /\ A(c) >= C + 4 * N + 4 /\ A(c) + L(c) < max
    BY <1>3, <1>7, <1>8, <2>1
  <2>4. args[c] \in Seq(Byte) /\ L(c) = Len(args[c]) BY <1>4, <2>1 DEF L
  <2>5. OfWords(before) BY <1>10
  <2>6. Natural(A(c)) \in Word BY <2>3, NaturalIs
  <2>13. Q(before, n) BY <1>13
  <2> HIDE DEF c, before, after
  <2>7. P(c) \in Nat /\ P(c) + 3 <= max /\ P(c) + 3 < A(c) /\ C + 3 < P(c) /\ C + 3 < A(c) /\ A(c) >= 1
    <3>1. c \in Nat /\ c >= 1 /\ c <= N BY <1>17, <2>1
    <3>2. P(c) \in Nat /\ P(c) + 3 <= max /\ C + 3 < P(c) BY ONLY <1>17, <1>5, <1>6, <1>9, <2>3, <3>1
    <3>3. P(c) + 3 < A(c) /\ C + 3 < A(c) /\ A(c) >= 1 BY ONLY <1>17, <1>6, <2>3, <3>1
    <3> QED BY ONLY <3>2, <3>3
  <2>19. q + c \in Nat /\ P(c) = 4 * (q + c)
    <3>1. c \in Nat BY <1>17, <2>1
    <3> QED BY <1>16, <2>3, <3>1
  <2>8. OfWords(mid) /\ WordBytes(mid, P(c), Natural(A(c))) /\ SameBytes(before, mid, around)
    BY <2>5, <2>6, <2>7, <2>19, WordPut DEF max
  <2> HIDE DEF mid
  <2>9. A(c) + Len(args[c]) <= MaxNatural BY <1>5, <2>3, <2>4 DEF max
  <2>10. StringBytes(after, A(c), args[c]) /\ SameBytes(mid, after, beside)
    BY <2>2, <2>3, <2>4, <2>7, <2>8, <2>9, StringPut DEF max
  <2>11. /\ \A word : \A x \in Nat : WordBytes(before, x, word) /\ x .. x + 3 \subseteq around => WordBytes(mid, x, word)
         /\ \A x \in Nat, string \in Seq(Byte) :
              StringBytes(before, x, string) /\ x .. x + Len(string) \subseteq around => StringBytes(mid, x, string)
    BY <2>8, BytesAgree
  <2>12. /\ \A word : \A x \in Nat : WordBytes(mid, x, word) /\ x .. x + 3 \subseteq beside => WordBytes(after, x, word)
         /\ \A x \in Nat, string \in Seq(Byte) :
              StringBytes(mid, x, string) /\ x .. x + Len(string) \subseteq beside => StringBytes(after, x, string)
    BY <2>10, BytesAgree
  <2> DEFINE Within(x, l) == x .. x + l \subseteq around /\ x .. x + l \subseteq beside
  <2>14. ASSUME NEW x \in Nat, NEW l \in Nat, x + l <= max, x + l < P(c) \/ P(c) + 3 < x, x + l < A(c)
         PROVE  Within(x, l)
    <3>1. x .. x + l \subseteq around BY <1>5, <2>7, <2>14, RangesApart
    <3>2. x .. x + l \subseteq beside BY <1>5, <2>3, <2>14, RangesApart
    <3> QED BY <3>1, <3>2
  <2>15. WordBytes(after, C, Natural(N))
    <3>1. C + 3 <= max /\ 3 \in Nat BY <1>5, <1>6, <2>7
    <3>2. Within(C, 3) BY <1>6, <2>7, <2>14, <3>1
    <3> QED BY <1>6, <2>11, <2>12, <2>13, <3>2
  <2>16. ASSUME NEW j \in 1 .. n PROVE WordBytes(after, P(j), Natural(A(j))) /\ StringBytes(after, A(j), args[j])
    <3>1. j \in 1 .. N /\ j < c /\ j \in Nat BY <2>1
    <3>2. P(j) = C + 4 * j /\ A(j) \in Nat /\ L(j) \in Nat /\ A(j) >= C + 4 * N + 4 /\ A(j) + L(j) < max
          /\ A(j) + L(j) + 1 <= A(c) /\ args[j] \in Seq(Byte)
      BY <1>3, <1>4, <1>7, <1>8, <2>1, <3>1
    <3>3. P(j) \in Nat /\ P(j) + 3 <= max /\ P(j) + 3 < P(c) /\ P(j) + 3 < A(c) /\ 3 \in Nat
      <4>1. c \in Nat /\ P(c) = C + 4 * c /\ P(j) = C + 4 * j BY <1>17, <2>1, <2>3, <3>2
      <4>2. P(j) \in Nat /\ P(j) + 4 <= P(c) BY <1>6, <3>1, <4>1
      <4>3. P(c) \in Nat /\ A(c) \in Nat /\ max \in Nat BY <1>5, <2>3, <2>7
      <4>4. P(j) + 3 < P(c) BY ONLY <4>2, <4>3
      <4>5. P(j) + 3 <= max /\ P(j) + 3 < A(c) BY ONLY <2>7, <4>2, <4>3, <4>4
      <4>6. 3 \in Nat OBVIOUS
      <4> QED BY ONLY <4>2, <4>4, <4>5, <4>6
    <3>4. A(j) + L(j) <= max /\ P(c) + 3 < A(j) /\ A(j) + L(j) < A(c)
      <4>1. c \in Nat /\ c <= N /\ P(c) = C + 4 * c BY <1>17, <2>1, <2>3
      <4>2. P(c) + 3 < A(j) BY <1>17, <1>6, <3>2, <4>1
      <4>3. A(j) \in Nat /\ L(j) \in Nat /\ A(j) + L(j) < max /\ A(j) + L(j) + 1 <= A(c) BY <3>2
      <4>4. A(c) \in Nat /\ max \in Nat BY <1>5, <2>3
      <4>5. A(j) + L(j) <= max /\ A(j) + L(j) < A(c) BY ONLY <4>3, <4>4
      <4> QED BY <4>2, <4>5
    <3>5. Within(P(j), 3) BY <2>14, <3>3
    <3>6. Within(A(j), L(j)) BY <2>14, <3>2, <3>4
    <3>7. L(j) = Len(args[j]) BY DEF L
    <3>8. WordBytes(before, P(j), Natural(A(j))) /\ StringBytes(before, A(j), args[j]) BY <2>13
    <3>9. WordBytes(after, P(j), Natural(A(j))) BY <2>11, <2>12, <3>3, <3>5, <3>8
    <3>10. StringBytes(after, A(j), args[j]) BY <2>11, <2>12, <3>2, <3>6, <3>7, <3>8
    <3> QED BY <3>9, <3>10
  <2>17. WordBytes(after, P(c), Natural(A(c)))
    <3>1. Within(P(c), 3) \/ P(c) .. P(c) + 3 \subseteq beside
      <4>1. 3 \in Nat OBVIOUS
      <4> QED BY <1>5, <2>3, <2>7, <4>1, RangesApart
    <3> QED BY <2>7, <2>8, <2>12, <3>1
  <2>18. Q(after, c) BY <2>1, <2>10, <2>15, <2>16, <2>17
  <2> QED BY <2>1, <2>18 DEF c, after
<1>14. N \in S
  <2> HIDE DEF S
  <2>1. 0 .. N \subseteq S BY <1>3, <1>12, <1>13, UpTo
  <2> QED BY <1>3, <2>1
<1>15. Q(m2, N) BY <1>2, <1>14
<1> QED BY <1>15 DEF N, A, C, P

(* A word and a string are read back from their bytes. *)
LEMMA WordGot ==
  ASSUME NEW m, OfWords(m), NEW x \in Nat, x + 3 <= MaxNatural, NEW y \in Nat, x = 4 * y, NEW w \in Word,
         WordBytes(m, x, w)
  PROVE  memory_rd_w(m, Natural(x)) = w
<1> DEFINE a == Natural(x)
<1>0. MaxNatural \in Nat BY DEF MaxNatural
<1>1. a \in Word /\ WordAligned(a) BY NaturalIs, NaturalAligned
<1>2. \A k \in 0 .. 3 : Plus(a, k) = Natural(x + k)
  <2> SUFFICES ASSUME NEW k \in 0 .. 3 PROVE Plus(a, k) = Natural(x + k) OBVIOUS
  <2>1. k \in Nat /\ x + k <= MaxNatural BY <1>0
  <2> QED BY <2>1, NaturalPlus
<1>3. \A k \in 0 .. 3 : memory_rd_b(m, Natural(x + k)) = Extract(w, 8 * k, 8) BY DEF WordBytes
<1> HIDE DEF a
<1>4. memory_rd_w(m, a) = w BY <1>1, <1>2, <1>3, WordOfBytes
<1> QED BY <1>4 DEF a

(* and those of a string are its characters and the zero behind them. *)
LEMMA StringGot ==
  ASSUME NEW m, NEW x \in Nat, NEW s \in Seq(Byte), x + Len(s) <= MaxNatural, StringBytes(m, x, s)
  PROVE  \A k \in 1 .. Len(s) + 1 :
           memory_rd_b(m, Plus(Natural(x), k - 1)) = Natural(IF k <= Len(s) THEN s[k] ELSE 0)
<1>0. MaxNatural \in Nat /\ Len(s) \in Nat BY DEF MaxNatural
<1> SUFFICES ASSUME NEW k \in 1 .. Len(s) + 1
             PROVE  memory_rd_b(m, Plus(Natural(x), k - 1)) = Natural(IF k <= Len(s) THEN s[k] ELSE 0)
  OBVIOUS
<1> DEFINE j == k - 1
<1>1. j \in Nat /\ x + j <= MaxNatural /\ x + j = x + k - 1 BY <1>0
<1> HIDE DEF j
<1>2. Plus(Natural(x), j) = Natural(x + j) BY <1>1, NaturalPlus
<1>3. memory_rd_b(m, Natural(x + k - 1)) = Natural(IF k <= Len(s) THEN s[k] ELSE 0) BY DEF StringBytes
<1>4. memory_rd_b(m, Plus(Natural(x), j)) = Natural(IF k <= Len(s) THEN s[k] ELSE 0) BY <1>1, <1>2, <1>3
<1> QED BY <1>4 DEF j

(* A memory that has the bytes of the arguments passes them. *)
LEMMA ArgsRead ==
  ASSUME NEW m, OfWords(m), NEW args \in Seq(Seq(Byte)), args # <<>>, ArgsEnd(args) <= MaxNatural,
         NEW v, OfWords(v),
         \A b \in ArgsArea(args) : memory_rd_b(v, b) = memory_rd_b(WriteArgs(m, args), b)
  PROVE  /\ memory_rd_w(v, Natural(count_addr)) = Natural(Len(args))
         /\ \A n \in 1 .. Len(args) :
              /\ memory_rd_w(v, Natural(argv_addr + 4 * (n - 1))) = Natural(str_addr(args, n))
              /\ \A k \in 1 .. Len(args[n]) + 1 :
                   memory_rd_b(v, Plus(Natural(str_addr(args, n)), k - 1))
                   = Natural(IF k <= Len(args[n]) THEN args[n][k] ELSE 0)
<1> DEFINE N == Len(args)
           A(n) == str_addr(args, n)
           L(n) == Len(args[n])
           P(n) == argv_addr + 4 * (n - 1)
           C == count_addr
           E == ArgsEnd(args)
           w == WriteArgs(m, args)
           numbers == C .. E - 1
<1>1. args \in Seq(Seq(Nat)) BY BytesAreNumbers
<1>2. /\ N \in Nat /\ N >= 1
      /\ \A n \in 1 .. N : A(n) \in Nat /\ L(n) \in Nat /\ argv_addr + 4 * N <= A(n) /\ A(n) + L(n) + 1 <= E
      /\ E \in Nat
  BY <1>1, AddressesApart
<1>3. WordBytes(w, C, Natural(N)) /\ \A n \in 1 .. N : WordBytes(w, P(n), Natural(A(n))) /\ StringBytes(w, A(n), args[n])
  BY ArgsPlaced
<1>4. \A n \in 1 .. N : args[n] \in Seq(Byte) OBVIOUS
<1>5. C \in Nat /\ argv_addr = C + 4 BY DEF count_addr, argv_addr
<1>6. PICK q \in Nat : C = 4 * q
  <2>1. C = 4 * 4194304 /\ 4194304 \in Nat BY DEF count_addr
  <2> QED BY <2>1
<1>7. SameBytes(w, v, numbers) BY DEF ArgsArea, SameBytes
<1>8. MaxNatural \in Nat /\ E <= MaxNatural BY DEF MaxNatural
<1> HIDE DEF N, A, L, C, E, w
<1>9. \A n \in 1 .. N : P(n) = C + 4 * n BY <1>2, <1>5
<1>10. /\ \A word : \A x \in Nat : WordBytes(w, x, word) /\ x .. x + 3 \subseteq numbers => WordBytes(v, x, word)
       /\ \A x \in Nat, string \in Seq(Byte) :
            StringBytes(w, x, string) /\ x .. x + Len(string) \subseteq numbers => StringBytes(v, x, string)
  BY <1>7, BytesAgree
<1> HIDE DEF P
<1>11. C + 4 * N + 4 < E
  <2>1. 1 \in 1 .. N BY <1>2
  <2>2. A(1) \in Nat /\ L(1) \in Nat /\ argv_addr + 4 * N <= A(1) /\ A(1) + L(1) + 1 <= E BY <1>2, <2>1
  <2> QED BY <1>2, <1>5, <2>2
<1>12. \A x \in Nat, l \in Nat : C <= x /\ x + l < E => x .. x + l \subseteq numbers BY <1>2, <1>5
<1>13. \A n \in 0 .. N : Natural(n) \in Word BY <1>2, NaturalIs
<1>14. memory_rd_w(v, Natural(C)) = Natural(N)
  <2>1. N \in Nat /\ E \in Nat BY <1>2
  <2>2. C <= C /\ C + 3 < E /\ C + 3 <= MaxNatural /\ 3 \in Nat BY <1>5, <1>8, <1>11, <2>1
  <2>3. C .. C + 3 \subseteq numbers BY <1>5, <1>12, <2>2
  <2>4. WordBytes(v, C, Natural(N)) BY <1>3, <1>5, <1>10, <2>3
  <2>5. Natural(N) \in Word BY <1>2, NaturalIs
  <2> QED BY <1>5, <1>6, <2>2, <2>4, <2>5, WordGot
<1>15. ASSUME NEW n \in 1 .. N
       PROVE  /\ memory_rd_w(v, Natural(P(n))) = Natural(A(n))
              /\ \A k \in 1 .. L(n) + 1 : memory_rd_b(v, Plus(Natural(A(n)), k - 1))
                                          = Natural(IF k <= L(n) THEN args[n][k] ELSE 0)
  <2>1. N \in Nat /\ E \in Nat /\ A(n) \in Nat /\ L(n) \in Nat /\ argv_addr + 4 * N <= A(n) /\ A(n) + L(n) + 1 <= E
        /\ P(n) = C + 4 * n /\ args[n] \in Seq(Byte)
    BY <1>2, <1>4, <1>9
  <2>2. n \in Nat /\ n <= N BY <2>1
  <2>3. P(n) \in Nat /\ q + n \in Nat /\ P(n) = 4 * (q + n) BY <1>5, <1>6, <2>1, <2>2
  <2>4. C <= P(n) /\ P(n) + 3 < E /\ P(n) + 3 <= MaxNatural /\ 3 \in Nat BY <1>5, <1>8, <1>11, <2>1, <2>2
  <2>5. C <= A(n) /\ A(n) + L(n) < E /\ A(n) + L(n) <= MaxNatural
    <3>1. argv_addr = C + 4 /\ C \in Nat BY <1>5
    <3>2. E <= MaxNatural /\ MaxNatural \in Nat BY <1>8, <2>1 DEF MaxNatural
    <3>3. C <= A(n) BY ONLY <2>1, <3>1
    <3>4. A(n) + L(n) < E BY ONLY <2>1
    <3>5. A(n) + L(n) <= MaxNatural BY ONLY <2>1, <3>2, <3>4
    <3> QED BY ONLY <3>3, <3>4, <3>5
  <2>6. P(n) .. P(n) + 3 \subseteq numbers BY <1>12, <2>3, <2>4
  <2>7. A(n) .. A(n) + L(n) \subseteq numbers BY <1>12, <2>1, <2>5
  <2>8. L(n) = Len(args[n]) BY DEF L
  <2> HIDE DEF numbers
  <2>9. WordBytes(v, P(n), Natural(A(n))) BY <1>3, <1>10, <2>3, <2>6
  <2>10. StringBytes(v, A(n), args[n]) BY <1>3, <1>10, <2>1, <2>7, <2>8
  <2>11. Natural(A(n)) \in Word BY <2>1, NaturalIs
  <2>12. memory_rd_w(v, Natural(P(n))) = Natural(A(n)) BY <2>3, <2>4, <2>9, <2>11, WordGot
  <2>13. \A k \in 1 .. Len(args[n]) + 1 : memory_rd_b(v, Plus(Natural(A(n)), k - 1))
                                          = Natural(IF k <= Len(args[n]) THEN args[n][k] ELSE 0)
    BY <2>1, <2>5, <2>8, <2>10, StringGot
  <2> QED BY <2>8, <2>12, <2>13
<1> QED BY <1>14, <1>15 DEF N, A, L, P, C

\* A line has been put into a memory.
Puts(line, m, m2) ==
  /\ \A q \in Stored(line) : memory_rd_b(m2, q[1]) = q[2]
  /\ \A b \in Word : (\A q \in Stored(line) : b # q[1]) => memory_rd_b(m2, b) = memory_rd_b(m, b)

(* The bytes that are put in a row. *)
LEMMA LocatedIs ==
  ASSUME NEW addr \in Word, NEW n \in Nat, NEW bytes, DOMAIN bytes = 1 .. n
  PROVE  /\ \A k \in 1 .. n : <<Plus(addr, k - 1), bytes[k]>> \in Located(addr, bytes)
         /\ \A q \in Located(addr, bytes) : \E k \in 1 .. n : q = <<Plus(addr, k - 1), bytes[k]>>
         /\ \A q \in Located(addr, bytes) : q[1] \in Word
<1>1. \A k \in 1 .. n : <<Plus(addr, k - 1), bytes[k]>> \in Located(addr, bytes) BY DEF Located
<1>2. \A q \in Located(addr, bytes) : \E k \in 1 .. n : q = <<Plus(addr, k - 1), bytes[k]>> BY DEF Located
<1>3. ASSUME NEW q \in Located(addr, bytes) PROVE q[1] \in Word
  <2>1. PICK k \in 1 .. n : q = <<Plus(addr, k - 1), bytes[k]>> BY <1>2
  <2>2. k - 1 \in Nat OBVIOUS
  <2>3. Plus(addr, k - 1) \in Word BY <2>2, PlusWord
  <2> QED BY <2>1, <2>3
<1> QED BY <1>1, <1>2, <1>3

(* The bytes of a data line that are read are those that it shows, and then those of the junk. *)
LEMMA DataLine ==
  ASSUME NEW line, Readable(line), line.kind = "data"
  PROVE  /\ BytesRead(line) \in Seq(Byte) /\ line.bytes \in Seq(Byte) /\ line.addr \in Word
         /\ Len(line.bytes) \in Nat /\ Len(line.bytes) <= Len(BytesRead(line)) /\ Len(BytesRead(line)) <= 20
         /\ \A k \in 1 .. Len(line.bytes) : BytesRead(line)[k] = line.bytes[k]
<1>1. /\ line.addr \in Word /\ line.bytes \in Seq(Byte) /\ Len(line.bytes) <= 16
      /\ line.junk \in Seq(Byte) /\ Len(line.junk) <= 4
  BY DEF Readable
<1> DEFINE b == line.bytes
           j == line.junk
<1> HIDE DEF b, j
<1>2. b \in Seq(Byte) /\ j \in Seq(Byte) /\ Len(b) <= 16 /\ Len(j) <= 4 BY <1>1 DEF b, j
<1>3. /\ b \o j \in Seq(Byte) /\ Len(b) \in Nat /\ Len(j) \in Nat /\ Len(b \o j) = Len(b) + Len(j)
      /\ \A k \in 1 .. Len(b) : (b \o j)[k] = b[k]
  BY <1>2
<1>4. BytesRead(line) = b \/ BytesRead(line) = b \o j BY DEF BytesRead, b, j
<1>5. /\ BytesRead(line) \in Seq(Byte) /\ Len(b) <= Len(BytesRead(line)) /\ Len(BytesRead(line)) <= 20
      /\ \A k \in 1 .. Len(b) : BytesRead(line)[k] = b[k]
  <2>1. CASE BytesRead(line) = b
    <3>1. Len(b) <= Len(b) /\ Len(b) <= 20 BY <1>2, <1>3
    <3> QED BY <1>2, <2>1, <3>1
  <2>2. CASE BytesRead(line) = b \o j
    <3>1. Len(b) <= Len(b \o j) /\ Len(b \o j) <= 20 BY <1>2, <1>3
    <3> QED BY <1>3, <2>2, <3>1
  <2> QED BY <1>4, <2>1, <2>2
<1> QED BY <1>1, <1>3, <1>5 DEF b

(* What a line shows it stores, at addresses. *)
LEMMA ShownIsStored ==
  ASSUME NEW line, Readable(line)
  PROVE  /\ Shown(line) \subseteq Stored(line)
         /\ \A q \in Stored(line) : q[1] \in Word
<1>1. CASE line.kind = "data"
  <2> DEFINE N == Len(BytesRead(line))
             L == Len(line.bytes)
             all == Numbers(BytesRead(line))
             shown == Numbers(line.bytes)
  <2>1. Stored(line) = Located(line.addr, all) /\ Shown(line) = Located(line.addr, shown) BY <1>1 DEF Stored, Shown
  <2>2. /\ BytesRead(line) \in Seq(Byte) /\ line.bytes \in Seq(Byte) /\ line.addr \in Word
        /\ L \in Nat /\ L <= N
        /\ \A k \in 1 .. L : BytesRead(line)[k] = line.bytes[k]
    BY <1>1, DataLine
  <2>3. N \in Nat /\ DOMAIN BytesRead(line) = 1 .. N /\ DOMAIN line.bytes = 1 .. L BY <2>2
  <2>4. DOMAIN all = 1 .. N /\ \A k \in 1 .. N : all[k] = Natural(BytesRead(line)[k]) BY <2>3 DEF Numbers
  <2>5. DOMAIN shown = 1 .. L /\ \A k \in 1 .. L : shown[k] = Natural(line.bytes[k]) BY <2>3 DEF Numbers
  <2> HIDE DEF N, L, all, shown
  <2>6. ASSUME NEW p \in Located(line.addr, shown) PROVE p \in Located(line.addr, all)
    <3>1. PICK k \in 1 .. L : p = <<Plus(line.addr, k - 1), shown[k]>> BY <2>2, <2>5, LocatedIs
    <3>2. k \in 1 .. N BY <2>2, <2>3
    <3>3. shown[k] = all[k] BY <2>2, <2>4, <2>5, <3>2
    <3> QED BY <2>2, <2>3, <2>4, <3>1, <3>2, <3>3, LocatedIs
  <2>7. \A q \in Located(line.addr, all) : q[1] \in Word BY <2>2, <2>3, <2>4, LocatedIs
  <2> QED BY <2>1, <2>6, <2>7
<1>2. CASE line.kind = "insn"
  <2>1. Stored(line) = Located(line.addr, BytesOfWord(line.word)) /\ Shown(line) = Stored(line)
    BY <1>2 DEF Stored, Shown
  <2>2. line.addr \in Word /\ DOMAIN BytesOfWord(line.word) = 1 .. 4 BY <1>2 DEF Readable, BytesOfWord
  <2>3. \A q \in Located(line.addr, BytesOfWord(line.word)) : q[1] \in Word BY <2>2, LocatedIs
  <2> QED BY <2>1, <2>3
<1>3. CASE line.kind # "data" /\ line.kind # "insn" BY <1>3 DEF Stored, Shown
<1> QED BY <1>1, <1>2, <1>3

(* Reading a data line puts it into memory, *)
LEMMA DataPut ==
  ASSUME NEW line, Readable(line), line.kind = "data", NEW m, OfWords(m), NEW m2,
         m2 = WriteBytes(m, line.addr, BytesRead(line))
  PROVE  Puts(line, m, m2)
<1> DEFINE bytes == BytesRead(line)
           N == Len(bytes)
           all == Numbers(bytes)
           addr == line.addr
<1>1. Stored(line) = Located(addr, all) BY DEF Stored
<1>2. bytes \in Seq(Byte) /\ N <= 20 /\ addr \in Word BY DataLine
<1>3. N \in Nat /\ DOMAIN bytes = 1 .. N /\ N <= MaxNatural BY <1>2 DEF MaxNatural
<1>4. DOMAIN all = 1 .. N /\ \A k \in 1 .. N : all[k] = Natural(bytes[k]) BY <1>3 DEF Numbers
<1>5. m2 = WriteBytes(m, addr, bytes) OBVIOUS
<1> HIDE DEF bytes, all, addr
<1>6. /\ \A k \in 1 .. Len(bytes) : memory_rd_b(m2, Plus(addr, k - 1)) = Natural(bytes[k])
      /\ \A b \in Word : (\A k \in 1 .. Len(bytes) : b # Plus(addr, k - 1)) => memory_rd_b(m2, b) = memory_rd_b(m, b)
  BY <1>2, <1>3, <1>5, BytesStored
<1>7. /\ \A k \in 1 .. N : <<Plus(addr, k - 1), all[k]>> \in Located(addr, all)
      /\ \A q \in Located(addr, all) : \E k \in 1 .. N : q = <<Plus(addr, k - 1), all[k]>>
  BY <1>2, <1>3, <1>4, LocatedIs
<1>8. ASSUME NEW q \in Stored(line) PROVE memory_rd_b(m2, q[1]) = q[2]
  <2>1. PICK k \in 1 .. N : q = <<Plus(addr, k - 1), all[k]>> BY <1>1, <1>7
  <2> QED BY <1>4, <1>6, <2>1
<1>9. ASSUME NEW b \in Word, \A q \in Stored(line) : b # q[1] PROVE memory_rd_b(m2, b) = memory_rd_b(m, b)
  <2>1. \A k \in 1 .. N : b # Plus(addr, k - 1)
    <3> SUFFICES ASSUME NEW k \in 1 .. N PROVE b # Plus(addr, k - 1) OBVIOUS
    <3>1. <<Plus(addr, k - 1), all[k]>> \in Stored(line) BY <1>1, <1>7
    <3>2. b # <<Plus(addr, k - 1), all[k]>>[1] BY <1>9, <3>1
    <3> QED BY <3>2
  <2> QED BY <1>6, <2>1
<1> QED BY <1>8, <1>9 DEF Puts

(* and so does reading an instruction. *)
LEMMA InsnPut ==
  ASSUME NEW line, Readable(line), line.kind = "insn", NEW m, OfWords(m), NEW m2, WordAligned(line.addr),
         m2 = memory_wr_w(m, line.addr, line.word)
  PROVE  Puts(line, m, m2)
<1> DEFINE addr == line.addr
           word == line.word
           bytes == BytesOfWord(word)
<1>1. Stored(line) = Located(addr, bytes) BY DEF Stored
<1>2. addr \in Word /\ word \in Word BY DEF Readable
<1>3. DOMAIN bytes = 1 .. 4 /\ 4 \in Nat /\ \A k \in 1 .. 4 : bytes[k] = Extract(word, 8 * (k - 1), 8) BY DEF BytesOfWord
<1>4. m2 = memory_wr_w(m, addr, word) /\ WordAligned(addr) OBVIOUS
<1> HIDE DEF addr, word, bytes
<1>5. /\ \A k \in 0 .. 3 : memory_rd_b(m2, Plus(addr, k)) = Extract(word, 8 * k, 8)
      /\ \A b \in Word : (\A k \in 0 .. 3 : b # Plus(addr, k)) => memory_rd_b(m2, b) = memory_rd_b(m, b)
  BY <1>2, <1>4, WordWritten
<1>6. /\ \A k \in 1 .. 4 : <<Plus(addr, k - 1), bytes[k]>> \in Located(addr, bytes)
      /\ \A q \in Located(addr, bytes) : \E k \in 1 .. 4 : q = <<Plus(addr, k - 1), bytes[k]>>
  <2> DEFINE N == 4
  <2>1. N \in Nat /\ DOMAIN bytes = 1 .. N BY <1>3
  <2> HIDE DEF N
  <2>2. /\ \A k \in 1 .. N : <<Plus(addr, k - 1), bytes[k]>> \in Located(addr, bytes)
        /\ \A q \in Located(addr, bytes) : \E k \in 1 .. N : q = <<Plus(addr, k - 1), bytes[k]>>
    BY <1>2, <2>1, LocatedIs
  <2> QED BY <2>2 DEF N
<1>7. ASSUME NEW q \in Stored(line) PROVE memory_rd_b(m2, q[1]) = q[2]
  <2>1. PICK k \in 1 .. 4 : q = <<Plus(addr, k - 1), bytes[k]>> BY <1>1, <1>6
  <2> DEFINE j == k - 1
  <2>2. j \in 0 .. 3 OBVIOUS
  <2>3. q[1] = Plus(addr, j) /\ q[2] = Extract(word, 8 * j, 8) BY <1>3, <2>1
  <2> HIDE DEF j
  <2> QED BY <1>5, <2>2, <2>3
<1>8. ASSUME NEW b \in Word, \A q \in Stored(line) : b # q[1] PROVE memory_rd_b(m2, b) = memory_rd_b(m, b)
  <2>1. \A k \in 0 .. 3 : b # Plus(addr, k)
    <3> SUFFICES ASSUME NEW k \in 0 .. 3 PROVE b # Plus(addr, k) OBVIOUS
    <3>1. k + 1 \in 1 .. 4 /\ k + 1 - 1 = k OBVIOUS
    <3>2. <<Plus(addr, k), bytes[k + 1]>> \in Stored(line) BY <1>1, <1>6, <3>1
    <3>3. b # <<Plus(addr, k), bytes[k + 1]>>[1] BY <1>8, <3>2
    <3> QED BY <3>3
  <2> QED BY <1>5, <2>1
<1> QED BY <1>7, <1>8 DEF Puts

\* What the first lines of an input, so many, have left in memory and in the assembly table.
Loaded(i, done, m, table) ==
  LET args == ProgramArgs(i.argv)
      storing == Storing(i.listing)
  IN /\ \A n \in 1 .. done : \A p \in Shown(i.listing[n]) : Lasting(storing, n, p) => memory_rd_b(m, p[1]) = p[2]
     /\ \A n \in 1 .. done :
          LET line == i.listing[n]
          IN line.kind = "insn" => /\ WordAligned(line.addr) /\ line.addr \in DOMAIN table
                                   /\ LastText(i.listing, n) => table[line.addr] = line.text
     /\ args # <<>> /\ Apart(storing, args) =>
          \A b \in ArgsArea(args) : memory_rd_b(m, b) = memory_rd_b(WriteArgs(NoWords, args), b)

(* A line leaves alone what a line before it shows, if that is not replaced, *)
LEMMA LastingKept ==
  ASSUME NEW listing, NEW n, NEW p, Lasting(Storing(listing), n, p),
         NEW m \in DOMAIN listing, n < m, NEW q \in Stored(listing[m]), p[1] = q[1]
  PROVE  p[2] = q[2]
<1> DEFINE storing == Storing(listing)
           t == <<m, q[1], q[2]>>
<1>1. t \in storing BY DEF Storing
<1>2. n < t[1] /\ p[1] = t[2] OBVIOUS
<1>3. p[2] = t[3]
  <2> HIDE DEF storing, t
  <2>1. Lasting(storing, n, p) BY DEF storing
  <2> QED BY <1>1, <1>2, <2>1 DEF Lasting
<1> QED BY <1>3

(* and the arguments, if it is not for where they are. *)
LEMMA ApartKept ==
  ASSUME NEW listing, NEW args, Apart(Storing(listing), args), NEW m \in DOMAIN listing, NEW q \in Stored(listing[m])
  PROVE  q[1] \notin ArgsArea(args)
<1> DEFINE storing == Storing(listing)
           t == <<m, q[1], q[2]>>
<1>1. t \in storing BY DEF Storing
<1>2. t[2] \notin ArgsArea(args)
  <2> HIDE DEF storing, t
  <2>1. Apart(storing, args) BY DEF storing
  <2> QED BY <1>1, <2>1 DEF Apart
<1> QED BY <1>2

(* The empty memory holds words. *)
LEMMA NoWordsAre == OfWords(NoWords)
<1>1. DOMAIN NoWords = {} /\ NoWords = [p \in {} |-> Zero] BY DEF NoWords
<1> QED BY <1>1 DEF OfWords

(* The addresses of the arguments are words. *)
LEMMA AreaWords ==
  ASSUME NEW args \in Seq(Seq(Byte)), args # <<>> PROVE \A b \in ArgsArea(args) : b \in Word
<1>1. ArgsEnd(args) \in Nat
  <2>1. args \in Seq(Seq(Nat)) BY BytesAreNumbers
  <2> QED BY <2>1, AddressesApart
<1>2. count_addr \in Nat BY DEF count_addr
<1>3. \A x \in count_addr .. ArgsEnd(args) - 1 : x \in Nat BY <1>1, <1>2
<1> QED BY <1>3, NaturalIs DEF ArgsArea

\* The assembly table with one more line.
Extended(table, a, t) == [x \in DOMAIN table \cup {a} |-> IF x = a THEN t ELSE table[x]]

(* Another line put into memory. *)
LEMMA LoadedNext ==
  ASSUME NEW i \in Inputs, NEW d \in Nat, d + 1 \in DOMAIN i.listing, NEW line, line = i.listing[d + 1],
         NEW m, NEW table, Loaded(i, d, m, table), NEW m2, Puts(line, m, m2), NEW table2,
         \/ line.kind # "insn" /\ table2 = table
         \/ line.kind = "insn" /\ WordAligned(line.addr) /\ table2 = Extended(table, line.addr, line.text)
  PROVE  Loaded(i, d + 1, m2, table2)
<1> DEFINE args == ProgramArgs(i.argv)
           listing == i.listing
           c == d + 1
           first == WriteArgs(NoWords, args)
<1>1. i.argv \in Seq(Seq(Byte)) /\ (\A n \in DOMAIN listing : Readable(listing[n])) /\ \E L : listing \in Seq(L)
  BY InputsAssumption
<1>2. args \in Seq(Seq(Byte)) BY <1>1, ArgsAreStrings
<1>3. Len(listing) \in Nat /\ DOMAIN listing = 1 .. Len(listing) BY <1>1
<1>4. c \in DOMAIN listing /\ c \in Nat /\ (\A n \in 1 .. d : n \in DOMAIN listing /\ n < c)
      /\ \A n \in 1 .. c : n \in 1 .. d \/ n = c
  BY <1>3
<1>6. Loaded(i, d, m, table) OBVIOUS
<1> DEFINE storing == Storing(listing)
<1>7. /\ \A n \in 1 .. d : \A p \in Shown(listing[n]) : Lasting(storing, n, p) => memory_rd_b(m, p[1]) = p[2]
      /\ \A n \in 1 .. d : listing[n].kind = "insn" => /\ WordAligned(listing[n].addr)
                                                       /\ listing[n].addr \in DOMAIN table
                                                       /\ LastText(listing, n) => table[listing[n].addr] = listing[n].text
      /\ args # <<>> /\ Apart(storing, args) => \A b \in ArgsArea(args) : memory_rd_b(m, b) = memory_rd_b(first, b)
  BY <1>6 DEF Loaded
<1>9. line = listing[c] OBVIOUS
<1> HIDE DEF args, listing, c, first, storing
<1>8. /\ \A q \in Stored(line) : memory_rd_b(m2, q[1]) = q[2]
      /\ \A b \in Word : (\A q \in Stored(line) : b # q[1]) => memory_rd_b(m2, b) = memory_rd_b(m, b)
  BY DEF Puts
<1>10. ASSUME NEW n \in 1 .. c, NEW p \in Shown(listing[n]), Lasting(storing, n, p) PROVE memory_rd_b(m2, p[1]) = p[2]
  <2>1. CASE n = c
    <3>1. p \in Stored(line) BY <1>1, <1>4, <1>9, <2>1, ShownIsStored
    <3> QED BY <1>8, <3>1
  <2>2. CASE n \in 1 .. d
    <3>1. n \in DOMAIN listing /\ n < c BY <1>4, <2>2
    <3>2. p[1] \in Word BY <1>1, <3>1, ShownIsStored
    <3>3. CASE \E q \in Stored(line) : p[1] = q[1]
      <4>1. PICK q \in Stored(line) : p[1] = q[1] BY <3>3
      <4>2. p[2] = q[2] BY <1>4, <1>9, <1>10, <3>1, <4>1, LastingKept DEF storing
      <4> QED BY <1>8, <4>1, <4>2
    <3>4. CASE \A q \in Stored(line) : p[1] # q[1]
      <4>1. memory_rd_b(m2, p[1]) = memory_rd_b(m, p[1]) BY <1>8, <3>2, <3>4
      <4> QED BY <1>7, <1>10, <2>2, <4>1
    <3> QED BY <3>3, <3>4
  <2> QED BY <1>4, <2>1, <2>2
<1>11. ASSUME NEW n \in 1 .. c, listing[n].kind = "insn"
       PROVE  /\ WordAligned(listing[n].addr) /\ listing[n].addr \in DOMAIN table2
              /\ LastText(listing, n) => table2[listing[n].addr] = listing[n].text
  <2>1. CASE line.kind # "insn"
    <3>1. n \in 1 .. d /\ table2 = table BY <1>4, <1>9, <1>11, <2>1
    <3> QED BY <1>7, <1>11, <3>1
  <2>2. CASE line.kind = "insn"
    <3> DEFINE a == line.addr
               t == line.text
    <3>1. WordAligned(a) /\ table2 = [x \in DOMAIN table \cup {a} |-> IF x = a THEN t ELSE table[x]] BY <2>2 DEF Extended
    <3>2. n = c => listing[n].addr = a /\ listing[n].text = t BY <1>9
    <3>3. ASSUME n \in 1 .. d, listing[n].addr = a, LastText(listing, n) PROVE listing[n].text = t
      <4>1. n < c /\ c \in {k \in DOMAIN listing : listing[k].kind = "insn"} BY <1>4, <1>9, <2>2, <3>3
      <4>2. listing[n].addr = listing[c].addr BY <1>9, <3>3
      <4>3. listing[n].text = listing[c].text
        <5>1. LastText(listing, n) BY <3>3
        <5> HIDE DEF a, t
        <5> QED BY <4>1, <4>2, <5>1 DEF LastText
      <4> QED BY <1>9, <4>3
    <3> HIDE DEF a, t
    <3>4. a \in DOMAIN table2 /\ table2[a] = t BY <3>1
    <3>5. \A x \in DOMAIN table : x # a => x \in DOMAIN table2 /\ table2[x] = table[x] BY <3>1
    <3>6. CASE listing[n].addr = a
      <4>1. LastText(listing, n) => listing[n].text = t BY <1>4, <3>2, <3>3, <3>6
      <4> QED BY <3>1, <3>4, <3>6, <4>1
    <3>7. CASE listing[n].addr # a
      <4>1. n \in 1 .. d BY <1>4, <3>2, <3>7
      <4>2. /\ WordAligned(listing[n].addr) /\ listing[n].addr \in DOMAIN table
            /\ LastText(listing, n) => table[listing[n].addr] = listing[n].text
        BY <1>7, <1>11, <4>1
      <4> QED BY <3>5, <3>7, <4>2
    <3> QED BY <3>6, <3>7
  <2> QED BY <2>1, <2>2
<1>12. ASSUME args # <<>>, Apart(storing, args), NEW b \in ArgsArea(args) PROVE memory_rd_b(m2, b) = memory_rd_b(first, b)
  <2>1. b \in Word BY <1>2, <1>12, AreaWords
  <2>2. \A q \in Stored(line) : b # q[1] BY <1>4, <1>9, <1>12, ApartKept DEF storing
  <2> QED BY <1>7, <1>8, <1>12, <2>1, <2>2
<1>13. /\ \A n \in 1 .. c : \A p \in Shown(listing[n]) : Lasting(storing, n, p) => memory_rd_b(m2, p[1]) = p[2]
       /\ \A n \in 1 .. c : listing[n].kind = "insn" => /\ WordAligned(listing[n].addr)
                                                        /\ listing[n].addr \in DOMAIN table2
                                                        /\ LastText(listing, n) => table2[listing[n].addr] = listing[n].text
       /\ args # <<>> /\ Apart(storing, args) => \A b \in ArgsArea(args) : memory_rd_b(m2, b) = memory_rd_b(first, b)
  BY <1>10, <1>11, <1>12
<1> QED BY <1>13 DEF Loaded, args, listing, first, storing, c

(* What the whole listing has left is what MemoryReady says. *)
LEMMA LoadedReady ==
  ASSUME NEW i \in Inputs, NEW m, OfWords(m), NEW table, Loaded(i, Len(i.listing), m, table)
  PROVE  /\ \A n \in 1 .. Len(i.listing) : i.listing[n].kind = "insn" =>
              /\ (\A p \in Stored(i.listing[n]) : Lasting(Storing(i.listing), n, p))
                 => memory_rd_w(m, i.listing[n].addr) = i.listing[n].word
              /\ LastText(i.listing, n) => table[i.listing[n].addr] = i.listing[n].text
         /\ \A n \in 1 .. Len(i.listing) : i.listing[n].kind = "data" =>
              \A k \in 1 .. Len(i.listing[n].bytes) :
                Lasting(Storing(i.listing), n, <<Plus(i.listing[n].addr, k - 1), Natural(i.listing[n].bytes[k])>>)
                => memory_rd_b(m, Plus(i.listing[n].addr, k - 1)) = Natural(i.listing[n].bytes[k])
         /\ LET args == ProgramArgs(i.argv)
            IN args # <<>> /\ Apart(Storing(i.listing), args) =>
                 /\ memory_rd_w(m, Natural(count_addr)) = Natural(Len(args))
                 /\ \A n \in 1 .. Len(args) :
                      /\ memory_rd_w(m, Natural(argv_addr + 4 * (n - 1))) = Natural(str_addr(args, n))
                      /\ \A k \in 1 .. Len(args[n]) + 1 :
                           memory_rd_b(m, Plus(Natural(str_addr(args, n)), k - 1))
                           = Natural(IF k <= Len(args[n]) THEN args[n][k] ELSE 0)
<1> DEFINE args == ProgramArgs(i.argv)
           listing == i.listing
           N == Len(listing)
<1>1. i.argv \in Seq(Seq(Byte)) /\ (\A n \in DOMAIN listing : Readable(listing[n])) /\ \E L : listing \in Seq(L)
  BY InputsAssumption
<1>2. args \in Seq(Seq(Byte)) BY <1>1, ArgsAreStrings
<1>3. DOMAIN listing = 1 .. N BY <1>1
<1> DEFINE storing == Storing(listing)
<1>5. /\ \A n \in 1 .. N : \A p \in Shown(listing[n]) : Lasting(storing, n, p) => memory_rd_b(m, p[1]) = p[2]
      /\ \A n \in 1 .. N : listing[n].kind = "insn" =>
           WordAligned(listing[n].addr) /\ (LastText(listing, n) => table[listing[n].addr] = listing[n].text)
      /\ args # <<>> /\ Apart(storing, args) => \A b \in ArgsArea(args) : memory_rd_b(m, b) = memory_rd_b(WriteArgs(NoWords, args), b)
  BY DEF Loaded
<1> HIDE DEF args, listing, N, storing
<1>6. ASSUME NEW n \in 1 .. N, listing[n].kind = "insn", \A p \in Stored(listing[n]) : Lasting(storing, n, p)
      PROVE  memory_rd_w(m, listing[n].addr) = listing[n].word
  <2> DEFINE line == listing[n]
             addr == line.addr
             word == line.word
             bytes == BytesOfWord(word)
  <2>1. Readable(line) /\ line.kind = "insn" BY <1>1, <1>3, <1>6
  <2>2. addr \in Word /\ word \in Word /\ WordAligned(addr) BY <1>5, <1>6, <2>1 DEF Readable
  <2>3. Shown(line) = Located(addr, bytes) /\ Shown(line) = Stored(line) BY <2>1 DEF Shown, Stored
  <2>4. DOMAIN bytes = 1 .. 4 /\ \A k \in 1 .. 4 : bytes[k] = Extract(word, 8 * (k - 1), 8) BY DEF BytesOfWord
  <2>5. \A p \in Shown(line) : memory_rd_b(m, p[1]) = p[2] BY <1>5, <1>6, <2>3
  <2> HIDE DEF line, addr, word, bytes
  <2>6. \A k \in 0 .. 3 : memory_rd_b(m, Plus(addr, k)) = Extract(word, 8 * k, 8)
    <3> SUFFICES ASSUME NEW k \in 0 .. 3 PROVE memory_rd_b(m, Plus(addr, k)) = Extract(word, 8 * k, 8) OBVIOUS
    <3>1. k + 1 \in 1 .. 4 /\ k + 1 - 1 = k OBVIOUS
    <3> DEFINE p == <<Plus(addr, k), bytes[k + 1]>>
    <3>2. p \in Located(addr, bytes)
      <4> DEFINE j == k + 1
      <4>1. j \in DOMAIN bytes /\ j - 1 = k BY <2>4, <3>1
      <4>2. p = <<Plus(addr, j - 1), bytes[j]>> BY <4>1
      <4> HIDE DEF j, p
      <4> QED BY <4>1, <4>2 DEF Located
    <3>3. memory_rd_b(m, p[1]) = p[2]
      <4> HIDE DEF p
      <4> QED BY <2>3, <2>5, <3>2
    <3>4. memory_rd_b(m, Plus(addr, k)) = bytes[k + 1] BY <3>3
    <3> DEFINE j == k + 1
    <3>5. j \in 1 .. 4 /\ j - 1 = k BY <3>1
    <3> HIDE DEF j
    <3>6. bytes[j] = Extract(word, 8 * k, 8) BY <2>4, <3>5
    <3> QED BY <3>4, <3>6 DEF j
  <2>7. memory_rd_w(m, addr) = word BY <2>2, <2>6, WordOfBytes
  <2> QED BY <2>2, <2>7 DEF line, addr, word
<1>7. ASSUME NEW n \in 1 .. N, listing[n].kind = "data", NEW k \in 1 .. Len(listing[n].bytes),
             Lasting(storing, n, <<Plus(listing[n].addr, k - 1), Natural(listing[n].bytes[k])>>)
      PROVE  memory_rd_b(m, Plus(listing[n].addr, k - 1)) = Natural(listing[n].bytes[k])
  <2> DEFINE line == listing[n]
             addr == line.addr
             bytes == line.bytes
             shown == Numbers(bytes)
             p == <<Plus(addr, k - 1), shown[k]>>
  <2>1. Readable(line) /\ line.kind = "data" BY <1>1, <1>3, <1>7
  <2>2. addr \in Word /\ bytes \in Seq(Byte) BY <2>1, DataLine
  <2>3. k \in DOMAIN bytes BY <2>2
  <2>4. k \in DOMAIN shown /\ shown[k] = Natural(bytes[k]) BY <2>3 DEF Numbers
  <2>5. Shown(line) = Located(addr, shown) BY <2>1 DEF Shown
  <2>6. p \in Shown(line) BY <2>4, <2>5 DEF Located
  <2>7. Lasting(storing, n, p) BY <1>7, <2>4
  <2>8. memory_rd_b(m, p[1]) = p[2]
    <3> HIDE DEF p
    <3> QED BY <1>5, <2>6, <2>7
  <2> QED BY <2>4, <2>8
<1>8. ASSUME args # <<>>, Apart(storing, args)
      PROVE  /\ memory_rd_w(m, Natural(count_addr)) = Natural(Len(args))
             /\ \A n \in 1 .. Len(args) :
                  /\ memory_rd_w(m, Natural(argv_addr + 4 * (n - 1))) = Natural(str_addr(args, n))
                  /\ \A k \in 1 .. Len(args[n]) + 1 :
                       memory_rd_b(m, Plus(Natural(str_addr(args, n)), k - 1))
                       = Natural(IF k <= Len(args[n]) THEN args[n][k] ELSE 0)
  <2>1. ArgsEnd(args) <= MaxNatural BY <1>8 DEF Apart
  <2>2. OfWords(NoWords) BY NoWordsAre
  <2>3. \A b \in ArgsArea(args) : memory_rd_b(m, b) = memory_rd_b(WriteArgs(NoWords, args), b) BY <1>5, <1>8
  <2> QED BY <1>2, <1>8, <2>1, <2>2, <2>3, ArgsRead
<1> QED BY <1>5, <1>6, <1>7, <1>8 DEF args, listing, N, storing

\* What main has done before the first instruction: so far the lines before rest have been read.
LoadedSoFar ==
  \E done \in Nat : /\ Len(input.listing) = done + Len(rest)
                    /\ \A k \in 1 .. Len(rest) : rest[k] = input.listing[done + k]
                    /\ Loaded(input, done, mem, text)
Loading == /\ phase \in {"starting", "opening"} => rest = input.listing
           /\ phase = "starting" => mem = NoWords
           /\ phase = "opening" =>
                mem = IF ProgramArgs(input.argv) # <<>> THEN WriteArgs(NoWords, ProgramArgs(input.argv)) ELSE NoWords
           /\ phase = "loading" => LoadedSoFar

(* At first no line has been read. *)
LEMMA LoadingStarts == Init => Loading
BY DEF Init, LoaderInit, Loading

(* A line that is read is the next one. *)
LEMMA NextLineIs ==
  ASSUME TypeOK, Loading, NEW kind, NextLine(kind), UNCHANGED input
  PROVE  \E done \in Nat :
           /\ Len(input.listing) = done + 1 + Len(rest')
           /\ \A k \in 1 .. Len(rest') : rest'[k] = input.listing[done + 1 + k]
           /\ done + 1 \in DOMAIN input.listing /\ Head(rest) = input.listing[done + 1]
           /\ Loaded(input, done, mem, text)
<1>1. phase = "loading" /\ rest # <<>> /\ rest' = Tail(rest) /\ rest \in Seq(Lines) BY DEF NextLine, TypeOK
<1>2. PICK done \in Nat : /\ Len(input.listing) = done + Len(rest)
                          /\ \A k \in 1 .. Len(rest) : rest[k] = input.listing[done + k]
                          /\ Loaded(input, done, mem, text)
  BY <1>1 DEF Loading, LoadedSoFar
<1>3. \E L : input.listing \in Seq(L) BY InputsAssumption DEF TypeOK
<1> DEFINE N == Len(rest)
<1>4. /\ N \in Nat /\ N >= 1 /\ Head(rest) = rest[1] /\ Len(Tail(rest)) = N - 1
      /\ \A k \in 1 .. N - 1 : Tail(rest)[k] = rest[k + 1]
  <2> HIDE DEF Lines
  <2> QED BY <1>1
<1> HIDE DEF N
<1>5. \A k \in 1 .. N : rest[k] = input.listing[done + k] BY <1>2 DEF N
<1>6. Len(input.listing) = done + N BY <1>2 DEF N
<1>7. Len(rest') = N - 1 BY <1>1, <1>4
<1>8. Len(input.listing) = done + 1 + Len(rest') BY <1>4, <1>6, <1>7
<1>9. done + 1 \in DOMAIN input.listing
  <2>1. DOMAIN input.listing = 1 .. Len(input.listing) BY <1>3
  <2> QED BY <1>4, <1>6, <2>1
<1>10. Head(rest) = input.listing[done + 1] BY <1>4, <1>5
<1>11. ASSUME NEW k \in 1 .. Len(rest') PROVE rest'[k] = input.listing[done + 1 + k]
  <2>1. k \in 1 .. N - 1 /\ k + 1 \in 1 .. N /\ done + (k + 1) = done + 1 + k BY <1>4, <1>7
  <2>2. rest'[k] = rest[k + 1] BY <1>1, <1>4, <2>1
  <2>3. rest[k + 1] = input.listing[done + (k + 1)] BY <1>5, <2>1
  <2> QED BY <2>1, <2>2, <2>3
<1> QED BY <1>2, <1>8, <1>9, <1>10, <1>11

(* When it has been put into memory, one more has been read. *)
LEMMA LineLoaded ==
  ASSUME TypeOK, Loading, NEW kind, NextLine(kind), UNCHANGED input, phase' = "loading",
         Puts(Head(rest), mem, mem'),
         \/ kind # "insn" /\ text' = text
         \/ /\ kind = "insn" /\ WordAligned(Head(rest).addr)
            /\ text' = [a \in DOMAIN text \cup {Head(rest).addr} |-> IF a = Head(rest).addr THEN Head(rest).text ELSE text[a]]
  PROVE  Loading'
<1>1. PICK done \in Nat :
        /\ Len(input.listing) = done + 1 + Len(rest')
        /\ \A k \in 1 .. Len(rest') : rest'[k] = input.listing[done + 1 + k]
        /\ done + 1 \in DOMAIN input.listing /\ Head(rest) = input.listing[done + 1]
        /\ Loaded(input, done, mem, text)
  BY NextLineIs
<1>2. Head(rest).kind = kind BY DEF NextLine
<1>3. input \in Inputs BY DEF TypeOK
<1> DEFINE line == Head(rest)
<1>4. Loaded(input, done + 1, mem', text')
  <2>1. Puts(line, mem, mem') OBVIOUS
  <2>2. \/ line.kind # "insn" /\ text' = text
        \/ line.kind = "insn" /\ WordAligned(line.addr) /\ text' = Extended(text, line.addr, line.text)
    BY <1>2 DEF Extended
  <2>3. line = input.listing[done + 1] BY <1>1
  <2> DEFINE m2 == mem'
             t2 == text'
             i == input
  <2>4. Puts(line, mem, m2) /\ line = i.listing[done + 1] /\ done + 1 \in DOMAIN i.listing /\ i \in Inputs
        /\ Loaded(i, done, mem, text)
    BY <1>1, <1>3, <2>1, <2>3
  <2>5. \/ line.kind # "insn" /\ t2 = text
        \/ line.kind = "insn" /\ WordAligned(line.addr) /\ t2 = Extended(text, line.addr, line.text)
    BY <2>2
  <2> HIDE DEF line, m2, t2, i
  <2>6. Loaded(i, done + 1, m2, t2) BY <2>4, <2>5, LoadedNext
  <2> QED BY <2>6 DEF m2, t2, i
<1>5. done + 1 \in Nat OBVIOUS
<1>6. LoadedSoFar' BY <1>1, <1>4, <1>5 DEF LoadedSoFar
<1> QED BY <1>6 DEF Loading

(* Entries and other lines put nothing. *)
LEMMA NothingPut ==
  ASSUME NEW line, line.kind # "data", line.kind # "insn", NEW m PROVE Puts(line, m, m)
<1>1. Stored(line) = {} BY DEF Stored
<1> QED BY <1>1 DEF Puts

(* The loader's steps keep this, *)
LEMMA LoadingGoesOn ==
  ASSUME TypeOK, Loading, LoaderNext PROVE Loading'
<1>0. OfWords(mem) /\ input \in Inputs BY DEF TypeOK
<1>1. CASE PassArgs
  <2>1. phase = "starting" /\ UNCHANGED <<input, rest, text, start>> /\ phase' \in {"opening", "failed"} BY <1>1 DEF PassArgs
  <2>2. mem' = IF ProgramArgs(input.argv) # <<>> THEN WriteArgs(mem, ProgramArgs(input.argv)) ELSE mem BY <1>1 DEF PassArgs
  <2>3. mem = NoWords /\ rest = input.listing BY <2>1 DEF Loading
  <2> QED BY <2>1, <2>2, <2>3 DEF Loading
<1>2. CASE OpenListing
  <2>1. phase = "opening" /\ phase' \in {"loading", "failed"} /\ UNCHANGED <<input, rest, mem, text, start>>
    BY <1>2 DEF OpenListing
  <2>2. CASE phase' = "failed" BY <2>2 DEF Loading
  <2>3. CASE phase' = "loading"
    <3> DEFINE args == ProgramArgs(input.argv)
    <3>1. mem = IF args # <<>> THEN WriteArgs(NoWords, args) ELSE NoWords BY <2>1 DEF Loading
    <3>2. rest = input.listing BY <2>1 DEF Loading
    <3>3. Loaded(input, 0, mem, text)
      <4>1. \A n \in 1 .. 0 : FALSE OBVIOUS
      <4> QED BY <3>1, <4>1 DEF Loaded
    <3>4. /\ Len(input.listing) = 0 + Len(rest)
          /\ \A k \in 1 .. Len(rest) : rest[k] = input.listing[0 + k]
      <4>1. \E L : input.listing \in Seq(L) BY <1>0, InputsAssumption
      <4>2. Len(rest) \in Nat BY <3>2, <4>1
      <4>3. \A k \in 1 .. Len(rest) : 0 + k = k BY <4>2
      <4> QED BY <3>2, <4>2, <4>3
    <3>5. 0 \in Nat OBVIOUS
    <3>6. LoadedSoFar BY <3>3, <3>4, <3>5 DEF LoadedSoFar
    <3>7. LoadedSoFar' BY <2>1, <3>6 DEF LoadedSoFar
    <3> QED BY <2>3, <3>7 DEF Loading
  <2> QED BY <2>1, <2>2, <2>3
<1>3. CASE ReadData
  <2>1. NextLine("data") /\ UNCHANGED <<phase, input, text, start>>
        /\ mem' = WriteBytes(mem, Head(rest).addr, BytesRead(Head(rest)))
    BY <1>3 DEF ReadData
  <2>2. Readable(Head(rest)) /\ Head(rest).kind = "data" BY <2>1, LineIs
  <2>3. Puts(Head(rest), mem, mem') BY <1>0, <2>1, <2>2, DataPut
  <2>4. phase' = "loading" BY <2>1 DEF NextLine
  <2> QED BY <2>1, <2>3, <2>4, LineLoaded
<1>4. CASE ReadInsn
  <2> DEFINE line == Head(rest)
  <2>1. NextLine("insn") /\ UNCHANGED <<input, start>> BY <1>4 DEF ReadInsn
  <2>2. Readable(line) /\ line.kind = "insn" BY <2>1, LineIs
  <2>3. CASE ~ WordAligned(line.addr)
    <3>1. phase' = "failed" BY <1>4, <2>3 DEF ReadInsn
    <3> QED BY <3>1 DEF Loading
  <2>4. CASE WordAligned(line.addr)
    <3>1. /\ mem' = memory_wr_w(mem, line.addr, line.word)
          /\ text' = [a \in DOMAIN text \cup {line.addr} |-> IF a = line.addr THEN line.text ELSE text[a]]
          /\ UNCHANGED phase
      BY <1>4, <2>4 DEF ReadInsn
    <3>2. Puts(line, mem, mem')
      <4> HIDE DEF line
      <4> QED BY <1>0, <2>2, <2>4, <3>1, InsnPut
    <3>3. phase' = "loading" BY <2>1, <3>1 DEF NextLine
    <3> QED BY <2>1, <2>4, <3>1, <3>2, <3>3, LineLoaded
  <2> QED BY <2>3, <2>4
<1>5. CASE ReadEntry
  <2>1. NextLine("entry") /\ UNCHANGED <<phase, input, mem, text>> BY <1>5 DEF ReadEntry
  <2>2. Head(rest).kind = "entry" /\ phase' = "loading" BY <2>1 DEF NextLine
  <2>3. Puts(Head(rest), mem, mem') BY <2>1, <2>2, NothingPut
  <2> QED BY <2>1, <2>2, <2>3, LineLoaded
<1>6. CASE ReadOther
  <2>1. NextLine("other") /\ UNCHANGED <<phase, input, mem, text, start>> BY <1>6 DEF ReadOther
  <2>2. Head(rest).kind = "other" /\ phase' = "loading" BY <2>1 DEF NextLine
  <2>3. Puts(Head(rest), mem, mem') BY <2>1, <2>2, NothingPut
  <2> QED BY <2>1, <2>2, <2>3, LineLoaded
<1> QED BY <1>1, <1>2, <1>3, <1>4, <1>5, <1>6 DEF LoaderNext

(* and no instruction goes back to loading. *)
LEMMA InstructionsRun ==
  ASSUME Next PROVE (LoaderNext /\ UNCHANGED <<reg, PC>>) \/ UNCHANGED vars
                    \/ phase' \notin {"starting", "opening", "loading"}
<1> DEFINE Runs == phase' \notin {"starting", "opening", "loading"}
<1>1. ASSUME NEW how \in {"exited", "failed", "killed"}, Dies(how) PROVE Runs BY <1>1 DEF Dies
<1>2. ASSUME NEW ops, NEW ins \in Fetched(ops), KeepsRunning PROVE Runs BY <1>2 DEF Fetched, Executing, KeepsRunning
<1>3. CASE Begin BY <1>3 DEF Begin, FinishLoading
<1>4. CASE Register BY <1>2, <1>4 DEF Register
<1>5. CASE RegisterTrap BY <1>1, <1>5 DEF RegisterTrap
<1>6. CASE Immediate BY <1>2, <1>6 DEF Immediate
<1>7. CASE Load BY <1>1, <1>2, <1>7 DEF Load
<1>8. CASE Store BY <1>1, <1>2, <1>8 DEF Store
<1>9. CASE Branch BY <1>2, <1>9 DEF Branch
<1>10. CASE Jal BY <1>2, <1>10 DEF Jal
<1>11. CASE Jalr BY <1>2, <1>11 DEF Jalr
<1>12. CASE Lui \/ Auipc BY <1>2, <1>12 DEF Lui, Auipc
<1>13. CASE Ecall BY <1>1, <1>2, <1>13 DEF Ecall
<1>14. CASE Unknown BY <1>14 DEF Unknown
<1>15. CASE FetchUnaligned BY <1>1, <1>15 DEF FetchUnaligned
<1> QED BY <1>3, <1>4, <1>5, <1>6, <1>7, <1>8, <1>9, <1>10, <1>11, <1>12, <1>13, <1>14, <1>15 DEF Next

(* What has been read when there is no more to read is what MemoryReady asks for. *)
LEMMA ReadyAtEnd == TypeOK /\ Loading => MemoryReady
<1> DEFINE listing == input.listing
           storing == Storing(listing)
           args == ProgramArgs(input.argv)
           shows(n, k) == <<Plus(listing[n].addr, k - 1), Natural(listing[n].bytes[k])>>
<1> SUFFICES ASSUME TypeOK, Loading, phase = "loading", rest = <<>>
             PROVE  /\ \A n \in ListedWords :
                         /\ (\A p \in Stored(listing[n]) : Lasting(storing, n, p))
                            => memory_rd_w(mem, listing[n].addr) = listing[n].word
                         /\ LastText(listing, n) => text[listing[n].addr] = listing[n].text
                    /\ \A nk \in ListedBytes :
                         Lasting(storing, nk[1], shows(nk[1], nk[2]))
                         => ByteIn(Plus(listing[nk[1]].addr, nk[2] - 1)) = Natural(listing[nk[1]].bytes[nk[2]])
                    /\ args # <<>> /\ Apart(storing, args) => ArgsPassed
  BY DEF MemoryReady
<1>1. input \in Inputs /\ OfWords(mem) BY DEF TypeOK
<1>2. PICK done \in Nat : Len(listing) = done + Len(rest) /\ Loaded(input, done, mem, text) BY DEF Loading, LoadedSoFar
<1>3. done = Len(listing)
  <2>1. Len(rest) = 0 OBVIOUS
  <2> QED BY <1>2, <2>1
<1>4. /\ \A n \in 1 .. Len(listing) : listing[n].kind = "insn" =>
              /\ (\A p \in Stored(listing[n]) : Lasting(storing, n, p))
                 => memory_rd_w(mem, listing[n].addr) = listing[n].word
              /\ LastText(listing, n) => text[listing[n].addr] = listing[n].text
      /\ \A n \in 1 .. Len(listing) : listing[n].kind = "data" =>
              \A k \in 1 .. Len(listing[n].bytes) :
                Lasting(storing, n, shows(n, k))
                => memory_rd_b(mem, Plus(listing[n].addr, k - 1)) = Natural(listing[n].bytes[k])
      /\ args # <<>> /\ Apart(storing, args) =>
           /\ memory_rd_w(mem, Natural(count_addr)) = Natural(Len(args))
           /\ \A n \in 1 .. Len(args) :
                /\ memory_rd_w(mem, Natural(argv_addr + 4 * (n - 1))) = Natural(str_addr(args, n))
                /\ \A k \in 1 .. Len(args[n]) + 1 : memory_rd_b(mem, Plus(Natural(str_addr(args, n)), k - 1))
                                                    = Natural(IF k <= Len(args[n]) THEN args[n][k] ELSE 0)
  BY <1>1, <1>2, <1>3, LoadedReady
<1> HIDE DEF storing
<1>5. \A n \in ListedWords : /\ (\A p \in Stored(listing[n]) : Lasting(storing, n, p))
                                => memory_rd_w(mem, listing[n].addr) = listing[n].word
                             /\ LastText(listing, n) => text[listing[n].addr] = listing[n].text
  BY <1>4 DEF ListedWords
<1>6. ASSUME NEW nk \in ListedBytes, Lasting(storing, nk[1], shows(nk[1], nk[2]))
      PROVE  ByteIn(Plus(listing[nk[1]].addr, nk[2] - 1)) = Natural(listing[nk[1]].bytes[nk[2]])
  <2> DEFINE n == nk[1]
             k == nk[2]
  <2>1. n \in 1 .. Len(listing) /\ k \in 1 .. 16 /\ listing[n].kind = "data" /\ k <= Len(listing[n].bytes)
    BY DEF ListedBytes
  <2>2. Readable(listing[n])
    <3>1. \E L : listing \in Seq(L) BY <1>1, InputsAssumption
    <3>2. n \in DOMAIN listing BY <2>1, <3>1
    <3> QED BY <1>1, <3>2, InputsAssumption
  <2>3. Len(listing[n].bytes) \in Nat BY <2>1, <2>2, DataLine
  <2>4. Lasting(storing, n, shows(n, k)) BY <1>6
  <2> HIDE DEF n, k, listing, shows
  <2>5. k \in 1 .. Len(listing[n].bytes) BY <2>1, <2>3
  <2>6. memory_rd_b(mem, Plus(listing[n].addr, k - 1)) = Natural(listing[n].bytes[k]) BY <1>4, <2>1, <2>4, <2>5
  <2> QED BY <2>6 DEF ByteIn, n, k
<1>7. ASSUME args # <<>>, Apart(storing, args) PROVE ArgsPassed
  <2> HIDE DEF args, listing
  <2> SUFFICES /\ memory_rd_w(mem, Natural(count_addr)) = Natural(Len(args))
               /\ \A n \in 1 .. Len(args) : StringAt(memory_rd_w(mem, Natural(argv_addr + 4 * (n - 1))), args[n])
    BY DEF ArgsPassed, args
  <2>1. ASSUME NEW n \in 1 .. Len(args) PROVE StringAt(memory_rd_w(mem, Natural(argv_addr + 4 * (n - 1))), args[n])
    <3> DEFINE a == memory_rd_w(mem, Natural(argv_addr + 4 * (n - 1)))
               at == Natural(str_addr(args, n))
               s == args[n]
    <3>1. a = at /\ \A k \in 1 .. Len(s) + 1 : memory_rd_b(mem, Plus(at, k - 1)) = Natural(IF k <= Len(s) THEN s[k] ELSE 0)
      BY <1>4, <1>7
    <3> HIDE DEF a, at, s
    <3>2. StringAt(a, s) BY <3>1 DEF StringAt, ByteIn
    <3> QED BY <3>2 DEF a, s
  <2> QED BY <1>4, <1>7, <2>1
<1> QED BY <1>5, <1>6, <1>7

(* When read_exec has read the last line (read_exec.c:86-93), and before main calls simulate
   (main.c:72), memory holds every word and byte that the listing shows, at its address, unless a line
   behind it stores something else there; the table of assembly text has the text of each
   instruction; and if no line is for their place, argc, the pointers and the strings that
   pass_args_to_program wrote (main.c:15-47) are as they were.  The bytes read from the column of
   characters do no harm to that. *)
THEOREM SimulatorMemoryReady == Spec => []MemoryReady
<1>1. Init => Loading BY LoadingStarts
<1>2. TypeOK /\ Loading /\ [Next]_vars => Loading'
  <2> SUFFICES ASSUME TypeOK, Loading, [Next]_vars PROVE Loading' OBVIOUS
  <2>1. CASE LoaderNext BY <2>1, LoadingGoesOn
  <2>2. CASE UNCHANGED vars
    <3>1. UNCHANGED <<phase, input, rest, mem, text>> BY <2>2 DEF vars, loaderVars
    <3> QED BY <3>1 DEF Loading, LoadedSoFar
  <2>3. CASE phase' \notin {"starting", "opening", "loading"} BY <2>3 DEF Loading
  <2> QED BY <2>1, <2>2, <2>3, InstructionsRun
<1>3. TypeOK /\ Loading => MemoryReady BY ReadyAtEnd
<1> QED BY <1>1, <1>2, <1>3, SimulatorTypeCorrect, PTL DEF Spec

-----------------------------------------------------------------------------
(* Every instruction that is covered does what RISC-V defines. *)

(* The covered instruction is the one that is executed. *)
LEMMA CoveredIs ==
  ASSUME TypeOK, Covered, NEW ops, NEW ins \in Fetched(ops)
  PROVE  Faithful(ins) /\ Decoded(ins) /\ ins.opcode \in ops
<1>1. PICK i \in Fetched(0 .. 127) : Faithful(i) BY DEF Covered
<1>2. ins = decode(memory_rd_w(mem, PC)) /\ Decoded(ins) /\ ins.opcode \in ops BY FetchedIs
<1>3. i = decode(memory_rd_w(mem, PC)) BY FetchedIs
<1> QED BY <1>1, <1>2, <1>3

(* Both specifications decode the same fields. *)
LEMMA SameDecoding ==
  ASSUME NEW ins, Decoded(ins)
  PROVE  /\ ISA!inst = ins.word /\ ISA!opcode = ins.opcode /\ ISA!rd = ins.rd /\ ISA!funct3 = ins.funct3
         /\ ISA!rs1 = ins.rs1 /\ ISA!rs2 = ins.rs2 /\ ISA!funct7 = ins.funct7
<1> DEFINE w == memory_rd_w(mem, PC)
<1>1. ISA!inst = w BY SameMemory DEF ISA!inst
<1> HIDE DEF w
<1>2. /\ ISA!opcode = Field(w, 0, 7) /\ ISA!rd = Field(w, 7, 5) /\ ISA!funct3 = Field(w, 12, 3)
      /\ ISA!rs1 = reg[Field(w, 15, 5)] /\ ISA!rs2 = reg[Field(w, 20, 5)] /\ ISA!funct7 = Field(w, 25, 7)
  BY <1>1, SameField DEF ISA!opcode, ISA!rd, ISA!funct3, ISA!rs1, ISA!rs2, ISA!funct7
<1>3. /\ ins.word = w /\ ins.opcode = Field(w, 0, 7) /\ ins.rd = Field(w, 7, 5) /\ ins.funct3 = Field(w, 12, 3)
      /\ ins.rs1 = reg[Field(w, 15, 5)] /\ ins.rs2 = reg[Field(w, 20, 5)] /\ ins.funct7 = Field(w, 25, 7)
  BY DEF Decoded, w
<1> QED BY <1>1, <1>2, <1>3

\* Nothing that FollowsISA looks at changes.
Stutters == UNCHANGED <<phase, reg, PC, mem>>

(* A branch that matches writes the register and goes to the next instruction, as RISC-V does. *)
LEMMA FinishIs ==
  ASSUME NEW ins, Decoded(ins), ins.rd # 0, NEW results, NEW v, results = {v},
         Finish(ins.rd, results), UNCHANGED mem
  PROVE  ISA!Write(v) /\ ISA!Follow
<1>1. Set(ins.rd, v) /\ increment_PC BY DEF Finish
<1>2. reg' = [reg EXCEPT ![ins.rd] = v] /\ PC' = Plus(PC, 4) BY <1>1 DEF Set, increment_PC
<1>3. ISA!rd = ins.rd BY SameDecoding
<1> QED BY <1>2, <1>3, SameNumbers DEF ISA!Write, ISA!Follow

(* The operations by their names, where the code has them. *)
LEMMA AluIs ==
  ASSUME NEW a, NEW b
  PROVE  /\ ISA!Alu("add", a, b) = Add(a, b) /\ ISA!Alu("sub", a, b) = Sub(a, b)
         /\ ISA!Alu("sll", a, b) = ShiftLeft(a, Field(b, 0, 5)) /\ ISA!Alu("srl", a, b) = ShiftRight(a, Field(b, 0, 5))
         /\ ISA!Alu("slt", a, b) = Flag(Less(a, b)) /\ ISA!Alu("sltu", a, b) = Flag(Below(a, b))
         /\ ISA!Alu("xor", a, b) = Xor(a, b) /\ ISA!Alu("or", a, b) = Or(a, b) /\ ISA!Alu("and", a, b) = And(a, b)
         /\ ISA!Alu("mul", a, b) = Product(a, b) /\ ISA!Alu("mulh", a, b) = HighOfSigned(a, b)
         /\ b # Zero /\ ~ (a = Lowest /\ b = Ones) => ISA!Alu("div", a, b) = SignedQuotient(a, b)
         /\ b # Zero => ISA!Alu("divu", a, b) = Quotient(a, b) /\ ISA!Alu("remu", a, b) = Remainder(a, b)
<1>1. ISA!Alu("add", a, b) = Add(a, b) /\ ISA!Alu("sub", a, b) = Sub(a, b) BY SameSum DEF ISA!Alu
<1>2. ISA!Alu("sll", a, b) = ShiftLeft(a, Field(b, 0, 5)) /\ ISA!Alu("srl", a, b) = ShiftRight(a, Field(b, 0, 5))
  BY SameBitwise, SameField DEF ISA!Alu, ISA!Shift
<1>3. ISA!Alu("slt", a, b) = Flag(Less(a, b)) /\ ISA!Alu("sltu", a, b) = Flag(Below(a, b))
  BY SameNatural, SameOrder DEF ISA!Alu, ISA!Flag, Flag
<1>4. ISA!Alu("xor", a, b) = Xor(a, b) /\ ISA!Alu("or", a, b) = Or(a, b) /\ ISA!Alu("and", a, b) = And(a, b)
  BY SameBitwise DEF ISA!Alu
<1>5. ISA!Alu("mul", a, b) = Product(a, b) /\ ISA!Alu("mulh", a, b) = HighOfSigned(a, b) BY SameProduct DEF ISA!Alu
<1>6. b # Zero /\ ~ (a = Lowest /\ b = Ones) => ISA!Alu("div", a, b) = SignedQuotient(a, b)
  BY SameQuotient, SameConstants DEF ISA!Alu
<1>7. b # Zero => ISA!Alu("divu", a, b) = Quotient(a, b) /\ ISA!Alu("remu", a, b) = Remainder(a, b)
  BY SameQuotient, SameConstants DEF ISA!Alu
<1> QED BY <1>1, <1>2, <1>3, <1>4, <1>5, <1>6, <1>7

(* The names by funct3. *)
LEMMA NamesAre ==
  /\ ISA!Base[1] = "add" /\ ISA!Base[2] = "sll" /\ ISA!Base[3] = "slt" /\ ISA!Base[4] = "sltu"
  /\ ISA!Base[5] = "xor" /\ ISA!Base[6] = "srl" /\ ISA!Base[7] = "or" /\ ISA!Base[8] = "and"
  /\ ISA!Alternate[0] = "sub"
  /\ ISA!Multiply[1] = "mul" /\ ISA!Multiply[2] = "mulh" /\ ISA!Multiply[5] = "div" /\ ISA!Multiply[6] = "divu"
  /\ ISA!Multiply[8] = "remu"
BY DEF ISA!Base, ISA!Alternate, ISA!Multiply

(* Operations on two registers follow RISC-V (simulate.c:264-405). *)
LEMMA RegisterFollows == ASSUME TypeOK, Covered, Register PROVE ISA!Next \/ Stutters
<1>1. PICK ins \in Fetched({opcode_R}) :
        /\ ~ Trap(ins) /\ Finish(ins.rd, result_R(ins.funct3, ins.funct7, ins.rs1, ins.rs2))
        /\ UNCHANGED mem /\ KeepsRunning
  BY DEF Register
<1>2. Faithful(ins) /\ Decoded(ins) /\ ins.opcode = opcode_R BY CoveredIs
<1> DEFINE f3 == ins.funct3
           f7 == ins.funct7
           a == ins.rs1
           b == ins.rs2
<1>3. /\ ins.rd # 0
      /\ <<f3, f7>> \notin {<<2, 0>>, <<5, 32>>, <<2, 1>>, <<3, 1>>, <<6, 1>>}
      /\ (f7 \in {0, 1} \/ <<f3, f7>> = <<0, 32>>)
      /\ (f7 = 1 /\ f3 >= 4 => b # Zero /\ ~ Trap(ins))
  BY <1>2 DEF Faithful, opcode_R, opcode_I_1, opcode_I_2, opcode_S, opcode_B, opcode_I_3, opcode_U_1, opcode_U_2
<1>4. f3 \in 0 .. 7 /\ f7 \in Nat BY <1>2 DEF Decoded
<1>5. Trap(ins) <=> f7 = 1 /\ ((f3 = 7 /\ b = Zero) \/ (f3 = 4 /\ a = Lowest /\ b = Ones))
  <2>1. Trap(ins) <=> /\ ins.opcode = opcode_R /\ f7 = 1
                      /\ (f3 = 7 /\ b = Zero) \/ (f3 = 4 /\ a = Lowest /\ b = Ones)
    BY Zenon DEF Trap
  <2> QED BY <1>2, <2>1
<1>6. \/ f7 = 0 /\ f3 \in {0, 1, 3, 4, 5, 6, 7}
      \/ f7 = 32 /\ f3 = 0
      \/ f7 = 1 /\ f3 \in {0, 1}
      \/ f7 = 1 /\ f3 = 4 /\ b # Zero /\ ~ (a = Lowest /\ b = Ones)
      \/ f7 = 1 /\ f3 \in {5, 7} /\ b # Zero
  BY <1>3, <1>4, <1>5
<1>7. ISA!opcode = 51 /\ ISA!funct3 = f3 /\ ISA!funct7 = f7 /\ ISA!rs1 = a /\ ISA!rs2 = b
  BY <1>2, SameDecoding DEF opcode_R
<1> HIDE DEF f3, f7, a, b
<1>8. ASSUME NEW v, result_R(f3, f7, a, b) = {v} PROVE ISA!Write(v) /\ ISA!Follow
  BY <1>1, <1>2, <1>3, <1>8, FinishIs DEF f3, f7, a, b
<1>9. CASE f7 = 0 /\ f3 \in {0, 1, 3, 4, 5, 6, 7}
  <2> DEFINE v == ISA!Alu(ISA!Base[f3 + 1], a, b)
  <2>1. result_R(f3, f7, a, b) = {v}
    <3>1. CASE f3 = 0 BY <1>9, <3>1, NamesAre, AluIs DEF result_R, Count
    <3>2. CASE f3 = 1 BY <1>9, <3>2, NamesAre, AluIs DEF result_R, Count
    <3>3. CASE f3 = 3 BY <1>9, <3>3, NamesAre, AluIs DEF result_R, Count
    <3>4. CASE f3 = 4 BY <1>9, <3>4, NamesAre, AluIs DEF result_R, Count
    <3>5. CASE f3 = 5 BY <1>9, <3>5, NamesAre, AluIs DEF result_R, Count
    <3>6. CASE f3 = 6 BY <1>9, <3>6, NamesAre, AluIs DEF result_R, Count
    <3>7. CASE f3 = 7 BY <1>9, <3>7, NamesAre, AluIs DEF result_R, Count
    <3> QED BY <1>9, <3>1, <3>2, <3>3, <3>4, <3>5, <3>6, <3>7
  <2>2. ISA!Write(v) /\ ISA!Follow BY <1>8, <2>1
  <2> QED BY <1>7, <1>9, <2>2 DEF ISA!Next, ISA!Register
<1>10. CASE f7 = 32 /\ f3 = 0
  <2> DEFINE v == ISA!Alu(ISA!Alternate[f3], a, b)
  <2>1. result_R(f3, f7, a, b) = {v} BY <1>10, NamesAre, AluIs DEF result_R
  <2>2. ISA!Write(v) /\ ISA!Follow BY <1>8, <2>1
  <2> QED BY <1>7, <1>10, <2>2 DEF ISA!Next, ISA!Register
<1>11. CASE /\ f7 = 1 /\ f3 \in {0, 1, 4, 5, 7}
            /\ f3 \in {4, 5, 7} => b # Zero
            /\ f3 = 4 => ~ (a = Lowest /\ b = Ones)
  <2> DEFINE v == ISA!Alu(ISA!Multiply[f3 + 1], a, b)
  <2>1. result_R(f3, f7, a, b) = {v}
    <3>1. CASE f3 = 0 BY <1>11, <3>1, NamesAre, AluIs DEF result_R
    <3>2. CASE f3 = 1 BY <1>11, <3>2, NamesAre, AluIs DEF result_R
    <3>3. CASE f3 = 4 BY <1>11, <3>3, NamesAre, AluIs DEF result_R
    <3>4. CASE f3 = 5 BY <1>11, <3>4, NamesAre, AluIs DEF result_R
    <3>5. CASE f3 = 7 BY <1>11, <3>5, NamesAre, AluIs DEF result_R
    <3> QED BY <1>11, <3>1, <3>2, <3>3, <3>4, <3>5
  <2>2. ISA!Write(v) /\ ISA!Follow BY <1>8, <2>1
  <2> QED BY <1>7, <1>11, <2>2 DEF ISA!Next, ISA!Register
<1> QED BY <1>6, <1>9, <1>10, <1>11

(* The immediates of the formats I and S are those of RISC-V, for every word. *)
LEMMA SameImmediates ==
  \A w : /\ ISA!ImmI(w) = immediate_I(w) /\ ISA!ImmS(w) = immediate_S(w)
<1> SUFFICES ASSUME NEW w PROVE ISA!ImmI(w) = immediate_I(w) /\ ISA!ImmS(w) = immediate_S(w) OBVIOUS
<1>1. ISA!ImmI(w) = immediate_I(w)
  <2>1. \A i \in 0 .. 31 : 20 + i = i + 20 /\ (i < 11 <=> i <= 10) OBVIOUS
  <2> QED BY <2>1 DEF ISA!ImmI, immediate_I, ISA!Bits, Bits
<1>2. ISA!ImmS(w) = immediate_S(w)
  <2>1. \A i \in 0 .. 31 : 20 + i = i + 20 /\ (i < 11 <=> i <= 10) /\ 7 + i = i + 7 /\ (i < 5 <=> i <= 4) OBVIOUS
  <2>2. \A i \in 0 .. 31 : (IF i < 5 THEN w[7 + i] ELSE IF i < 11 THEN w[20 + i] ELSE w[31])
                           = (IF i = 0 THEN w[7] ELSE IF i <= 4 THEN w[i + 7] ELSE IF i <= 10 THEN w[i + 20] ELSE w[31])
    BY <2>1
  <2> QED BY <2>2 DEF ISA!ImmS, immediate_S, ISA!Bits, Bits
<1> QED BY <1>1, <1>2

(* The format of the immediate, by the opcode. *)
LEMMA ImmediateOf ==
  ASSUME NEW w
  PROVE  LET op == Field(w, 0, 7) IN
         /\ op \in {opcode_I_1, opcode_I_2, opcode_I_3} => calculate_immediate(w) = immediate_I(w)
         /\ op = opcode_S => calculate_immediate(w) = immediate_S(w)
         /\ op = opcode_B => calculate_immediate(w) = immediate_B(w)
         /\ op \in {opcode_U_1, opcode_U_2} => calculate_immediate(w) = immediate_U(w)
<1> DEFINE op == Field(w, 0, 7)
<1>1. calculate_immediate(w) =
        CASE op \in {opcode_I_1, opcode_I_2, opcode_I_3, opcode_I_4} -> immediate_I(w)
          [] op = opcode_S -> immediate_S(w)
          [] op = opcode_B -> immediate_B(w)
          [] op = opcode_J -> immediate_J(w)
          [] op \in {opcode_U_1, opcode_U_2} -> immediate_U(w)
          [] OTHER -> Zero
  BY DEF calculate_immediate
<1> HIDE DEF op
<1> QED
  BY <1>1 DEF op, opcode_I_1, opcode_I_2, opcode_I_3, opcode_I_4, opcode_S, opcode_B, opcode_J, opcode_U_1, opcode_U_2

(* The shifts by a constant: what the code looks at is funct7 and, of the count, four bits. *)
LEMMA ShiftsByConstants ==
  ASSUME NEW w \in Word, Field(w, 25, 7) = 0, w[24] = 0
  PROVE  LET imm == immediate_I(w) IN Field(imm, 5, 7) = 0 /\ Field(imm, 0, 4) = Field(imm, 0, 5)
<1> DEFINE imm == immediate_I(w)
<1>1. imm \in Word BY ImmediateWord
<1>2. \A i \in 0 .. 31 : imm[i] = IF i <= 10 THEN w[i + 20] ELSE w[31] BY DEF immediate_I, Bits
<1> HIDE DEF imm
<1>3. \A k \in 25 .. 25 + 7 - 1 : w[k] = 0
  <2>1. 25 \in Nat /\ 7 \in Nat /\ 25 + 7 <= 32 OBVIOUS
  <2> QED BY <2>1, FieldNat
<1>4. \A k \in 5 .. 5 + 7 - 1 : imm[k] = 0
  <2> SUFFICES ASSUME NEW k \in 5 .. 5 + 7 - 1 PROVE imm[k] = 0 OBVIOUS
  <2>1. k + 20 \in 25 .. 25 + 7 - 1 /\ 31 \in 25 .. 25 + 7 - 1 /\ k \in 0 .. 31 OBVIOUS
  <2> QED BY <1>2, <1>3, <2>1
<1>5. Field(imm, 5, 7) = 0
  <2>1. 5 \in Nat /\ 7 \in Nat /\ 5 + 7 <= 32 OBVIOUS
  <2> QED BY <1>1, <1>4, <2>1, FieldNat
<1>6. imm[4] = 0 BY <1>2
<1>7. (\A k \in 0 .. 0 + 3 : imm[k] \in Bit) /\ (\A k \in 0 .. 0 + 4 : imm[k] \in Bit) BY <1>1, WordIs DEF Bit
<1>8. Field(imm, 0, 4) = 8 * imm[0 + 3] + 4 * imm[0 + 2] + 2 * imm[0 + 1] + imm[0]
      /\ Field(imm, 0, 5) = 16 * imm[0 + 4] + 8 * imm[0 + 3] + 4 * imm[0 + 2] + 2 * imm[0 + 1] + imm[0]
  <2>1. 0 \in Nat OBVIOUS
  <2> QED BY <1>7, <2>1, ShortField
<1>9. imm[3] \in Nat /\ imm[2] \in Nat /\ imm[1] \in Nat /\ imm[0] \in Nat BY <1>1, WordIs
<1>10. Field(imm, 0, 4) = Field(imm, 0, 5)
  <2> HIDE DEF Field
  <2> QED BY <1>6, <1>8, <1>9
<1> QED BY <1>5, <1>10 DEF imm

(* Operations with a constant follow RISC-V (simulate.c:406-466). *)
LEMMA ImmediateFollows == ASSUME TypeOK, Covered, Immediate PROVE ISA!Next \/ Stutters
<1>1. PICK ins \in Fetched({opcode_I_1}) :
        Finish(ins.rd, result_I(ins.funct3, ins.rs1, ins.immediate)) /\ UNCHANGED mem /\ KeepsRunning
  BY DEF Immediate
<1>2. Faithful(ins) /\ Decoded(ins) /\ ins.opcode = opcode_I_1 BY CoveredIs
<1> DEFINE f3 == ins.funct3
           f7 == ins.funct7
           a == ins.rs1
           w == ins.word
           imm == immediate_I(w)
<1>3. ins.rd # 0 /\ (f3 \in {1, 5} => f7 = 0 /\ w[24] = 0)
  BY <1>2 DEF Faithful, opcode_R, opcode_I_1, opcode_I_2, opcode_S, opcode_B, opcode_I_3, opcode_U_1, opcode_U_2
<1>4. f3 \in 0 .. 7 /\ w \in Word /\ f7 = Field(w, 25, 7) BY <1>2 DEF Decoded
<1>5. ins.immediate = imm
  <2>1. Field(w, 0, 7) = opcode_I_1 /\ ins.immediate = calculate_immediate(w) BY <1>2 DEF Decoded
  <2> HIDE DEF w, imm
  <2>2. calculate_immediate(w) = immediate_I(w) BY <2>1, ImmediateOf
  <2> QED BY <2>1, <2>2 DEF imm
<1>6. ISA!opcode = 19 /\ ISA!funct3 = f3 /\ ISA!funct7 = f7 /\ ISA!rs1 = a /\ ISA!ImmI(ISA!inst) = imm
  BY <1>2, SameDecoding, SameImmediates DEF opcode_I_1
<1>7. f3 \in {1, 5} => Field(imm, 5, 7) = 0 /\ Field(imm, 0, 4) = Field(imm, 0, 5)
  <2> HIDE DEF w, f3, f7
  <2> QED BY <1>3, <1>4, ShiftsByConstants
<1> HIDE DEF f3, f7, a, imm
<1>8. ASSUME NEW v, result_I(f3, a, imm) = {v} PROVE ISA!Write(v) /\ ISA!Follow
  BY <1>1, <1>2, <1>3, <1>5, <1>8, FinishIs DEF f3, a
<1> DEFINE v == ISA!Alu(ISA!Base[f3 + 1], a, imm)
<1>9. result_I(f3, a, imm) = {v}
  <2>1. CASE f3 = 0 BY <2>1, NamesAre, AluIs DEF result_I
  <2>2. CASE f3 = 1 BY <2>2, <1>7, NamesAre, AluIs DEF result_I
  <2>3. CASE f3 = 2 BY <2>3, NamesAre, AluIs DEF result_I
  <2>4. CASE f3 = 3 BY <2>4, NamesAre, AluIs DEF result_I
  <2>5. CASE f3 = 4 BY <2>5, NamesAre, AluIs DEF result_I
  <2>6. CASE f3 = 5 BY <2>6, <1>7, NamesAre, AluIs DEF result_I
  <2>7. CASE f3 = 6 BY <2>7, NamesAre, AluIs DEF result_I
  <2>8. CASE f3 = 7 BY <2>8, NamesAre, AluIs DEF result_I
  <2> QED BY <1>4, <2>1, <2>2, <2>3, <2>4, <2>5, <2>6, <2>7, <2>8
<1>10. ISA!Write(v) /\ ISA!Follow BY <1>8, <1>9
<1>11. f3 \in {1, 5} => f7 = 0 BY <1>3
<1> QED BY <1>6, <1>10, <1>11 DEF ISA!Next, ISA!Immediate

(* Where loads and stores go when PC is zero. *)
LEMMA AddressFromZero ==
  ASSUME TypeOK, NEW ins, Decoded(ins), PC = Zero
  PROVE  Address(ins) = Add(ins.rs1, ins.immediate)
<1>1. ins.rs1 \in Word BY DEF Decoded
<1>2. Add(PC, ins.rs1) = ins.rs1 BY <1>1, AddZero
<1> QED BY <1>2 DEF Address

(* Nothing that ends the simulation leaves it running. *)
LEMMA NotDying == ASSUME NEW how, Dies(how), phase' = "running", how # "running" PROVE FALSE
BY DEF Dies

(* Loads follow RISC-V (simulate.c:467-499), *)
LEMMA LoadFollows ==
  ASSUME TypeOK, Covered, phase' = "running", Load PROVE ISA!Next \/ Stutters
<1>1. PICK ins \in Fetched({opcode_I_2}), addr \in {Address(i) : i \in Fetched({opcode_I_2})} :
        IF ins.funct3 \in {1, 2, 5} /\ Unaligned(ins.funct3 % 4, addr) THEN Dies("failed")
        ELSE Finish(ins.rd, loaded(ins.funct3, addr)) /\ UNCHANGED mem /\ KeepsRunning
  BY DEF Load
<1>2. Faithful(ins) /\ Decoded(ins) /\ ins.opcode = opcode_I_2 BY CoveredIs
<1> DEFINE f3 == ins.funct3
           w == ins.word
<1>3. ins.rd # 0 /\ PC = Zero /\ f3 \in {2, 4, 5}
  BY <1>2 DEF Faithful, opcode_R, opcode_I_1, opcode_I_2, opcode_S, opcode_B, opcode_I_3, opcode_U_1, opcode_U_2
<1>4. addr = Add(ins.rs1, ins.immediate) /\ addr \in Word
  <2>1. addr = Address(ins) BY OneFetched
  <2> QED BY <1>2, <1>3, <2>1, AddressFromZero, AddressWord
<1>5. ins.immediate = ISA!ImmI(w) /\ ISA!inst = w
  <2>1. Field(w, 0, 7) = opcode_I_2 /\ ins.immediate = calculate_immediate(w) BY <1>2 DEF Decoded
  <2> HIDE DEF w
  <2>2. calculate_immediate(w) = immediate_I(w) BY <2>1, ImmediateOf
  <2>3. ISA!inst = w BY <1>2, SameDecoding DEF w
  <2> QED BY <2>1, <2>2, <2>3, SameImmediates
<1>6. ISA!Add(ISA!rs1, ISA!ImmI(ISA!inst)) = addr /\ ISA!opcode = 3 /\ ISA!funct3 = f3
  BY <1>2, <1>4, <1>5, SameDecoding, SameSum DEF opcode_I_2
<1>7. /\ ~ (f3 \in {1, 2, 5} /\ Unaligned(f3 % 4, addr))
      /\ Finish(ins.rd, loaded(f3, addr)) /\ UNCHANGED mem
  BY <1>1, NotDying
<1> HIDE DEF f3
<1>8. ASSUME NEW v, loaded(f3, addr) = {v} PROVE ISA!Write(v) /\ ISA!Follow
  BY <1>2, <1>3, <1>7, <1>8, FinishIs
<1>9. OfWords(mem) BY DEF TypeOK
<1>10. CASE f3 = 2
  <2>1. WordAligned(addr)
    <3>1. f3 % 4 = 2 BY <1>10
    <3> QED BY <1>7, <1>10, <3>1 DEF Unaligned
  <2>2. ISA!Loaded(addr, 4) = memory_rd_w(mem, addr) BY <1>4, <1>9, <2>1, LoadedIsRead
  <2>3. loaded(f3, addr) = {memory_rd_w(mem, addr)} BY <1>10 DEF loaded
  <2>4. ISA!Write(ISA!Loaded(addr, 4)) /\ ISA!Follow BY <1>8, <2>2, <2>3
  <2> QED BY <1>6, <1>10, <2>4 DEF ISA!Next, ISA!Load
<1>11. CASE f3 = 4
  <2>2. ISA!Loaded(addr, 1) = memory_rd_b(mem, addr) BY <1>4, <1>9, LoadedIsRead
  <2>3. loaded(f3, addr) = {memory_rd_b(mem, addr)} BY <1>11 DEF loaded
  <2>4. ISA!Write(ISA!Loaded(addr, 1)) /\ ISA!Follow BY <1>8, <2>2, <2>3
  <2> QED BY <1>6, <1>11, <2>4 DEF ISA!Next, ISA!Load
<1>12. CASE f3 = 5
  <2>1. HalfAligned(addr)
    <3>1. f3 % 4 = 1 BY <1>12
    <3> QED BY <1>7, <1>12, <3>1 DEF Unaligned
  <2>2. ISA!Loaded(addr, 2) = memory_rd_h(mem, addr) BY <1>4, <1>9, <2>1, LoadedIsRead
  <2>3. loaded(f3, addr) = {memory_rd_h(mem, addr)} BY <1>12 DEF loaded
  <2>4. ISA!Write(ISA!Loaded(addr, 2)) /\ ISA!Follow BY <1>8, <2>2, <2>3
  <2> QED BY <1>6, <1>12, <2>4 DEF ISA!Next, ISA!Load
<1> QED BY <1>3, <1>10, <1>11, <1>12 DEF f3

(* What the code writes are the bytes that the specification stores, and nothing else. *)
LEMMA StoredIs ==
  ASSUME NEW n, NEW a \in Word, Aligned(n, a), OfWords(mem), ISA!rs2 \in Word,
         mem' = memory_wr_w(mem, a, Insert(word_at(mem, a), ISA!rs2, ByteAt(a), 8 * n))
  PROVE  ISA!Stored(a, n)
<1> DEFINE data == ISA!rs2
<1>1. \A k \in -4 .. 7 :
        memory_rd_b(mem', Add(a, OfInt(k)))
        = IF k \in 0 .. n - 1 THEN Extract(data, 8 * k, 8) ELSE memory_rd_b(mem, Add(a, OfInt(k)))
  <2> HIDE DEF data
  <2>1. data \in Word BY DEF data
  <2>2. mem' = memory_wr_w(mem, a, Insert(word_at(mem, a), data, ByteAt(a), 8 * n)) BY DEF data
  <2> QED BY <2>1, <2>2, BytesWritten
<1>2. Insert(word_at(mem, a), data, ByteAt(a), 8 * n) \in Word
  <2>1. word_at(mem, a) \in Word BY WordAt
  <2>2. ByteAt(a) \in Nat /\ n \in Nat BY BytesTogether
  <2>3. 8 * n \in Nat BY <2>2
  <2> HIDE DEF data
  <2> QED BY <2>1, <2>2, <2>3, InsertIs DEF data
<1>3. \A p \in DOMAIN mem \ {place(a)} : mem'[p] = mem[p] BY <1>2, Written
<1> HIDE DEF data
<1>4. \A p \in DOMAIN mem \ {ISA!place(a)} : mem'[p] = mem[p] BY <1>3, SameMemory
<1>5. ASSUME NEW k \in -4 .. 7
      PROVE  LET at == ISA!Add(a, ISA!OfInt(k))
             IN ISA!memory_rd_b(mem', at)
                = IF k \in 0 .. n - 1 THEN ISA!Extract(data, 8 * k, 8) ELSE ISA!memory_rd_b(mem, at)
  <2>1. ISA!Add(a, ISA!OfInt(k)) = Add(a, OfInt(k)) BY SameSum, SameNumbers
  <2> DEFINE at == Add(a, OfInt(k))
  <2>2. memory_rd_b(mem', at) = IF k \in 0 .. n - 1 THEN Extract(data, 8 * k, 8) ELSE memory_rd_b(mem, at) BY <1>1
  <2> HIDE DEF at
  <2>3. ISA!memory_rd_b(mem', at) = memory_rd_b(mem', at) /\ ISA!memory_rd_b(mem, at) = memory_rd_b(mem, at)
        /\ ISA!Extract(data, 8 * k, 8) = Extract(data, 8 * k, 8)
    BY SameMemory, SameExtract
  <2> QED BY <2>1, <2>2, <2>3 DEF at
<1> QED BY <1>4, <1>5 DEF ISA!Stored, data

(* and stores do (simulate.c:500-518). *)
LEMMA StoreFollows ==
  ASSUME TypeOK, Covered, phase' = "running", Store PROVE ISA!Next \/ Stutters
<1>1. PICK ins \in Fetched({opcode_S}), addr \in {Address(i) : i \in Fetched({opcode_S})} :
        IF ins.funct3 > 2 THEN NoBranch /\ UNCHANGED mem /\ KeepsRunning
        ELSE IF Unaligned(ins.funct3, addr) THEN Dies("failed")
        ELSE /\ mem' = stored(ins.funct3, addr, ins.rs2)
             /\ increment_PC
             /\ UNCHANGED reg /\ KeepsRunning
  BY DEF Store
<1>2. Faithful(ins) /\ Decoded(ins) /\ ins.opcode = opcode_S BY CoveredIs
<1> DEFINE f3 == ins.funct3
           w == ins.word
           data == ins.rs2
<1>3. PC = Zero /\ f3 \in {0, 1, 2}
  BY <1>2 DEF Faithful, opcode_R, opcode_I_1, opcode_I_2, opcode_S, opcode_B, opcode_I_3, opcode_U_1, opcode_U_2
<1>4. addr = Add(ins.rs1, ins.immediate) /\ addr \in Word
  <2>1. addr = Address(ins) BY OneFetched
  <2> QED BY <1>2, <1>3, <2>1, AddressFromZero, AddressWord
<1>5. ins.immediate = ISA!ImmS(w) /\ ISA!inst = w
  <2>1. Field(w, 0, 7) = opcode_S /\ ins.immediate = calculate_immediate(w) BY <1>2 DEF Decoded
  <2> HIDE DEF w
  <2>2. calculate_immediate(w) = immediate_S(w) BY <2>1, ImmediateOf
  <2>3. ISA!inst = w BY <1>2, SameDecoding DEF w
  <2> QED BY <2>1, <2>2, <2>3, SameImmediates
<1>6. ISA!Add(ISA!rs1, ISA!ImmS(ISA!inst)) = addr /\ ISA!opcode = 35 /\ ISA!funct3 = f3 /\ ISA!rs2 = data
  BY <1>2, <1>4, <1>5, SameDecoding, SameSum DEF opcode_S
<1>7. /\ ~ Unaligned(f3, addr) /\ mem' = stored(f3, addr, data)
      /\ PC' = ISA!Plus(PC, 4) /\ UNCHANGED reg
  <2>1. ~ (f3 > 2) BY <1>3
  <2>2. ~ Unaligned(f3, addr) BY <1>1, <2>1, NotDying
  <2> QED BY <1>1, <2>1, <2>2, SamePlus DEF increment_PC
<1>8. OfWords(mem) /\ data \in Word BY <1>2 DEF TypeOK, Decoded
<1> HIDE DEF f3, data
<1>9. ASSUME NEW n, Aligned(n, addr), stored(f3, addr, data) = memory_wr_w(mem, addr, Insert(word_at(mem, addr), data, ByteAt(addr), 8 * n))
      PROVE  ISA!Stored(addr, n)
  <2>1. mem' = memory_wr_w(mem, addr, Insert(word_at(mem, addr), ISA!rs2, ByteAt(addr), 8 * n)) BY <1>6, <1>7, <1>9
  <2>2. ISA!rs2 \in Word BY <1>6, <1>8
  <2> QED BY <1>4, <1>8, <1>9, <2>1, <2>2, StoredIs
<1>10. CASE f3 = 0
  <2>1. stored(f3, addr, data) = memory_wr_b(mem, addr, data) BY <1>10 DEF stored
  <2>2. memory_wr_b(mem, addr, data) = memory_wr_w(mem, addr, Insert(word_at(mem, addr), data, ByteAt(addr), 8))
    BY <1>4, <1>8, WritesKeep
  <2>3. Aligned(1, addr) /\ 8 * 1 = 8 BY DEF Aligned
  <2>4. ISA!Stored(addr, 1) BY <1>9, <2>1, <2>2, <2>3
  <2> QED BY <1>6, <1>7, <1>10, <2>4 DEF ISA!Next, ISA!Store
<1>11. CASE f3 = 1
  <2>1. stored(f3, addr, data) = memory_wr_h(mem, addr, data) BY <1>11 DEF stored
  <2>2. HalfAligned(addr) BY <1>7, <1>11 DEF Unaligned
  <2>3. HalfAt(addr) = ByteAt(addr) BY <1>4, <2>2, BeginsAt
  <2>4. memory_wr_h(mem, addr, data) = memory_wr_w(mem, addr, Insert(word_at(mem, addr), data, ByteAt(addr), 16))
    <3>1. memory_wr_h(mem, addr, data) = memory_wr_w(mem, addr, Insert(word_at(mem, addr), data, HalfAt(addr), 16))
      BY <1>4, <1>8, WritesKeep
    <3> QED BY <2>3, <3>1, Zenon
  <2>5. Aligned(2, addr) /\ 8 * 2 = 16 BY <2>2 DEF Aligned
  <2>6. ISA!Stored(addr, 2) BY <1>9, <2>1, <2>4, <2>5
  <2> QED BY <1>6, <1>7, <1>11, <2>6 DEF ISA!Next, ISA!Store
<1>12. CASE f3 = 2
  <2>1. stored(f3, addr, data) = memory_wr_w(mem, addr, data) BY <1>12 DEF stored
  <2>2. WordAligned(addr) BY <1>7, <1>12 DEF Unaligned
  <2>3. ByteAt(addr) = 0 BY <1>4, <2>2, BeginsAt
  <2>4. Insert(word_at(mem, addr), data, ByteAt(addr), 8 * 4) = data
    <3> DEFINE old == word_at(mem, addr)
    <3>1. old \in Word BY <1>8, WordAt
    <3>2. 0 \in Nat /\ 32 \in Nat /\ 8 * 4 = 32 OBVIOUS
    <3> HIDE DEF old
    <3>3. /\ Insert(old, data, 0, 32) \in Word
          /\ \A i \in 0 .. 31 : Insert(old, data, 0, 32)[i] = IF i \in 0 .. 0 + 32 - 1 THEN data[i - 0] ELSE old[i]
      BY <1>8, <3>1, <3>2, InsertIs
    <3>4. \A i \in 0 .. 31 : Insert(old, data, 0, 32)[i] = data[i]
      <4> DEFINE new == Insert(old, data, 0, 32)
      <4> SUFFICES ASSUME NEW i \in 0 .. 31 PROVE new[i] = data[i] OBVIOUS
      <4>1. i \in 0 .. 0 + 32 - 1 /\ i - 0 = i OBVIOUS
      <4>2. new[i] = IF i \in 0 .. 0 + 32 - 1 THEN data[i - 0] ELSE old[i] BY <3>3
      <4> HIDE DEF new
      <4> QED BY <4>1, <4>2
    <3>5. Insert(old, data, 0, 32) = data BY <1>8, <3>3, <3>4, SameBits
    <3> QED BY <2>3, <3>2, <3>5 DEF old
  <2>5. Aligned(4, addr) BY <2>2 DEF Aligned
  <2>6. ISA!Stored(addr, 4) BY <1>9, <2>1, <2>4, <2>5
  <2> QED BY <1>6, <1>7, <1>12, <2>6 DEF ISA!Next, ISA!Store
<1> QED BY <1>3, <1>10, <1>11, <1>12 DEF f3

(* Branches go where RISC-V says: bits 28 to 31 of the word, which the code takes for the
   lowest bits of the offset, are those of its bits 8 to 11 where the branch is covered (simulate.c:519-586). *)
LEMMA BranchFollows ==
  ASSUME TypeOK, Covered, Branch PROVE ISA!Next \/ Stutters
<1>1. PICK ins \in Fetched({opcode_B}) :
        /\ IF ins.funct3 \in {2, 3} THEN UNCHANGED PC
           ELSE PC' = IF Taken(ins.funct3, ins.rs1, ins.rs2) THEN Add(PC, ins.immediate) ELSE Plus(PC, 4)
        /\ UNCHANGED <<mem, reg>> /\ KeepsRunning
  BY DEF Branch
<1>2. Faithful(ins) /\ Decoded(ins) /\ ins.opcode = opcode_B BY CoveredIs
<1> DEFINE f3 == ins.funct3
           a == ins.rs1
           b == ins.rs2
           w == ins.word
<1>3. f3 \notin {2, 3} /\ (Taken(f3, a, b) => \A i \in 28 .. 31 : w[i] = w[i - 20])
  BY <1>2 DEF Faithful, opcode_R, opcode_I_1, opcode_I_2, opcode_S, opcode_B, opcode_I_3, opcode_U_1, opcode_U_2
<1>4. f3 \in 0 .. 7 BY <1>2 DEF Decoded
<1>5. ins.immediate = immediate_B(w)
  <2>1. Field(w, 0, 7) = opcode_B /\ ins.immediate = calculate_immediate(w) BY <1>2 DEF Decoded
  <2> HIDE DEF w
  <2>2. calculate_immediate(w) = immediate_B(w) BY <2>1, ImmediateOf
  <2> QED BY <2>1, <2>2
<1>6. ISA!inst = w /\ ISA!opcode = 99 /\ ISA!funct3 = f3 /\ ISA!rs1 = a /\ ISA!rs2 = b
  BY <1>2, SameDecoding DEF opcode_B
<1>7. PC' = (IF Taken(f3, a, b) THEN Add(PC, immediate_B(w)) ELSE Plus(PC, 4)) /\ UNCHANGED <<mem, reg>>
  BY <1>1, <1>3, <1>5
<1> HIDE DEF f3, a, b, w
<1>8. ISA!Compare(f3, a, b) <=> Taken(f3, a, b)
  <2>1. f3 \in {0, 1, 4, 5, 6, 7} BY <1>3, <1>4
  <2>2. CASE f3 = 0 BY <2>2 DEF ISA!Compare, Taken
  <2>3. CASE f3 = 1 BY <2>3 DEF ISA!Compare, Taken
  <2>4. CASE f3 = 4 BY <2>4, SameOrder DEF ISA!Compare, Taken
  <2>5. CASE f3 = 5 BY <2>5, SameOrder DEF ISA!Compare, Taken
  <2>6. CASE f3 = 6 BY <2>6, SameOrder DEF ISA!Compare, Taken
  <2>7. CASE f3 = 7 BY <2>7, SameOrder DEF ISA!Compare, Taken
  <2> QED BY <2>1, <2>2, <2>3, <2>4, <2>5, <2>6, <2>7
<1>9. Taken(f3, a, b) => ISA!ImmB(w) = immediate_B(w)
  <2> SUFFICES ASSUME Taken(f3, a, b) PROVE ISA!ImmB(w) = immediate_B(w) OBVIOUS
  <2>1. \A i \in 28 .. 31 : w[i] = w[i - 20] BY <1>3
  <2>2. ASSUME NEW i \in 0 .. 31
        PROVE  (IF i = 0 THEN 0 ELSE IF i = 11 THEN w[7]
                ELSE IF i < 5 THEN w[7 + i] ELSE IF i < 11 THEN w[20 + i] ELSE w[31])
               = (IF i = 0 THEN 0 ELSE IF i <= 4 THEN w[i + 27]
                  ELSE IF i <= 10 THEN w[i + 20] ELSE IF i = 11 THEN w[7] ELSE w[31])
    <3>1. CASE i \in 1 .. 4
      <4>1. i + 27 \in 28 .. 31 /\ i + 27 - 20 = 7 + i BY <3>1
      <4>2. w[i + 27] = w[7 + i] BY <2>1, <4>1
      <4> QED BY <3>1, <4>2
    <3>2. CASE i \notin 1 .. 4
      <4>1. 20 + i = i + 20 /\ (i < 11 <=> i <= 10) /\ (i < 5 <=> i <= 4) /\ (i <= 4 => i = 0) BY <3>2
      <4> QED BY <4>1
    <3> QED BY <3>1, <3>2
  <2> QED BY <2>2 DEF ISA!ImmB, immediate_B, ISA!Bits, Bits
<1>10. PC' = IF ISA!Compare(f3, a, b) THEN ISA!Add(PC, ISA!ImmB(w)) ELSE ISA!Plus(PC, 4)
  BY <1>7, <1>8, <1>9, SameSum, SamePlus
<1> QED BY <1>3, <1>6, <1>7, <1>10 DEF ISA!Next, ISA!Branch

(* jalr follows RISC-V if it goes to an even address (simulate.c:592-605). *)
LEMMA JalrFollows ==
  ASSUME TypeOK, Covered, Jalr PROVE ISA!Next \/ Stutters
<1>1. PICK ins \in Fetched({opcode_I_3}) :
        /\ IF ins.funct3 = 0 THEN Set(ins.rd, Plus(PC, 4)) /\ PC' = Add(ins.rs1, ins.immediate) ELSE NoBranch
        /\ UNCHANGED mem /\ KeepsRunning
  BY DEF Jalr
<1>2. Faithful(ins) /\ Decoded(ins) /\ ins.opcode = opcode_I_3 BY CoveredIs
<1> DEFINE w == ins.word
           to == Add(ins.rs1, ins.immediate)
<1>3. ins.rd # 0 /\ ins.funct3 = 0 /\ to[0] = 0
  BY <1>2 DEF Faithful, opcode_R, opcode_I_1, opcode_I_2, opcode_S, opcode_B, opcode_I_3, opcode_U_1, opcode_U_2
<1>4. ins.immediate = ISA!ImmI(w)
  <2>1. Field(w, 0, 7) = opcode_I_3 /\ ins.immediate = calculate_immediate(w) BY <1>2 DEF Decoded
  <2> HIDE DEF w
  <2>2. calculate_immediate(w) = immediate_I(w) BY <2>1, ImmediateOf
  <2> QED BY <2>1, <2>2, SameImmediates
<1>5. ISA!inst = w /\ ISA!opcode = 103 /\ ISA!funct3 = 0 /\ ISA!rs1 = ins.rs1 /\ ISA!rd = ins.rd
  BY <1>2, <1>3, SameDecoding DEF opcode_I_3
<1>6. ISA!Add(ISA!rs1, ISA!ImmI(ISA!inst)) = to BY <1>4, <1>5, SameSum
<1>7. to \in Word BY <1>2, AddWord DEF Decoded
<1>8. reg' = [reg EXCEPT ![ins.rd] = ISA!Plus(PC, 4)] /\ PC' = to /\ UNCHANGED mem BY <1>1, <1>3, SamePlus DEF Set
<1> HIDE DEF to
<1>9. [to EXCEPT ![0] = 0] = to
  <2>1. to = [i \in Bits |-> to[i]] BY <1>7, WordIs
  <2> QED BY <1>3, <2>1
<1>10. ISA!Write(ISA!Plus(PC, 4)) BY <1>3, <1>5, <1>8 DEF ISA!Write
<1> QED BY <1>5, <1>6, <1>8, <1>9, <1>10 DEF ISA!Next, ISA!Jalr

(* Of an operand of lui and auipc that is zero nothing is lost. *)
LEMMA UpperIsZero ==
  ASSUME NEW w \in Word, \A i \in 12 .. 31 : w[i] = 0, Field(w, 7, 5) \in 0 .. 15
  PROVE  /\ ShiftLeft(immediate_U(w), 12) = Zero /\ ISA!ImmU(w) = Zero
         /\ Field(w, 12, 3) = 0
<1>1. w[11] = 0
  <2>1. \A k \in 7 .. 7 + 4 : w[k] \in Bit
    <3>1. \A k \in 7 .. 7 + 4 : k \in 0 .. 31 OBVIOUS
    <3> QED BY <3>1, WordIs DEF Bit
  <2>2. 7 \in Nat OBVIOUS
  <2>3. Field(w, 7, 5) = 16 * w[7 + 4] + 8 * w[7 + 3] + 4 * w[7 + 2] + 2 * w[7 + 1] + w[7]
    BY <2>1, <2>2, ShortField
  <2>4. w[11] \in {0, 1} /\ w[10] \in {0, 1} /\ w[9] \in {0, 1} /\ w[8] \in {0, 1} /\ w[7] \in {0, 1} BY WordIs
  <2> HIDE DEF Field
  <2> QED BY <2>3, <2>4
<1>2. \A i \in 11 .. 31 : w[i] = 0
  <2>1. \A i \in 11 .. 31 : i = 11 \/ i \in 12 .. 31 OBVIOUS
  <2> QED BY <1>1, <2>1
<1>3. \A i \in 0 .. 31 : (IF i \in 11 .. 30 THEN w[i] ELSE 0) = 0
  <2>1. \A i \in 11 .. 30 : i \in 11 .. 31 OBVIOUS
  <2> QED BY <1>2, <2>1
<1>4. \A i \in 0 .. 31 : immediate_U(w)[i] = 0 BY <1>3 DEF immediate_U, Bits
<1> DEFINE imm == immediate_U(w)
<1> HIDE DEF imm
<1>5. ASSUME NEW i \in 0 .. 31 PROVE (IF i >= 12 THEN imm[i - 12] ELSE 0) = 0
  <2>1. i >= 12 => i - 12 \in 0 .. 31 OBVIOUS
  <2> QED BY <1>4, <2>1 DEF imm
<1>6. ShiftLeft(imm, 12) = Zero BY <1>5 DEF ShiftLeft, Zero, Bits
<1>7. \A i \in 0 .. 31 : (IF i < 12 THEN 0 ELSE w[i]) = 0
  <2>1. \A i \in 0 .. 31 : i < 12 \/ i \in 12 .. 31 OBVIOUS
  <2> QED BY <2>1
<1>8. ISA!ImmU(w) = Zero BY <1>7 DEF ISA!ImmU, ISA!Bits, Zero, Bits
<1>9. Field(w, 12, 3) = 0
  <2>1. 12 \in Nat /\ 3 \in Nat /\ 12 + 3 <= 32 OBVIOUS
  <2>2. \A k \in 12 .. 12 + 3 - 1 : w[k] = 0
    <3>1. \A k \in 12 .. 12 + 3 - 1 : k \in 12 .. 31 OBVIOUS
    <3> QED BY <3>1
  <2> QED BY <2>1, <2>2, FieldNat
<1> QED BY <1>6, <1>8, <1>9 DEF imm

(* lui and auipc follow RISC-V (simulate.c:606-623). *)
LEMMA UpperFollows ==
  ASSUME TypeOK, Covered, Lui \/ Auipc PROVE ISA!Next \/ Stutters
<1>1. PICK ins \in Fetched({opcode_U_1, opcode_U_2}) :
        /\ UNCHANGED mem
        /\ \/ ins.opcode = opcode_U_1 /\ Finish(ins.rd, {ShiftLeft(ins.immediate, 12)})
           \/ /\ ins.opcode = opcode_U_2
              /\ Finish(ins.rd, IF ins.funct3 = 0 THEN {Add(PC, ShiftLeft(ins.immediate, 12))} ELSE {})
  <2>1. CASE Lui
    <3>1. PICK ins \in Fetched({opcode_U_1}) : Finish(ins.rd, {ShiftLeft(ins.immediate, 12)}) /\ UNCHANGED mem
      BY <2>1 DEF Lui
    <3>2. ins \in Fetched({opcode_U_1, opcode_U_2}) /\ ins.opcode = opcode_U_1 BY DEF Fetched
    <3> QED BY <3>1, <3>2
  <2>2. CASE Auipc
    <3>1. PICK ins \in Fetched({opcode_U_2}) :
            /\ Finish(ins.rd, IF ins.funct3 = 0 THEN {Add(PC, ShiftLeft(ins.immediate, 12))} ELSE {})
            /\ UNCHANGED mem
      BY <2>2 DEF Auipc
    <3>2. ins \in Fetched({opcode_U_1, opcode_U_2}) /\ ins.opcode = opcode_U_2 BY DEF Fetched
    <3> QED BY <3>1, <3>2
  <2> QED BY <2>1, <2>2
<1>2. Faithful(ins) /\ Decoded(ins) /\ ins.opcode \in {opcode_U_1, opcode_U_2} BY CoveredIs
<1> DEFINE w == ins.word
<1>3. ins.rd \in 1 .. 15 /\ \A i \in 12 .. 31 : w[i] = 0
  BY <1>2 DEF Faithful, opcode_R, opcode_I_1, opcode_I_2, opcode_S, opcode_B, opcode_I_3, opcode_U_1, opcode_U_2
<1>4. w \in Word /\ ins.rd = Field(w, 7, 5) /\ ins.funct3 = Field(w, 12, 3) /\ ins.opcode = Field(w, 0, 7)
      /\ ins.immediate = calculate_immediate(w)
  BY <1>2 DEF Decoded
<1> HIDE DEF w
<1>5. ShiftLeft(immediate_U(w), 12) = Zero /\ ISA!ImmU(w) = Zero /\ Field(w, 12, 3) = 0
  <2>1. Field(w, 7, 5) \in 0 .. 15 BY <1>3, <1>4
  <2> QED BY <1>3, <1>4, <2>1, UpperIsZero
<1>6. ins.immediate = immediate_U(w) BY <1>2, <1>4, ImmediateOf
<1>7. ISA!ImmU(ISA!inst) = Zero
  <2>1. ISA!inst = w BY <1>2, SameDecoding DEF w
  <2> QED BY <1>5, <2>1
<1>8. PC \in Word BY DEF TypeOK
<1>9. CASE ins.opcode = opcode_U_1
  <2>1. ins.opcode # opcode_U_2 BY <1>9 DEF opcode_U_1, opcode_U_2
  <2>2. Finish(ins.rd, {Zero}) BY <1>1, <1>5, <1>6, <2>1
  <2>3. ISA!Write(Zero) /\ ISA!Follow BY <1>1, <1>2, <1>3, <2>2, FinishIs
  <2>4. ISA!opcode = 55 BY <1>2, <1>9, SameDecoding DEF opcode_U_1
  <2> QED BY <1>7, <2>3, <2>4 DEF ISA!Next, ISA!Lui
<1>10. CASE ins.opcode = opcode_U_2
  <2>1. ins.opcode # opcode_U_1 BY <1>10 DEF opcode_U_1, opcode_U_2
  <2>2. ins.funct3 = 0 BY <1>4, <1>5
  <2>3. Add(PC, Zero) = PC BY <1>8, AddZero
  <2>4. Finish(ins.rd, {Add(PC, Zero)}) BY <1>1, <1>5, <1>6, <2>1, <2>2
  <2>5. ISA!Write(Add(PC, Zero)) /\ ISA!Follow BY <1>1, <1>2, <1>3, <2>4, FinishIs
  <2>6. ISA!opcode = 23 BY <1>2, <1>10, SameDecoding DEF opcode_U_2
  <2>7. ISA!Add(PC, ISA!ImmU(ISA!inst)) = Add(PC, Zero) BY <1>7, SameSum
  <2> QED BY <2>5, <2>6, <2>7 DEF ISA!Next, ISA!Auipc
<1> QED BY <1>2, <1>9, <1>10

(* The other instructions and steps are not covered, end the simulation or change nothing. *)
LEMMA OthersFollow ==
  ASSUME TypeOK, Covered, phase' = "running",
         \/ LoaderNext /\ UNCHANGED <<reg, PC>>
         \/ Begin \/ RegisterTrap \/ Jal \/ Ecall \/ Unknown \/ FetchUnaligned
  PROVE  Stutters
<1>1. Executing BY FetchedIs DEF Covered
<1>2. phase = "running" /\ WordAligned(PC) BY <1>1 DEF Executing
<1>3. ~ LoaderNext /\ ~ Begin
  BY <1>2 DEF LoaderNext, PassArgs, OpenListing, ReadData, ReadInsn, ReadEntry, ReadOther, NextLine, Begin, FinishLoading
<1>4. ~ FetchUnaligned BY <1>2 DEF FetchUnaligned
<1>5. ~ RegisterTrap BY NotDying DEF RegisterTrap
<1>6. ASSUME NEW ins \in Fetched({opcode_J, opcode_I_4}) PROVE FALSE
  <2>1. Faithful(ins) /\ ins.opcode \in {opcode_J, opcode_I_4} BY CoveredIs
  <2> QED BY <2>1 DEF Faithful, opcode_R, opcode_I_1, opcode_I_2, opcode_S, opcode_B, opcode_I_3, opcode_U_1, opcode_U_2,
                      opcode_J, opcode_I_4
<1>7. ~ Jal
  <2>1. Fetched({opcode_J}) \subseteq Fetched({opcode_J, opcode_I_4}) BY DEF Fetched
  <2> QED BY <1>6, <2>1 DEF Jal
<1>8. ~ Ecall
  <2>1. Fetched({opcode_I_4}) \subseteq Fetched({opcode_J, opcode_I_4}) BY DEF Fetched
  <2> QED BY <1>6, <2>1 DEF Ecall
<1>9. CASE Unknown BY <1>9 DEF Unknown, Stutters, vars, loaderVars
<1> QED BY <1>3, <1>4, <1>5, <1>7, <1>8, <1>9

(* A covered instruction changes registers, PC and memory as the specification of RISC-V says,   *)
(* for every word that is an instruction and whatever registers and memory hold: each branch of  *)
(* the switch in simulate, with calculate_immediate and the memory's reads and writes, computes  *)
(* what RISC-V defines, where Faithful does not except it.                                       *)
THEOREM SimulatorFollowsISA == Spec => FollowsISA
<1>1. TypeOK /\ [Next]_vars => [Covered /\ phase' = "running" => ISA!Next]_<<phase, reg, PC, mem>>
  <2> SUFFICES ASSUME TypeOK, [Next]_vars, Covered, phase' = "running"
               PROVE  ISA!Next \/ Stutters
    BY DEF Stutters
  <2>1. CASE UNCHANGED vars BY <2>1 DEF Stutters, vars, loaderVars
  <2>2. CASE Register BY <2>2, RegisterFollows
  <2>3. CASE Immediate BY <2>3, ImmediateFollows
  <2>4. CASE Load BY <2>4, LoadFollows
  <2>5. CASE Store BY <2>5, StoreFollows
  <2>6. CASE Branch BY <2>6, BranchFollows
  <2>7. CASE Jalr BY <2>7, JalrFollows
  <2>8. CASE Lui \/ Auipc BY <2>8, UpperFollows
  <2>9. CASE \/ LoaderNext /\ UNCHANGED <<reg, PC>>
             \/ Begin \/ RegisterTrap \/ Jal \/ Ecall \/ Unknown \/ FetchUnaligned
    BY <2>9, OthersFollow
  <2> QED BY <2>1, <2>2, <2>3, <2>4, <2>5, <2>6, <2>7, <2>8, <2>9 DEF Next
<1> QED BY <1>1, SimulatorTypeCorrect, PTL DEF Spec, FollowsISA
=============================================================================
