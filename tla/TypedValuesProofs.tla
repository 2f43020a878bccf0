-------------------------- MODULE TypedValuesProofs --------------------------
(***************************************************************************)
(* What TypedValues promises, for every set of objects, every width of a   *)
(* number and every length of an item: types, the number incr tells, that  *)
(* what was stored is read, and that atomic_update of the Python wrapper   *)
(* replaces what its callback was given.                                   *)
(*                                                                         *)
(* First what the conversions and the protocols do to data, then what each *)
(* command does to the item and what is told of it, then the invariant.    *)
(***************************************************************************)
EXTENDS TypedValues, SequenceTheorems, WellFoundedInduction, FiniteSetTheorems, TLAPS

-----------------------------------------------------------------------------
(* Decimal text: what is printed is what is read                           *)

(* Every set of natural numbers has a least one.                           *)
LEMMA Minimum ==
    ASSUME NEW T, T \subseteq Nat, T # {}
    PROVE  \E x \in T : \A y \in T : x <= y
<1>1. PICK x \in T : \A y \in T : <<y, x>> \notin OpToRel(<, Nat)
  BY WFMin, NatLessThanWellFounded
<1>2. \A y \in T : x \in Nat /\ y \in Nat /\ ~(y < x)
  BY <1>1 DEF OpToRel
<1> QED BY <1>2

(* A set of natural numbers in which there is always a smaller one is      *)
(* empty.                                                                  *)
LEMMA Descent ==
    ASSUME NEW T, T \subseteq Nat, \A k \in T : \E j \in T : j < k
    PROVE  T = {}
<1>1. ASSUME T # {} PROVE FALSE
  <2>1. PICK k \in T : \A j \in T : k <= j
    BY <1>1, Minimum
  <2>2. PICK j \in T : j < k
    OBVIOUS
  <2> QED BY <2>1, <2>2
<1> QED BY <1>1

DigitSet == {Digits[i] : i \in 1 .. 10}

(* The first place of what is looked for.                                  *)
LEMMA FirstIs ==
    ASSUME NEW I, NEW k \in I, I \subseteq Nat, \A i \in I : k <= i
    PROVE  Min(I) = k
<1> DEFINE m == CHOOSE x \in I : \A y \in I : x <= y
<1>1. m \in I /\ m <= k
  OBVIOUS
<1>2. k <= m
  BY <1>1
<1> HIDE DEF m
<1>3. m = k
  BY <1>1, <1>2
<1> QED BY <1>3 DEF m, Min

(* What Digits are: ten different characters.                              *)
LEMMA DigitsAre ==
    /\ Len(Digits) = 10
    /\ \A i, j \in 1 .. 10 : Digits[i] = Digits[j] => i = j
    /\ \A i \in 1 .. 10 : Digits[i] \notin {" ", "-", ".", "P", "<", ">"}
<1>1. Len(Digits) = 10
  BY DEF Digits
<1>2. ASSUME NEW i \in 1 .. 10
      PROVE  Digits[i] \in {"0", "1", "2", "3", "4", "5", "6", "7", "8", "9"}
  <2>1. i \in {1, 2, 3, 4, 5, 6, 7, 8, 9, 10}
    OBVIOUS
  <2> QED BY <2>1 DEF Digits
<1>3. ASSUME NEW i \in 1 .. 10, NEW j \in 1 .. 10, Digits[i] = Digits[j] PROVE i = j
  BY <1>3 DEF Digits
<1> QED BY <1>1, <1>2, <1>3

(* A digit denotes its place in Digits.                                    *)
LEMMA DigitOfIs ==
    ASSUME NEW k \in 0 .. 9
    PROVE  DigitOf(Digits[k + 1]) = k
<1> DEFINE I == {i \in 1 .. Len(Digits) : Digits[i] = Digits[k + 1]}
<1>1. I = {k + 1}
  <2>1. k + 1 \in 1 .. 10
    OBVIOUS
  <2>2. I = {i \in 1 .. 10 : Digits[i] = Digits[k + 1]}
    BY DigitsAre
  <2>3. \A i \in 1 .. 10 : Digits[i] = Digits[k + 1] => i = k + 1
    BY <2>1, DigitsAre
  <2> HIDE DEF I
  <2> QED BY <2>1, <2>2, <2>3
<1>2. Min(I) = k + 1
  BY <1>1 DEF Min
<1>3. SelectInSeq(Digits, LAMBDA d : d = Digits[k + 1]) = k + 1
  BY <1>1, <1>2 DEF SelectInSeq
<1> QED BY <1>3 DEF DigitOf

(* The digit at a place denotes that place.                                *)
LEMMA DigitAt ==
    ASSUME NEW k \in 0 .. 9
    PROVE  Digits[k + 1] \in DigitSet
<1>1. k + 1 \in 1 .. 10
  OBVIOUS
<1> QED BY <1>1 DEF DigitSet

(* IsDigit accepts the digits, and them alone.                             *)
LEMMA IsDigitIs == \A c : IsDigit(c) <=> c \in DigitSet
  BY DigitsAre DEF IsDigit, Contains, DigitSet

(* A digit denotes one of ten numbers and is no other character that is    *)
(* looked for.                                                             *)
LEMMA DigitType ==
    \A c \in DigitSet : DigitOf(c) \in 0 .. 9 /\ c \notin {" ", "-", ".", "P", "<", ">"}
<1>1. ASSUME NEW c \in DigitSet PROVE \E k \in 0 .. 9 : c = Digits[k + 1]
   <2>1. PICK i \in 1 .. 10 : c = Digits[i]
     BY DEF DigitSet
   <2>2. i - 1 \in 0 .. 9 /\ (i - 1) + 1 = i
     OBVIOUS
   <2> QED BY <2>1, <2>2
<1>2. ASSUME NEW c \in DigitSet
      PROVE  DigitOf(c) \in 0 .. 9 /\ c \notin {" ", "-", ".", "P", "<", ">"}
  <2>1. PICK k \in 0 .. 9 : c = Digits[k + 1]
    BY <1>1
  <2>2. DigitOf(c) = k /\ k + 1 \in 1 .. 10
    BY <2>1, DigitOfIs
  <2> QED BY <2>1, <2>2, DigitsAre
<1> QED BY <1>2

(* What a sequence is made of                                              *)
LEMMA ReadingIs ==
    ASSUME NEW n \in Nat, NEW D, D \in [1 .. n -> 0 .. 9]
    PROVE  \E f \in [0 .. n -> Nat] :
              f = [i \in 0 .. n |-> IF i = 0 THEN 0 ELSE 10 * f[i - 1] + D[i]]
<1> DEFINE Good(k, f) ==
              /\ f \in [0 .. k -> Nat] /\ f[0] = 0
              /\ \A i \in 1 .. k : f[i] = 10 * f[i - 1] + D[i]
           Bad == {k \in 0 .. n : ~ \E f : Good(k, f)}
<1>1. ASSUME NEW k \in Bad PROVE \E j \in Bad : j < k
  <2>1. k \in 0 .. n
    OBVIOUS
  <2>2. k # 0
    <3>1. Good(0, [i \in 0 .. 0 |-> 0])
      OBVIOUS
    <3> QED BY <3>1
  <2>3. k \in 1 .. n /\ k - 1 \in 0 .. n /\ k - 1 < k
    BY <2>1, <2>2
  <2>4. ASSUME k - 1 \notin Bad PROVE FALSE
    <3>1. PICK g : Good(k - 1, g)
      BY <2>3, <2>4
    <3> DEFINE f == [i \in 0 .. k |-> IF i = k THEN 10 * g[k - 1] + D[k] ELSE g[i]]
    <3>2. g[k - 1] \in Nat /\ D[k] \in 0 .. 9
      BY <2>3, <3>1
    <3>3. f \in [0 .. k -> Nat] /\ f[0] = 0
      BY <2>3, <3>1, <3>2
    <3>4. ASSUME NEW i \in 1 .. k PROVE f[i] = 10 * f[i - 1] + D[i]
      <4>1. CASE i = k
        BY <2>3, <4>1
      <4>2. CASE i # k
        <5>1. i \in 1 .. k - 1 /\ i \in 0 .. k /\ i - 1 \in 0 .. k /\ i - 1 # k
          BY <2>3, <4>2
        <5> QED BY <3>1, <4>2, <5>1
      <4> QED BY <4>1, <4>2
    <3>5. Good(k, f)
      BY <3>3, <3>4
    <3> QED BY <3>5
  <2> QED BY <2>3, <2>4
<1> HIDE DEF Good
<1>2. Bad \subseteq Nat
  OBVIOUS
<1> HIDE DEF Bad
<1>3. Bad = {}
  BY <1>1, <1>2, Descent
<1>4. PICK f : Good(n, f)
  <2>1. n \in 0 .. n
    OBVIOUS
  <2> QED BY <1>3, <2>1 DEF Bad
<1>5. f \in [0 .. n -> Nat]
  BY <1>4 DEF Good
<1>6. f = [i \in 0 .. n |-> IF i = 0 THEN 0 ELSE 10 * f[i - 1] + D[i]]
  <2>1. ASSUME NEW i \in 0 .. n
        PROVE  f[i] = IF i = 0 THEN 0 ELSE 10 * f[i - 1] + D[i]
    BY <1>4 DEF Good
  <2> QED BY <1>5, <2>1
<1> QED BY <1>5, <1>6

(* The numbers that the beginnings of a sequence of digits denote.         *)
LEMMA ReadingValues ==
    ASSUME NEW s \in Seq(DigitSet)
    PROVE  \E v \in [0 .. Len(s) -> Nat] :
              /\ v[0] = 0
              /\ \A i \in 1 .. Len(s) : v[i] = 10 * v[i - 1] + DigitOf(s[i])
              /\ Reading(s) = v[Len(s)]
<1> DEFINE n == Len(s)
           D == [i \in 1 .. n |-> DigitOf(s[i])]
           Good(f) == f = [i \in 0 .. n |-> IF i = 0 THEN 0 ELSE 10 * f[i - 1] + DigitOf(s[i])]
           v == CHOOSE f : Good(f)
<1>1. n \in Nat /\ \A i \in 1 .. n : s[i] \in DigitSet
  OBVIOUS
<1>2. Reading(s) = v[n]
  BY DEF Reading
<1> HIDE DEF n
<1>3. D \in [1 .. n -> 0 .. 9]
  BY <1>1, DigitType
<1> HIDE DEF D
<1>4. PICK f \in [0 .. n -> Nat] :
              f = [i \in 0 .. n |-> IF i = 0 THEN 0 ELSE 10 * f[i - 1] + D[i]]
  BY <1>1, <1>3, ReadingIs
<1>5. Good(f)
  <2>1. ASSUME NEW i \in 0 .. n
        PROVE  f[i] = IF i = 0 THEN 0 ELSE 10 * f[i - 1] + DigitOf(s[i])
    <3>1. i # 0 => D[i] = DigitOf(s[i])
      BY DEF D
    <3> QED BY <1>4, <3>1
  <2>2. f = [i \in 0 .. n |-> f[i]]
    OBVIOUS
  <2> QED BY <2>1, <2>2
<1>6. Good(v)
  BY <1>5
<1> HIDE DEF v
<1>7. v[0] = 0 /\ \A i \in 1 .. n : v[i] = 10 * v[i - 1] + DigitOf(s[i])
  BY <1>1, <1>6
<1> DEFINE Bad == {i \in 0 .. n : v[i] \notin Nat}
<1>8. ASSUME NEW i \in Bad PROVE \E j \in Bad : j < i
  <2>1. i \in 1 .. n /\ i - 1 \in 0 .. n /\ i - 1 < i
    BY <1>1, <1>7
  <2>2. DigitOf(s[i]) \in 0 .. 9 /\ v[i] = 10 * v[i - 1] + DigitOf(s[i])
    BY <1>1, <1>7, <2>1, DigitType
  <2>3. \A w \in Nat, d \in 0 .. 9 : 10 * w + d \in Nat
    OBVIOUS
  <2>4. v[i] \notin Nat
    OBVIOUS
  <2> DEFINE w == v[i - 1]
             d == DigitOf(s[i])
  <2>5. d \in 0 .. 9 /\ 10 * w + d \notin Nat
    BY <2>2, <2>4
  <2> HIDE DEF w, d
  <2>6. w \notin Nat
    BY <2>3, <2>5
  <2> QED BY <2>1, <2>6 DEF w
<1>9. Bad \subseteq Nat
  BY <1>1
<1>10. Bad = {}
  <2> HIDE DEF Bad
  <2> QED BY <1>8, <1>9, Descent
<1>11. v \in [0 .. n -> Nat]
  <2>1. \A i \in 0 .. n : v[i] \in Nat
    BY <1>10
  <2>2. v = [i \in 0 .. n |-> v[i]]
    BY <1>6
  <2> QED BY <2>1, <2>2
<1> QED BY <1>2, <1>7, <1>11 DEF n

(* Digits denote a natural number.                                         *)
LEMMA ReadingType ==
    ASSUME NEW s \in Seq(DigitSet)
    PROVE  Reading(s) \in Nat
  BY ReadingValues

(* One more digit                                                          *)
LEMMA ReadingAppend ==
    ASSUME NEW s \in Seq(DigitSet), NEW c \in DigitSet
    PROVE  Reading(Append(s, c)) = 10 * Reading(s) + DigitOf(c)
<1> DEFINE t == Append(s, c)
           n == Len(s)
<1>1. t \in Seq(DigitSet) /\ Len(t) = n + 1 /\ n \in Nat /\ t[n + 1] = c
      /\ \A i \in 1 .. n : t[i] = s[i]
  OBVIOUS
<1>2. PICK v \in [0 .. n -> Nat] :
              /\ v[0] = 0
              /\ \A i \in 1 .. n : v[i] = 10 * v[i - 1] + DigitOf(s[i])
              /\ Reading(s) = v[n]
  BY ReadingValues
<1> HIDE DEF t
<1>3. PICK w \in [0 .. n + 1 -> Nat] :
              /\ w[0] = 0
              /\ \A i \in 1 .. n + 1 : w[i] = 10 * w[i - 1] + DigitOf(t[i])
              /\ Reading(t) = w[n + 1]
  BY <1>1, ReadingValues
<1> DEFINE Bad == {i \in 0 .. n : v[i] # w[i]}
<1> HIDE DEF n
<1>4. Bad = {}
  <2>1. ASSUME NEW i \in Bad PROVE \E j \in Bad : j < i
    <3>1. i \in 1 .. n /\ i - 1 \in 0 .. n /\ i - 1 < i
      BY <1>1, <1>2, <1>3
    <3>2. v[i] = 10 * v[i - 1] + DigitOf(s[i]) /\ w[i] = 10 * w[i - 1] + DigitOf(s[i])
      BY <1>1, <1>2, <1>3, <3>1
    <3>3. v[i - 1] # w[i - 1]
      BY <3>2
    <3> QED BY <3>1, <3>3
  <2>2. Bad \subseteq Nat
    BY <1>1
  <2> HIDE DEF Bad
  <2> QED BY <2>1, <2>2, Descent
<1>5. w[n] = v[n]
  <2>1. n \in 0 .. n
    BY <1>1
  <2> QED BY <1>4, <2>1
<1>6. w[n + 1] = 10 * w[n] + DigitOf(c)
  BY <1>1, <1>3
<1> QED BY <1>2, <1>3, <1>5, <1>6 DEF t, n

(* A digit alone                                                           *)
LEMMA ReadingOne ==
    ASSUME NEW c \in DigitSet
    PROVE  Reading(<<c>>) = DigitOf(c)
<1>1. Reading(<<>>) = 0
  <2>1. <<>> \in Seq(DigitSet) /\ Len(<<>>) = 0
    OBVIOUS
  <2> QED BY <2>1, ReadingValues
<1>2. Append(<<>>, c) = <<c>>
  OBVIOUS
<1>3. <<>> \in Seq(DigitSet)
  OBVIOUS
<1>4. Reading(Append(<<>>, c)) = 10 * Reading(<<>>) + DigitOf(c)
  BY <1>3, ReadingAppend
<1>5. DigitOf(c) \in 0 .. 9
  BY DigitType
<1>6. Reading(<<c>>) = 10 * 0 + DigitOf(c)
  BY <1>1, <1>2, <1>4
<1> QED BY <1>5, <1>6

-----------------------------------------------------------------------------
(* Text                                                                    *)

(* The last digit of a number, and the number without it.                  *)
LEMMA Tens ==
    ASSUME NEW n \in Nat, n >= 10
    PROVE  n \div 10 \in Nat /\ n \div 10 < n /\ n % 10 \in 0 .. 9
           /\ n = 10 * (n \div 10) + (n % 10)
  OBVIOUS

(* Text is what its definition says of it, on 0 .. k.                      *)
IsText(k, f) ==
    /\ f \in [0 .. k -> Seq(DigitSet)]
    /\ \A n \in 0 .. k :
          f[n] = IF n < 10 THEN <<Digits[n + 1]>>
                 ELSE Append(f[n \div 10], Digits[(n % 10) + 1])

(* What it takes for a function to be Text up to a number.                 *)
LEMMA IsTextIs ==
   ASSUME NEW k \in Nat
   PROVE  \E f : IsText(k, f)
<1> DEFINE Bad == {m \in Nat : ~ \E f : IsText(m, f)}
<1>1. ASSUME NEW m \in Bad PROVE \E j \in Bad : j < m
  <2>1. m # 0
    <3> DEFINE f == [n \in 0 .. 0 |-> <<Digits[1]>>]
    <3>1. f \in [0 .. 0 -> Seq(DigitSet)] /\ f[0] = <<Digits[0 + 1]>>
      BY DEF DigitSet
    <3>2. IsText(0, f)
      BY <3>1 DEF IsText
    <3> QED BY <3>2
  <2>2. m - 1 \in Nat /\ m - 1 < m /\ m \in Nat
    BY <2>1
  <2>3. ASSUME m - 1 \notin Bad PROVE FALSE
    <3>1. PICK g : IsText(m - 1, g)
      BY <2>2, <2>3
    <3> DEFINE new == IF m < 10 THEN <<Digits[m + 1]>>
                      ELSE Append(g[m \div 10], Digits[(m % 10) + 1])
               f == [i \in 0 .. m |-> IF i = m THEN new ELSE g[i]]
    <3>2. new \in Seq(DigitSet)
      <4>1. CASE m < 10
        <5>1. Digits[m + 1] \in DigitSet
          BY <4>1, <2>2 DEF DigitSet
        <5> QED BY <4>1, <5>1
      <4>2. CASE m >= 10
        <5>1. m % 10 \in 0 .. 9 /\ m \div 10 \in 0 .. m - 1
          BY <2>2, <4>2, Tens
        <5>2. Digits[(m % 10) + 1] \in DigitSet
          BY <5>1, DigitAt
        <5>3. g[m \div 10] \in Seq(DigitSet)
          BY <5>1, <3>1 DEF IsText
        <5> QED BY <4>2, <5>2, <5>3
      <4> QED BY <4>1, <4>2, <2>2
    <3> HIDE DEF new
    <3>3. f \in [0 .. m -> Seq(DigitSet)]
      BY <2>2, <3>1, <3>2 DEF IsText
    <3>4. ASSUME NEW i \in 0 .. m
          PROVE  f[i] = IF i < 10 THEN <<Digits[i + 1]>>
                        ELSE Append(f[i \div 10], Digits[(i % 10) + 1])
      <4>1. i >= 10 => i \div 10 \in 0 .. m - 1
        BY <2>2, Tens
      <4>2. i >= 10 => f[i \div 10] = g[i \div 10]
        BY <2>2, <4>1
      <4>3. CASE i = m
        BY <4>2, <4>3 DEF new
      <4>4. CASE i # m
        <5>1. i \in 0 .. m - 1 /\ f[i] = g[i]
          BY <2>2, <4>4
        <5>2. g[i] = IF i < 10 THEN <<Digits[i + 1]>>
                     ELSE Append(g[i \div 10], Digits[(i % 10) + 1])
          BY <3>1, <5>1 DEF IsText
        <5> QED BY <4>2, <5>1, <5>2
      <4> QED BY <4>3, <4>4
    <3> HIDE DEF f
    <3>5. IsText(m, f)
      BY <3>3, <3>4 DEF IsText
    <3> QED BY <3>5
  <2> QED BY <2>2, <2>3
<1>2. Bad \subseteq Nat
  OBVIOUS
<1>3. Bad = {}
  <2> HIDE DEF Bad
  <2> QED BY <1>1, <1>2, Descent
<1> QED BY <1>3

(* Two such functions agree.                                               *)
LEMMA SameText ==
    ASSUME NEW a \in Nat, NEW b \in Nat, a <= b, NEW f, NEW g, IsText(a, f), IsText(b, g),
           NEW n \in 0 .. a
    PROVE  f[n] = g[n]
<1> DEFINE Bad == {i \in 0 .. a : f[i] # g[i]}
<1>1. ASSUME NEW i \in Bad PROVE \E j \in Bad : j < i
  <2>1. /\ f[i] = IF i < 10 THEN <<Digits[i + 1]>>
                   ELSE Append(f[i \div 10], Digits[(i % 10) + 1])
        /\ g[i] = IF i < 10 THEN <<Digits[i + 1]>>
                   ELSE Append(g[i \div 10], Digits[(i % 10) + 1])
    <3>1. i \in 0 .. a /\ i \in 0 .. b
      OBVIOUS
    <3> QED BY <3>1 DEF IsText
  <2>2. ~(i < 10) /\ f[i \div 10] # g[i \div 10]
    BY <2>1
  <2>3. i \div 10 \in 0 .. a /\ i \div 10 < i
    BY <2>2, Tens
  <2> QED BY <2>2, <2>3
<1>2. Bad \subseteq Nat
  OBVIOUS
<1>3. Bad = {}
  <2> HIDE DEF Bad
  <2> QED BY <1>1, <1>2, Descent
<1> QED BY <1>3

(* Text is defined for every natural number, and is a sequence of digits.  *)
LEMMA TextIs ==
    /\ Text \in [Nat -> Seq(DigitSet)]
    /\ \A n \in Nat : Text[n] = IF n < 10 THEN <<Digits[n + 1]>>
                                ELSE Append(Text[n \div 10], Digits[(n % 10) + 1])
<1> DEFINE Upto(k) == CHOOSE f : IsText(k, f)
           F == [n \in Nat |-> Upto(n)[n]]
           Good(f) == f = [n \in Nat |-> IF n < 10 THEN <<Digits[n + 1]>>
                                        ELSE Append(f[n \div 10], Digits[(n % 10) + 1])]
<1>1. \A k \in Nat : IsText(k, Upto(k))
  BY IsTextIs
<1> HIDE DEF Upto
<1>2. ASSUME NEW n \in Nat
      PROVE  F[n] = IF n < 10 THEN <<Digits[n + 1]>>
                    ELSE Append(F[n \div 10], Digits[(n % 10) + 1])
  <2>1. F[n] = IF n < 10 THEN <<Digits[n + 1]>>
               ELSE Append(Upto(n)[n \div 10], Digits[(n % 10) + 1])
    <3>1. n \in 0 .. n /\ IsText(n, Upto(n)) /\ F[n] = Upto(n)[n]
      BY <1>1
    <3> HIDE DEF F
    <3> QED BY <3>1 DEF IsText
  <2>2. ASSUME n >= 10 PROVE F[n \div 10] = Upto(n)[n \div 10]
    <3>1. n \div 10 \in Nat /\ n \div 10 <= n /\ n \div 10 \in 0 .. n \div 10
      BY <2>2, Tens
    <3>2. IsText(n \div 10, Upto(n \div 10)) /\ IsText(n, Upto(n))
      BY <1>1, <3>1
    <3>3. Upto(n \div 10)[n \div 10] = Upto(n)[n \div 10]
      BY <3>1, <3>2, SameText
    <3> QED BY <3>1, <3>3
  <2> QED BY <2>1, <2>2
<1>3. Good(F)
  BY <1>2
<1>4. Text = CHOOSE f : Good(f)
  BY DEF Text
<1>5. Good(Text)
  <2> HIDE DEF F
  <2> QED BY <1>3, <1>4
<1>6. \A n \in Nat : Text[n] = IF n < 10 THEN <<Digits[n + 1]>>
                                ELSE Append(Text[n \div 10], Digits[(n % 10) + 1])
  BY <1>5
<1> DEFINE Bad == {n \in Nat : Text[n] \notin Seq(DigitSet)}
<1> HIDE DEF Good
<1>7. ASSUME NEW n \in Bad PROVE \E j \in Bad : j < n
  <2>1. n \in Nat
    OBVIOUS
  <2>2. CASE n < 10
    <3>1. Text[n] = <<Digits[n + 1]>>
      BY <1>6, <2>1, <2>2
    <3>2. Digits[n + 1] \in DigitSet
      BY <2>1, <2>2, DigitAt
    <3>3. Text[n] \in Seq(DigitSet)
      BY <3>1, <3>2
    <3> QED BY <3>3
  <2>3. CASE ~(n < 10)
    <3>1. n \div 10 \in Nat /\ n \div 10 < n /\ n % 10 \in 0 .. 9
      BY <2>1, <2>3, Tens
    <3>2. Text[n] = Append(Text[n \div 10], Digits[(n % 10) + 1])
      BY <1>6, <2>1, <2>3
    <3>3. Digits[(n % 10) + 1] \in DigitSet
      BY <3>1, DigitAt
    <3>4. Text[n \div 10] \notin Seq(DigitSet)
      <4>1. ASSUME Text[n \div 10] \in Seq(DigitSet) PROVE Text[n] \in Seq(DigitSet)
        BY <3>2, <3>3, <4>1
      <4> QED BY <4>1
    <3> QED BY <3>1, <3>4
  <2> QED BY <2>2, <2>3
<1>8. Bad \subseteq Nat
  OBVIOUS
<1>9. Bad = {}
  <2> HIDE DEF Bad
  <2> QED BY <1>7, <1>8, Descent
<1>10. Text = [n \in Nat |-> Text[n]]
  BY <1>5 DEF Good
<1> QED BY <1>6, <1>9, <1>10

(* The text of a number of one digit                                       *)
LEMMA TextShort ==
    ASSUME NEW n \in 0 .. 9
    PROVE  Text[n] = <<Digits[n + 1]>>
<1>1. n \in Nat /\ n < 10
  OBVIOUS
<1> QED BY <1>1, TextIs

(* The text of a longer number                                             *)
LEMMA TextLong ==
    ASSUME NEW n \in Nat, n >= 10
    PROVE  /\ Text[n \div 10] \in Seq(DigitSet)
           /\ Text[n] = Append(Text[n \div 10], Digits[(n % 10) + 1])
<1>1. ~(n < 10) /\ n \div 10 \in Nat
  BY Tens
<1>2. Text[n] = IF n < 10 THEN <<Digits[n + 1]>>
                ELSE Append(Text[n \div 10], Digits[(n % 10) + 1])
  BY TextIs
<1> QED BY <1>1, <1>2, TextIs

(* No text is empty.                                                       *)
LEMMA TextLength ==
    ASSUME NEW n \in Nat
    PROVE  Len(Text[n]) \in Nat \ {0}
<1>1. CASE n < 10
  <2>1. Text[n] = <<Digits[n + 1]>>
    BY <1>1, TextShort
  <2> QED BY <2>1
<1>2. CASE n >= 10
  <2>1. /\ Text[n \div 10] \in Seq(DigitSet)
        /\ Text[n] = Append(Text[n \div 10], Digits[(n % 10) + 1])
    BY <1>2, TextLong
  <2> QED BY <2>1
<1> QED BY <1>1, <1>2

(* The digits of a number denote it.                                       *)
LEMMA TextReads ==
    ASSUME NEW n \in Nat
    PROVE  Reading(Text[n]) = n
<1> DEFINE Bad == {m \in Nat : Reading(Text[m]) # m}
<1>1. ASSUME NEW m \in Bad PROVE \E j \in Bad : j < m
  <2>1. m \in Nat
    OBVIOUS
  <2>2. CASE m < 10
    <3>1. m \in 0 .. 9 /\ Text[m] = <<Digits[m + 1]>>
      BY <2>1, <2>2, TextShort
    <3>2. Reading(Text[m]) = m
      BY <3>1, DigitAt, DigitOfIs, ReadingOne
    <3> QED BY <3>2
  <2>3. CASE m >= 10
    <3>1. /\ m \div 10 \in Nat /\ m \div 10 < m /\ m % 10 \in 0 .. 9
          /\ m = 10 * (m \div 10) + (m % 10)
      BY <2>1, <2>3, Tens
    <3> DEFINE t == m \div 10
               u == m % 10
    <3>2. t \in Nat /\ t < m /\ u \in 0 .. 9 /\ m = 10 * t + u
      BY <3>1
    <3>3. Text[m] = Append(Text[t], Digits[u + 1]) /\ Text[t] \in Seq(DigitSet)
      BY <2>1, <2>3, TextLong
    <3> HIDE DEF t, u
    <3>4. Reading(Text[m]) = 10 * Reading(Text[t]) + u
      BY <3>2, <3>3, DigitAt, DigitOfIs, ReadingAppend
    <3>5. Reading(Text[t]) # t
      BY <3>2, <3>4
    <3> QED BY <3>2, <3>5
  <2> QED BY <2>1, <2>2, <2>3
<1>2. Bad \subseteq Nat
  OBVIOUS
<1>3. Bad = {}
  <2> HIDE DEF Bad
  <2> QED BY <1>1, <1>2, Descent
<1> QED BY <1>3

-----------------------------------------------------------------------------
(* The leading digits, and what follows                                    *)

(* In a text that is digits and then something else.                       *)
LEMMA LeadingDigits ==
    ASSUME NEW S, DigitSet \subseteq S, NEW s \in Seq(DigitSet), NEW r \in Seq(S),
           r # <<>> => r[1] \notin DigitSet
    PROVE  /\ Leading(s \o r, IsDigit) = s
           /\ After(s \o r, s) = r
<1> DEFINE t == s \o r
           n == Len(s)
           I == {i \in 1 .. Len(t) : ~IsDigit(t[i])}
<1>1. /\ t \in Seq(S) /\ n \in Nat /\ Len(r) \in Nat /\ Len(t) = n + Len(r)
      /\ \A i \in 1 .. n : t[i] = s[i] /\ s[i] \in DigitSet
      /\ \A i \in n + 1 .. Len(t) : t[i] = r[i - n]
  <2>1. s \in Seq(S)
    OBVIOUS
  <2> QED BY <2>1
<1>2. \A i \in I : i \in 1 .. Len(t) /\ n < i
  BY <1>1, IsDigitIs
<1>3. After(t, s) = r
  BY <1>1 DEF After
<1>4. CASE r = <<>>
  <2>1. I = {}
    BY <1>1, <1>2, <1>4
  <2>2. Leading(t, IsDigit) = t
    BY <2>1 DEF Leading, SelectInSeq
  <2>3. t = s
    BY <1>4
  <2> QED BY <1>3, <2>2, <2>3
<1>5. CASE r # <<>>
  <2>1. Len(r) >= 1 /\ n + 1 \in 1 .. Len(t) /\ t[n + 1] = r[1]
    BY <1>1, <1>5
  <2>2. n + 1 \in I
    BY <1>5, <2>1, IsDigitIs
  <2>3. I \subseteq Nat /\ \A i \in I : n + 1 <= i
    BY <1>1, <1>2
  <2>4. Min(I) = n + 1 /\ I # {}
    <3> HIDE DEF I, n
    <3> QED BY <2>2, <2>3, FirstIs
  <2>5. n + 1 # 0 /\ (n + 1) - 1 = n
    BY <1>1
  <2>6. Leading(t, IsDigit) = SubSeq(t, 1, (n + 1) - 1)
    <3> HIDE DEF n, t
    <3> QED BY <2>4, <2>5 DEF Leading, SelectInSeq
  <2>7. SubSeq(t, 1, n) = s
    BY <1>1
  <2> QED BY <1>3, <2>5, <2>6, <2>7
<1> QED BY <1>4, <1>5

(* In any text.                                                            *)
LEMMA LeadingAny ==
    ASSUME NEW S, NEW t \in Seq(S)
    PROVE  \E n \in 0 .. Len(t) :
              /\ Leading(t, IsDigit) = SubSeq(t, 1, n)
              /\ Len(Leading(t, IsDigit)) = n
              /\ Leading(t, IsDigit) \in Seq(DigitSet)
              /\ \A i \in 1 .. n : t[i] \in DigitSet
              /\ Len(After(t, Leading(t, IsDigit))) = Len(t) - n
              /\ \A i \in n + 1 .. Len(t) : After(t, Leading(t, IsDigit))[i - n] = t[i]
<1> DEFINE I == {i \in 1 .. Len(t) : ~IsDigit(t[i])}
           digits == Leading(t, IsDigit)
<1>1. Len(t) \in Nat /\ t = SubSeq(t, 1, Len(t)) /\ I \subseteq Nat
  OBVIOUS
<1>2. PICK n \in 0 .. Len(t) : digits = SubSeq(t, 1, n) /\ \A i \in 1 .. n : i \notin I
  <2>1. CASE I = {}
    <3>1. digits = t
      BY <2>1 DEF Leading, SelectInSeq
    <3>2. Len(t) \in 0 .. Len(t) /\ digits = SubSeq(t, 1, Len(t))
      BY <1>1, <3>1
    <3> HIDE DEF digits, I
    <3> QED BY <2>1, <3>2
  <2>2. CASE I # {}
    <3>1. PICK k \in I : \A j \in I : k <= j
      BY <1>1, <2>2, Minimum
    <3>2. Min(I) = k
      <4> HIDE DEF I
      <4> QED BY <1>1, <3>1, FirstIs
    <3>3. k \in 1 .. Len(t) /\ k # 0
      OBVIOUS
    <3>4. digits = SubSeq(t, 1, k - 1)
      BY <2>2, <3>2, <3>3 DEF Leading, SelectInSeq
    <3>5. k - 1 \in 0 .. Len(t) /\ \A i \in 1 .. k - 1 : i \notin I
      BY <3>1, <3>3
    <3> QED BY <3>4, <3>5
  <2> QED BY <2>1, <2>2
<1>3. \A i \in 1 .. n : t[i] \in DigitSet
  BY <1>1, <1>2, IsDigitIs
<1> HIDE DEF digits, I
<1>4. Len(digits) = n /\ \A i \in 1 .. n : digits[i] = t[i]
  BY <1>1, <1>2
<1>5. digits \in Seq(DigitSet)
  <2>1. digits \in Seq(S)
    BY <1>1, <1>2
  <2>2. \A i \in 1 .. Len(digits) : digits[i] \in DigitSet
    BY <1>3, <1>4
  <2>3. digits \in [1 .. n -> DigitSet]
    BY <1>4, <2>1, <2>2
  <2> QED BY <2>3
<1>6. After(t, digits) = SubSeq(t, n + 1, Len(t))
  BY <1>4 DEF After
<1>7. /\ Len(After(t, digits)) = Len(t) - n
      /\ \A i \in n + 1 .. Len(t) : After(t, digits)[i - n] = t[i]
  <2>1. Len(t) \in Nat /\ n \in 0 .. Len(t) /\ \A i \in n + 1 .. Len(t) : t[i] \in S
    BY <1>1
  <2>2. Len(After(t, digits)) = IF n + 1 <= Len(t) THEN Len(t) - (n + 1) + 1 ELSE 0
    BY <1>6, <2>1, SubSeqProperties
  <2>3. \A j \in 1 .. Len(t) - (n + 1) + 1 : After(t, digits)[j] = t[(n + 1) + j - 1]
    BY <1>6, <2>1, SubSeqProperties
  <2>4. ASSUME NEW i \in n + 1 .. Len(t) PROVE After(t, digits)[i - n] = t[i]
    <3>1. i - n \in 1 .. Len(t) - (n + 1) + 1 /\ (n + 1) + (i - n) - 1 = i
      BY <2>1
    <3> QED BY <2>3, <3>1
  <2> QED BY <2>1, <2>2, <2>4
<1> QED BY <1>2, <1>3, <1>4, <1>5, <1>7 DEF digits

(* Whatever the text, Number is a natural number.                          *)
LEMMA NumberType ==
    ASSUME NEW S, NEW t \in Seq(S)
    PROVE  Number(t) \in Nat
<1>1. Leading(t, IsDigit) \in Seq(DigitSet)
  BY LeadingAny
<1> QED BY <1>1, ReadingType DEF Number

Spaces(k) == [i \in 1 .. k |-> " "]

(* Digits and what goes with them in a number                              *)
Printed == DigitSet \cup {" ", "-", "."}

(* Spaces are printed.                                                     *)
LEMMA SpacesAre ==
    ASSUME NEW k \in Nat
    PROVE  /\ Spaces(k) \in Seq(Printed) /\ Len(Spaces(k)) = k
           /\ \A i \in 1 .. k : Spaces(k)[i] = " "
<1>1. " " \in Printed
  BY DEF Printed
<1> HIDE DEF Printed
<1>2. Spaces(k) \in [1 .. k -> Printed]
  BY <1>1 DEF Spaces
<1>3. Spaces(k) \in Seq(Printed) /\ Len(Spaces(k)) = k
  BY <1>2
<1> QED BY <1>3 DEF Spaces

(* The text of a number is printed and begins with a digit.                *)
LEMMA TextType ==
    ASSUME NEW n \in Nat
    PROVE  /\ Text[n] \in Seq(DigitSet) /\ Text[n] \in Seq(Printed)
           /\ Len(Text[n]) \in Nat \ {0} /\ Text[n][1] \in DigitSet
<1>1. Text[n] \in Seq(DigitSet) /\ Len(Text[n]) \in Nat \ {0}
  BY TextIs, TextLength
<1>2. DigitSet \subseteq Printed
  BY DEF Printed
<1> QED BY <1>1, <1>2, SeqMonotonic

(* A number that decr has padded is read back.                             *)
LEMMA NumberIs ==
    ASSUME NEW n \in Nat, NEW k \in Nat
    PROVE  Number(Text[n] \o Spaces(k)) = n
<1>1. Text[n] \in Seq(DigitSet) /\ Reading(Text[n]) = n
  BY TextIs, TextReads
<1>2. Spaces(k) \in Seq(Printed) /\ DigitSet \subseteq Printed
  BY SpacesAre DEF Printed
<1>3. Spaces(k) # <<>> => Spaces(k)[1] = " "
  <2>1. CASE k = 0
    BY <2>1, SpacesAre, EmptySeq
  <2>2. CASE k # 0
    <3>1. 1 \in 1 .. k
      BY <2>2
    <3> QED BY <3>1, SpacesAre
  <2> QED BY <2>1, <2>2
<1>4. Spaces(k) # <<>> => Spaces(k)[1] \notin DigitSet
  BY <1>3, DigitType
<1>5. Leading(Text[n] \o Spaces(k), IsDigit) = Text[n]
  BY <1>1, <1>2, <1>4, LeadingDigits
<1> QED BY <1>1, <1>5 DEF Number

(* What has no leading space                                               *)
LEMMA NoLeadingSpaces ==
    ASSUME NEW S, NEW t \in Seq(S), t # <<>>, ~IsSpace(t[1])
    PROVE  After(t, Leading(t, IsSpace)) = t
<1> DEFINE I == {i \in 1 .. Len(t) : ~IsSpace(t[i])}
<1>1. Len(t) \in Nat \ {0}
  BY EmptySeq
<1>2. 1 \in I /\ I \subseteq Nat /\ \A i \in I : 1 <= i
  <2>1. 1 \in 1 .. Len(t)
    BY <1>1
  <2> QED BY <1>1, <2>1
<1>3. Min(I) = 1 /\ I # {}
  <2> HIDE DEF I
  <2> QED BY <1>2, FirstIs
<1> DEFINE k == Min(I)
           other == IF I # {} THEN k ELSE 0
           spaces == IF other = 0 THEN t ELSE SubSeq(t, 1, other - 1)
<1>4. Leading(t, IsSpace) = spaces
  BY DEF Leading, SelectInSeq
<1>5. spaces = SubSeq(t, 1, 0)
  <2>1. other = 1
    BY <1>3
  <2> HIDE DEF other
  <2>2. other - 1 = 0 /\ other # 0
    BY <2>1
  <2> QED BY <2>2
<1> HIDE DEF spaces
<1>6. Len(spaces) = 0
  BY <1>5
<1>7. SubSeq(t, 0 + 1, Len(t)) = t
  <2>1. 0 + 1 = 1
    OBVIOUS
  <2> QED BY <2>1, SubSeqFull
<1> QED BY <1>4, <1>6, <1>7 DEF After

(* The lesser of two numbers                                               *)
LEMMA MinOfTwo ==
    ASSUME NEW a \in Int, NEW b \in Int
    PROVE  Min({a, b}) = IF a <= b THEN a ELSE b
<1> DEFINE m == CHOOSE x \in {a, b} : \A y \in {a, b} : x <= y
<1>1. \E x \in {a, b} : \A y \in {a, b} : x <= y
  OBVIOUS
<1>2. m \in {a, b} /\ m <= a /\ m <= b
  BY <1>1
<1> HIDE DEF m
<1>3. m = IF a <= b THEN a ELSE b
  BY <1>2
<1> QED BY <1>3 DEF m, Min

(* The greater of two numbers                                              *)
LEMMA MaxOfTwo ==
    ASSUME NEW a \in Int, NEW b \in Int
    PROVE  Max({a, b}) = IF a >= b THEN a ELSE b
<1> DEFINE m == CHOOSE x \in {a, b} : \A y \in {a, b} : x >= y
<1>1. \E x \in {a, b} : \A y \in {a, b} : x >= y
  OBVIOUS
<1>2. m \in {a, b} /\ m >= a /\ m >= b
  BY <1>1
<1> HIDE DEF m
<1>3. m = IF a >= b THEN a ELSE b
  BY <1>2
<1> QED BY <1>3 DEF m, Max

(* Signed numbers are half of the unsigned ones.                           *)
LEMMA SignedRange == MaxSigned \in Nat /\ MaxWord = 2 * MaxSigned + 1
  BY WordAssumption DEF MaxSigned

(* A sequence with one more element in front                               *)
LEMMA ConsIs ==
    ASSUME NEW S, NEW c \in S, NEW s \in Seq(S)
    PROVE  /\ <<c>> \o s \in Seq(S) /\ <<c>> \o s # <<>>
           /\ Len(<<c>> \o s) = Len(s) + 1
           /\ (<<c>> \o s)[1] = c /\ Tail(<<c>> \o s) = s
           /\ \A i \in 1 .. Len(s) : (<<c>> \o s)[i + 1] = s[i]
  OBVIOUS

(* The element in front stays there.                                       *)
LEMMA ConsConcat ==
    ASSUME NEW S, NEW c \in S, NEW s \in Seq(S), NEW r \in Seq(S)
    PROVE  (<<c>> \o s) \o r = <<c>> \o (s \o r)
<1>1. <<c>> \in Seq(S)
  OBVIOUS
<1> QED BY <1>1, ConcatAssociative

(* atoll of the text of an unsigned number                                 *)
LEMMA AsSignedOfText ==
    ASSUME NEW n \in Nat, NEW k \in Nat
    PROVE  AsSigned(Text[n] \o Spaces(k)) = IF n <= MaxSigned THEN n ELSE MaxSigned
<1> DEFINE t == Text[n] \o Spaces(k)
<1>1. /\ Text[n] \in Seq(Printed) /\ Len(Text[n]) \in Nat \ {0}
      /\ Spaces(k) \in Seq(Printed) /\ Text[n][1] \in DigitSet
  BY TextType, SpacesAre
<1>2. t \in Seq(Printed) /\ t # <<>> /\ t[1] = Text[n][1]
  BY <1>1
<1>3. ~IsSpace(t[1]) /\ t[1] # "-"
  BY <1>1, <1>2, DigitType DEF IsSpace
<1>4. Number(t) = n
  BY NumberIs
<1> HIDE DEF t
<1>5. After(t, Leading(t, IsSpace)) = t
  BY <1>2, <1>3, NoLeadingSpaces
<1>6. AsSigned(t) = Min({Number(t), MaxSigned})
  BY <1>3, <1>5 DEF AsSigned
<1> QED BY <1>4, <1>6, MinOfTwo, SignedRange DEF t

(* atoll of what printf makes of a signed number                           *)
LEMMA AsSignedIs ==
    ASSUME NEW n \in -(MaxSigned + 1) .. MaxSigned, NEW k \in Nat
    PROVE  AsSigned(SignedText(n) \o Spaces(k)) = n
<1>1. n \in Int /\ MaxSigned \in Nat /\ n <= MaxSigned /\ -n <= MaxSigned + 1
  BY SignedRange
<1>2. CASE n >= 0
  BY <1>1, <1>2, AsSignedOfText DEF SignedText
<1>3. CASE n < 0
  <2> DEFINE m == -n
             t == SignedText(n) \o Spaces(k)
  <2>1. m \in Nat /\ -m = n /\ m <= MaxSigned + 1
    BY <1>1, <1>3
  <2>2. t = (<<"-">> \o Text[m]) \o Spaces(k)
    BY <1>3 DEF SignedText
  <2> HIDE DEF t, m
  <2>3. Text[m] \in Seq(Printed) /\ Spaces(k) \in Seq(Printed) /\ "-" \in Printed
    BY <2>1, TextType, SpacesAre DEF Printed
  <2>4. <<"-">> \in Seq(Printed) /\ Text[m] \o Spaces(k) \in Seq(Printed)
    BY <2>3
  <2>5. t = <<"-">> \o (Text[m] \o Spaces(k))
    <3> DEFINE u == Text[m]
               r == Spaces(k)
    <3>1. u \in Seq(Printed) /\ r \in Seq(Printed)
      BY <2>3
    <3> HIDE DEF u, r
    <3>2. \A c \in Printed : (<<c>> \o u) \o r = <<c>> \o (u \o r)
      BY <3>1, ConsConcat
    <3>3. (<<"-">> \o u) \o r = <<"-">> \o (u \o r)
      BY <2>3, <3>2, Zenon
    <3> QED BY <2>2, <3>3 DEF u, r
  <2>6. t \in Seq(Printed) /\ t # <<>> /\ t[1] = "-" /\ Tail(t) = Text[m] \o Spaces(k)
    BY <2>3, <2>4, <2>5, ConsIs
  <2>11. ~IsSpace(t[1])
    BY <2>6 DEF IsSpace
  <2>7. After(t, Leading(t, IsSpace)) = t
    BY <2>6, <2>11, NoLeadingSpaces
  <2>8. AsSigned(t) = -Min({Number(Tail(t)), MaxSigned + 1})
    BY <2>6, <2>7 DEF AsSigned
  <2>9. Number(Tail(t)) = m
    BY <2>1, <2>6, NumberIs
  <2>10. Min({m, MaxSigned + 1}) = m
    BY <1>1, <2>1, MinOfTwo
  <2> QED BY <2>1, <2>8, <2>9, <2>10 DEF t
<1> QED BY <1>1, <1>2, <1>3

-----------------------------------------------------------------------------
(* Floats                                                                  *)

(* A number that is not padded is read back, too.                          *)
LEMMA NumberOfText ==
    ASSUME NEW n \in Nat
    PROVE  Number(Text[n]) = n
<1>1. Spaces(0) = <<>>
  BY SpacesAre, EmptySeq
<1>2. Text[n] \o <<>> = Text[n]
  BY TextType
<1>3. Number(Text[n] \o Spaces(0)) = n
  BY NumberIs
<1> QED BY <1>1, <1>2, <1>3

(* A float is printed with the nearest place.                              *)
LEMMA Thirds ==
    ASSUME NEW x \in Nat
    PROVE  (x + 1) \div 3 \in Nat /\ x - 3 * ((x + 1) \div 3) \in -1 .. 1
  OBVIOUS

(* The places before the point, and the one behind it.                     *)
LEMMA Tenths ==
    ASSUME NEW p \in Nat
    PROVE  p \div 10 \in Nat /\ p % 10 \in 0 .. 9 /\ p = 10 * (p \div 10) + (p % 10)
  OBVIOUS

(* A point and a digit behind a sequence                                   *)
LEMMA TwoMore ==
    ASSUME NEW S, NEW s \in Seq(S), NEW a \in S, NEW b \in S
    PROVE  LET two == <<a>> \o <<b>>
           IN  /\ (s \o <<a>>) \o <<b>> = s \o two
               /\ two \in Seq(S) /\ Len(two) = 2 /\ two # <<>> /\ two[1] = a /\ two[2] = b
<1>1. <<a>> \in Seq(S) /\ <<b>> \in Seq(S) /\ Len(<<b>>) = 1 /\ <<b>>[1] = b
  OBVIOUS
<1>2. (s \o <<a>>) \o <<b>> = s \o (<<a>> \o <<b>>)
  BY <1>1, ConcatAssociative
<1> QED BY <1>1, <1>2, ConsIs

(* strtold reads what is before the point and what is behind it.           *)
LEMMA ParsedFloat ==
    ASSUME NEW whole \in Seq(DigitSet), NEW digit \in DigitSet
    PROVE  AsFloat((whole \o <<".">>) \o <<digit>>)
              = 3 * (10 * Number(whole) + Number(<<digit>>))
<1> DEFINE rest == <<".">> \o <<digit>>
           t == (whole \o <<".">>) \o <<digit>>
<1>1. DigitSet \subseteq Printed /\ "." \in Printed /\ "." \notin DigitSet
  BY DigitType DEF Printed
<1>2. whole \in Seq(Printed) /\ digit \in Printed
  BY <1>1, SeqMonotonic
<1>3. /\ t = whole \o rest /\ rest \in Seq(Printed) /\ Len(rest) = 2
      /\ rest # <<>> /\ rest[1] = "." /\ rest[2] = digit
  BY <1>1, <1>2, TwoMore
<1> HIDE DEF rest, t
<1>4. Leading(t, IsDigit) = whole /\ After(t, whole) = rest
  <2>1. rest[1] \notin DigitSet
    BY <1>1, <1>3
  <2>2. rest \in Seq(Printed) /\ DigitSet \subseteq Printed /\ t = whole \o rest
    BY <1>1, <1>3
  <2> QED BY <2>1, <2>2, LeadingDigits
<1>5. IsDigit(rest[2]) /\ Len(rest) > 1
  BY <1>3, IsDigitIs
<1>6. AsFloat(t) = 3 * (10 * Number(whole) + Number(<<rest[2]>>))
  BY <1>3, <1>4, <1>5 DEF AsFloat
<1> QED BY <1>3, <1>6 DEF t

(* A float is read back up to the places that are printed.                 *)
LEMMA AsFloatIs ==
    ASSUME NEW x \in Nat
    PROVE  AsFloat(FloatText(x)) \in Nat /\ x - AsFloat(FloatText(x)) \in -1 .. 1
           /\ AsFloat(FloatText(x)) - x \in -1 .. 1
<1> DEFINE p == (x + 1) \div 3
           q == p \div 10
           r == p % 10
<1>1. p \in Nat /\ x - 3 * p \in -1 .. 1
  BY Thirds
<1>2. q \in Nat /\ r \in 0 .. 9 /\ p = 10 * q + r
  <2> HIDE DEF p
  <2> QED BY <1>1, Tenths
<1>3. FloatText(x) = (Text[q] \o <<".">>) \o Text[r]
  BY DEF FloatText
<1> HIDE DEF p, q, r
<1>4. Text[q] \in Seq(DigitSet) /\ Text[r] = <<Digits[r + 1]>> /\ Digits[r + 1] \in DigitSet
  BY <1>2, TextType, TextShort, DigitAt
<1>5. DigitSet \subseteq Printed /\ "." \in Printed
  BY DEF Printed
<1>6. Number(Text[q]) = q /\ Number(Text[r]) = r
  BY <1>2, NumberOfText
<1>7. AsFloat(FloatText(x)) = 3 * (10 * Number(Text[q]) + Number(<<Digits[r + 1]>>))
  BY <1>3, <1>4, <1>5, ParsedFloat
<1>8. AsFloat(FloatText(x)) = 3 * p
  BY <1>2, <1>4, <1>6, <1>7
<1> QED BY <1>1, <1>8

-----------------------------------------------------------------------------
(* Blocks of compressed data, and headers                                  *)

(* What a text is made of, and what data are                               *)
Glyphs == Characters \cup Printed \cup {"P"}
Units  == Glyphs \cup {BlockBegin, BlockEnd}

(* The ends of a block are no characters of a text.                        *)
LEMMA GlyphsAre ==
    /\ BlockEnd \notin Glyphs /\ Glyphs \subseteq Units
    /\ Printed \subseteq Glyphs /\ Characters \subseteq Glyphs /\ DigitSet \subseteq Glyphs
    /\ "-" \in Glyphs /\ "." \in Glyphs /\ "P" \in Glyphs
    /\ BlockBegin \in Units /\ BlockEnd \in Units
    /\ BlockBegin # BlockEnd
    /\ BlockBegin \notin DigitSet /\ BlockBegin # " "
<1>1. BlockEnd \notin DigitSet /\ BlockBegin \notin DigitSet
  BY DigitType DEF BlockEnd, BlockBegin
<1>2. BlockEnd \notin Characters
  BY ObjectAssumption
<1>3. BlockEnd \notin {" ", "-", ".", "P"} /\ BlockBegin # BlockEnd /\ BlockBegin # " "
  BY DEF BlockEnd, BlockBegin
<1>4. BlockEnd \notin Glyphs
  BY <1>1, <1>2, <1>3 DEF Glyphs, Printed
<1> QED BY <1>1, <1>3, <1>4 DEF Glyphs, Printed, Units

(* A block is read back as what is in it.                                  *)
LEMMA CompressIs ==
    ASSUME NEW d \in Seq(Glyphs)
    PROVE  /\ Compress(d) \in Seq(Units)
           /\ IsBlock(Compress(d))
           /\ Compress(d)[1] = BlockBegin /\ Len(Compress(d)) \in Nat \ {0}
           /\ Uncompress(Compress(d)) = d
<1> DEFINE t == Compress(d)
           n == Len(d)
           I == {i \in 1 .. Len(t) : t[i] = BlockEnd}
<1>1. BlockBegin \in Units /\ BlockEnd \in Units /\ BlockBegin # BlockEnd /\ BlockEnd \notin Glyphs
      /\ Glyphs \subseteq Units
  BY GlyphsAre
<1>2. t = (<<BlockBegin>> \o d) \o <<BlockEnd>>
  BY DEF Compress
<1>3. d \in Seq(Units) /\ n \in Nat /\ \A i \in 1 .. n : d[i] \in Glyphs
  BY <1>1, SeqMonotonic
<1> HIDE DEF t
<1>4. /\ t \in Seq(Units) /\ Len(t) = n + 2
      /\ t[1] = BlockBegin /\ t[n + 2] = BlockEnd
      /\ \A i \in 2 .. n + 1 : t[i] = d[i - 1]
  <2>1. <<BlockBegin>> \in Seq(Units) /\ <<BlockEnd>> \in Seq(Units)
    BY <1>1
  <2> QED BY <1>2, <1>3, <2>1
<1>5. I = {n + 2}
  <2>1. n + 2 \in I
    BY <1>3, <1>4
  <2>2. ASSUME NEW i \in I, i # n + 2 PROVE FALSE
    <3>1. i = 1 \/ i \in 2 .. n + 1
      BY <1>3, <1>4, <2>2
    <3>2. i # 1
      BY <1>1, <1>4
    <3>3. i - 1 \in 1 .. n /\ t[i] = d[i - 1]
      BY <1>3, <1>4, <3>1, <3>2
    <3> QED BY <1>1, <1>3, <3>3
  <2> QED BY <2>1, <2>2
<1>6. Min(I) = n + 2 /\ I # {}
  <2>1. n + 2 \in Nat
    BY <1>3
  <2> HIDE DEF I
  <2>2. n + 2 \in I /\ I \subseteq Nat /\ \A i \in I : n + 2 <= i
    BY <1>5, <2>1
  <2> QED BY <2>2, FirstIs
<1>7. Uncompress(t) = SubSeq(t, 2, (n + 2) - 1)
  BY <1>6 DEF Uncompress, SelectInSeq
<1>8. SubSeq(t, 2, (n + 2) - 1) = d
  <2>1. (n + 2) - 1 = n + 1
    BY <1>3
  <2>2. SubSeq(t, 2, n + 1) = d
    BY <1>3, <1>4
  <2> QED BY <2>1, <2>2
<1>9. IsBlock(t)
  BY <1>3, <1>4 DEF IsBlock
<1> QED BY <1>3, <1>4, <1>7, <1>8, <1>9 DEF t

(* The fields of the lines of the text protocol                            *)
LEMMA HeadersAre ==
    ASSUME NEW flags, NEW bytes, NEW cas, NEW n
    PROVE  /\ ValueLine(flags, bytes, cas).kind = "line"
           /\ ValueLine(flags, bytes, cas).word = "VALUE"
           /\ ValueLine(flags, bytes, cas).bytes = bytes
           /\ ValueLine(flags, bytes, cas).flags = flags
           /\ ValueLine(flags, bytes, cas).cas = cas
           /\ NumberLine(n).kind = "line" /\ NumberLine(n).word = "NUMBER"
           /\ NumberLine(n).number = n
  BY DEF ValueLine, NumberLine

-----------------------------------------------------------------------------
(* A reply is taken apart                                                  *)

(* A header, a value and what follows it are taken apart.                  *)
LEMMA TxtFraming ==
    ASSUME NEW X, NEW a \in X, NEW c \in Seq(X), NEW f \in Seq(X), Len(f) = 2
    PROVE  LET reply == (<<a>> \o c) \o f
               body  == SubSeq(reply, 2, 1 + (Len(c) + 2))
           IN  /\ reply[1] = a
               /\ SubSeq(body, 1, Len(body) - 2) = c
<1> DEFINE front == <<a>> \o c
           reply == front \o f
           body  == SubSeq(reply, 2, 1 + (Len(c) + 2))
<1>1. Len(c) \in Nat /\ <<a>> \in Seq(X) /\ Len(<<a>>) = 1 /\ <<a>>[1] = a
  OBVIOUS
<1>2. /\ front \in Seq(X) /\ Len(front) = Len(c) + 1
      /\ front[1] = a /\ \A i \in 1 .. Len(c) : front[i + 1] = c[i]
  BY <1>1
<1> HIDE DEF front
<1>3. /\ reply \in Seq(X) /\ Len(reply) = Len(c) + 3
      /\ reply[1] = a /\ \A i \in 1 .. Len(c) : reply[i + 1] = c[i]
  <2>1. reply \in Seq(X) /\ Len(reply) = Len(c) + 3
    <3>1. reply \in Seq(X) /\ Len(reply) = Len(front) + Len(f)
      BY <1>2, ConcatProperties
    <3> HIDE DEF reply
    <3> QED BY <1>1, <1>2, <3>1
  <2>2. \A i \in 1 .. Len(front) : reply[i] = front[i]
    BY <1>1, <1>2
  <2> HIDE DEF reply
  <2> QED BY <1>1, <1>2, <2>1, <2>2
<1> HIDE DEF reply
<1>4. body \in Seq(X) /\ Len(body) = Len(c) + 2 /\ \A i \in 1 .. Len(c) : body[i] = c[i]
  BY <1>1, <1>3
<1> HIDE DEF body
<1>5. SubSeq(body, 1, Len(body) - 2) = c
  BY <1>1, <1>4
<1> QED BY <1>3, <1>5 DEF body, reply, front

(* A head, a field and a value are taken apart.                            *)
LEMMA BinFraming ==
    ASSUME NEW X, NEW a \in X, NEW b \in X, NEW c \in Seq(X)
    PROVE  LET reply == <<a, b>> \o c
               body  == SubSeq(reply, 2, 1 + (1 + Len(c)))
           IN  /\ reply[1] = a
               /\ body[1] = b
               /\ SubSeq(body, 2, Len(body)) = c
<1> DEFINE reply == <<a, b>> \o c
           body  == SubSeq(reply, 2, 1 + (1 + Len(c)))
<1>1. Len(c) \in Nat
  OBVIOUS
<1>2. /\ reply \in Seq(X) /\ Len(reply) = Len(c) + 2
      /\ reply[1] = a /\ reply[2] = b /\ \A i \in 1 .. Len(c) : reply[i + 2] = c[i]
  <2>1. <<a, b>> \in Seq(X) /\ Len(<<a, b>>) = 2 /\ <<a, b>>[1] = a /\ <<a, b>>[2] = b
    OBVIOUS
  <2> QED BY <1>1, <2>1
<1> HIDE DEF reply
<1>3. body \in Seq(X) /\ Len(body) = Len(c) + 1 /\ body[1] = b
      /\ \A i \in 1 .. Len(c) : body[i + 1] = c[i]
  BY <1>1, <1>2
<1> HIDE DEF body
<1>4. SubSeq(body, 2, Len(body)) = c
  BY <1>1, <1>3
<1> QED BY <1>2, <1>3, <1>4 DEF body, reply

(* The characters of a value come through.                                 *)
LEMMA CharsAre ==
    ASSUME NEW S, NEW d \in Seq(S)
    PROVE  /\ CharsOf(Chars(d)) = d
           /\ Len(Chars(d)) = Len(d)
           /\ \E X : Chars(d) \in Seq(X)
<1> DEFINE n == Len(d)
           c == Chars(d)
           X == {c[i] : i \in 1 .. n}
<1>1. n \in Nat
  OBVIOUS
<1>2. c = [i \in 1 .. n |-> c[i]]
  BY DEF Chars
<1>3. \A i \in 1 .. n : c[i].char = d[i]
  BY DEF Chars
<1>4. d = [i \in 1 .. n |-> d[i]]
  OBVIOUS
<1> HIDE DEF n, c
<1>5. c \in [1 .. n -> X]
  BY <1>2
<1> HIDE DEF X
<1>6. c \in Seq(X) /\ Len(c) = n
  BY <1>1, <1>5
<1>7. CharsOf(c) = [i \in 1 .. n |-> d[i]]
  BY <1>3, <1>6 DEF CharsOf
<1> QED BY <1>4, <1>6, <1>7 DEF c, n

-----------------------------------------------------------------------------
(* What replies mean                                                       *)

(* What the lines of a server say that are no value and no number.         *)
LEMMA LineMeans ==
    /\ \A cmd \in Storage : TxtHeader(cmd, Line("STORED", 0)).code = "stored"
    /\ \A cmd \in Retrieve : TxtHeader(cmd, Line("END", 0)).code = "not_found"
    /\ \A cmd \in Storage \cup Numeric :
          \A word \in {"NOT_FOUND", "NOT_STORED", "EXISTS", "ERROR", "SERVER_ERROR",
                       "CLIENT_ERROR"} :
             TxtHeader(cmd, Line(word, 0)).code \notin {"ok", "stored"}
<1>1. \A cmd, word : TxtHeader(cmd, Line(word, 0)).code =
         IF cmd \in Retrieve /\ word = "VALUE" THEN TxtValue(Line(word, 0)).code
         ELSE TxtCode(cmd, word)
  BY DEF TxtHeader, Line, Parsed
<1>2. ASSUME NEW cmd \in Storage PROVE TxtCode(cmd, "STORED") = "stored"
  <2>1. TxtWords(cmd) = [EXISTS |-> "exists", NOT_FOUND |-> "not_found",
                         NOT_STORED |-> "not_stored", STORED |-> "stored"]
    BY <1>2 DEF TxtWords, Storage, Retrieve, Numeric
  <2>2. "STORED" \in DOMAIN TxtWords(cmd) /\ TxtWords(cmd)["STORED"] = "stored"
    BY <2>1
  <2> QED BY <2>2 DEF TxtCode
<1>3. ASSUME NEW cmd \in Retrieve PROVE TxtCode(cmd, "END") = "not_found"
  <2>1. TxtWords(cmd) = [END |-> "not_found"]
    BY <1>3 DEF TxtWords, Storage, Retrieve, Numeric
  <2>2. "END" \in DOMAIN TxtWords(cmd) /\ TxtWords(cmd)["END"] = "not_found"
    BY <2>1
  <2> QED BY <2>2 DEF TxtCode
<1>4. ASSUME NEW cmd \in Storage \cup Numeric,
             NEW word \in {"NOT_FOUND", "NOT_STORED", "EXISTS", "ERROR", "SERVER_ERROR",
                           "CLIENT_ERROR"}
      PROVE  TxtCode(cmd, word) \notin {"ok", "stored"}
  <2>3. DOMAIN TxtGeneral = {"ERROR", "CLIENT_ERROR", "SERVER_ERROR"}
        /\ \A other \in DOMAIN TxtGeneral : TxtGeneral[other] \notin {"ok", "stored"}
    BY DEF TxtGeneral
  <2>1. CASE cmd \in Storage
    <3>1. TxtWords(cmd) = [EXISTS |-> "exists", NOT_FOUND |-> "not_found",
                           NOT_STORED |-> "not_stored", STORED |-> "stored"]
      BY <2>1 DEF TxtWords, Storage, Retrieve, Numeric
    <3>2. DOMAIN TxtWords(cmd) = {"EXISTS", "NOT_FOUND", "NOT_STORED", "STORED"}
          /\ \A other \in {"EXISTS", "NOT_FOUND", "NOT_STORED"} :
                TxtWords(cmd)[other] \notin {"ok", "stored"}
      BY <3>1
    <3> QED BY <2>3, <3>2 DEF TxtCode
  <2>2. CASE cmd \in Numeric
    <3>1. TxtWords(cmd) = [TOUCHED |-> "touched", NOT_FOUND |-> "not_found",
                           NUMBER |-> "ok"]
      BY <2>2 DEF TxtWords, Storage, Retrieve, Numeric
    <3>2. DOMAIN TxtWords(cmd) = {"TOUCHED", "NOT_FOUND", "NUMBER"}
          /\ TxtWords(cmd)["NOT_FOUND"] \notin {"ok", "stored"}
      BY <3>1
    <3> QED BY <2>3, <3>2 DEF TxtCode
  <2> QED BY <2>1, <2>2
<1>5. \A cmd \in Storage \cup Numeric : cmd \notin Retrieve
  BY DEF Storage, Numeric, Retrieve
<1> QED BY <1>1, <1>2, <1>3, <1>4, <1>5 DEF Storage, Retrieve

(* What the heads say.                                                     *)
LEMMA HeadMeans ==
    /\ \A cmd \in Storage : BinHeader(cmd, HeadOf("ok", 0, 0)).code = "stored"
    /\ \A cmd, extras, body : BinHeader(cmd, HeadOf("not_found", extras, body)).code = "not_found"
    /\ \A cmd, extras, body :
          \A status \in {"not_found", "not_stored", "exists", "value_too_large",
                         "invalid_arguments", "unknown_command"} :
             BinHeader(cmd, HeadOf(status, extras, body)).code \notin {"ok", "stored"}
<1>1. \A cmd, status, extras, body : BinHeader(cmd, HeadOf(status, extras, body)).code =
         IF status # "ok" THEN Translate(status)
         ELSE BinSuccess(cmd, HeadOf(status, extras, body)).code
  BY DEF BinHeader, HeadOf, Parsed
<1>2. ASSUME NEW cmd \in Storage PROVE BinSuccess(cmd, HeadOf("ok", 0, 0)).code = "stored"
  BY <1>2 DEF BinSuccess, Parsed, Storage, Retrieve, Numeric
<1>3. Translate("not_found") = "not_found"
  BY DEF Translate
<1>4. \A status \in {"not_found", "not_stored", "exists", "value_too_large",
                     "invalid_arguments", "unknown_command"} :
         Translate(status) \notin {"ok", "stored"}
  BY DEF Translate
<1> QED BY <1>1, <1>2, <1>3, <1>4

Failures == {"missing", "present", "changed", "refused"}

(* A server that has not done what it was asked for is not taken to have   *)
(* done it, and one that has is.                                           *)
LEMMA FailureIs ==
    ASSUME NEW proto \in Protocols, NEW cmd \in Storage \cup Numeric,
           NEW outcome \in Failures, NEW reply \in Replies(proto, cmd, outcome, 0)
    PROVE  DeserializeHeader(proto, cmd, reply[1]).code \notin {"ok", "stored"}
<1>1. CASE proto = "txt"
  <2>1. cmd \notin Retrieve /\ reply \in TxtReplies(cmd, outcome, 0)
    BY <1>1 DEF Storage, Numeric, Retrieve, Replies
  <2>2. \E word \in {"NOT_FOUND", "NOT_STORED", "EXISTS", "ERROR", "SERVER_ERROR",
                     "CLIENT_ERROR"} : reply[1] = Line(word, 0)
    <3>1. CASE outcome = "missing"
      <4>1. TxtReplies(cmd, outcome, 0) = {<<Line(TxtMissing(cmd), 0)>>}
        BY <3>1 DEF TxtReplies
      <4>2. TxtMissing(cmd) \in {"NOT_FOUND", "NOT_STORED"}
        BY <2>1 DEF TxtMissing
      <4> QED BY <2>1, <4>1, <4>2
    <3>2. CASE outcome = "present"
      <4>1. TxtReplies(cmd, outcome, 0) = {<<Line("NOT_STORED", 0)>>}
        BY <3>2 DEF TxtReplies
      <4> QED BY <2>1, <4>1
    <3>3. CASE outcome = "changed"
      <4>1. TxtReplies(cmd, outcome, 0) = {<<Line("EXISTS", 0)>>}
        BY <3>3 DEF TxtReplies
      <4> QED BY <2>1, <4>1
    <3>4. CASE outcome = "refused"
      <4>1. TxtReplies(cmd, outcome, 0) =
               {<<Line("ERROR", 0)>>, <<Line("SERVER_ERROR", 0)>>,
                <<Line("CLIENT_ERROR", 0), Line("ERROR", 0)>>}
        BY <3>4 DEF TxtReplies
      <4> QED BY <2>1, <4>1
    <3> QED BY <3>1, <3>2, <3>3, <3>4 DEF Failures
  <2> QED BY <1>1, <2>2, LineMeans DEF DeserializeHeader
<1>2. CASE proto = "bin"
  <2>1. reply \in BinReplies(cmd, outcome, 0)
    BY <1>2 DEF Replies
  <2>2. \E status \in {"not_found", "not_stored", "exists", "value_too_large",
                       "invalid_arguments", "unknown_command"} : reply \in BinFailure(status)
    <3>1. CASE outcome = "missing"
      <4>1. BinReplies(cmd, outcome, 0) = BinFailure(BinMissing(cmd))
        BY <3>1 DEF BinReplies
      <4> QED BY <2>1, <4>1 DEF BinMissing
    <3>2. CASE outcome \in {"present", "changed"}
      <4>1. BinReplies(cmd, outcome, 0) = BinFailure("exists")
        BY <3>2 DEF BinReplies
      <4> QED BY <2>1, <4>1
    <3>3. CASE outcome = "refused"
      <4>1. BinReplies(cmd, outcome, 0) =
               UNION {BinFailure(status) : status \in
                         {"value_too_large", "invalid_arguments", "unknown_command"}}
        BY <3>3 DEF BinReplies
      <4>2. PICK status \in {"value_too_large", "invalid_arguments", "unknown_command"} :
               reply \in BinFailure(status)
        BY <2>1, <4>1
      <4> QED BY <4>2
    <3> QED BY <3>1, <3>2, <3>3 DEF Failures
  <2>3. \A status : reply \in BinFailure(status) =>
           \E extras, body : reply[1] = HeadOf(status, extras, body)
    BY DEF BinFailure
  <2> QED BY <1>2, <2>2, <2>3, HeadMeans DEF DeserializeHeader
<1> QED BY <1>1, <1>2 DEF Protocols

(* That something was stored is understood, in either protocol.            *)
LEMMA StoredIs ==
    ASSUME NEW proto \in Protocols, NEW cmd \in Storage,
           NEW reply \in Replies(proto, cmd, "done", 0)
    PROVE  DeserializeHeader(proto, cmd, reply[1]).code = "stored"
<1>1. CASE proto = "txt"
  <2>1. Replies(proto, cmd, "done", 0) = {<<Line(TxtDone(cmd), 0)>>}
    BY <1>1 DEF Replies, TxtReplies, Storage, Retrieve
  <2>2. TxtDone(cmd) = "STORED"
    BY DEF TxtDone, Storage, Numeric
  <2> QED BY <1>1, <2>1, <2>2, LineMeans DEF DeserializeHeader
<1>2. CASE proto = "bin"
  <2>1. Replies(proto, cmd, "done", 0) = {<<HeadOf("ok", 0, 0)>>}
    BY <1>2 DEF Replies, BinReplies, BinDone, Storage, Retrieve, Numeric
  <2> QED BY <1>2, <2>1, HeadMeans DEF DeserializeHeader
<1> QED BY <1>1, <1>2 DEF Protocols

(* That there is no item is understood, in either protocol.                *)
LEMMA MissingIs ==
    ASSUME NEW proto \in Protocols, NEW reply \in Replies(proto, "gets", "missing", 0)
    PROVE  DeserializeHeader(proto, "gets", reply[1]).code = "not_found"
<1>1. "gets" \in Retrieve
  BY DEF Retrieve
<1>2. CASE proto = "txt"
  <2>1. Replies(proto, "gets", "missing", 0) = {<<Line("END", 0)>>}
    BY <1>1, <1>2 DEF Replies, TxtReplies, TxtMissing
  <2> QED BY <1>1, <1>2, <2>1, LineMeans DEF DeserializeHeader
<1>3. CASE proto = "bin"
  <2>1. Replies(proto, "gets", "missing", 0) = BinFailure("not_found")
    BY <1>3 DEF Replies, BinReplies, BinMissing
  <2>2. \E extras, body : reply[1] = HeadOf("not_found", extras, body)
    BY <2>1 DEF BinFailure
  <2> QED BY <1>3, <2>2, HeadMeans DEF DeserializeHeader
<1> QED BY <1>2, <1>3 DEF Protocols

(* There is a reply to everything.                                         *)
LEMMA Replied ==
    ASSUME NEW proto \in Protocols, NEW cmd, NEW outcome \in Failures \cup {"done"},
           outcome = "done" => cmd \in Storage
    PROVE  (CHOOSE reply \in Replies(proto, cmd, outcome, 0) : TRUE)
               \in Replies(proto, cmd, outcome, 0)
<1>1. \E reply : reply \in Replies(proto, cmd, outcome, 0)
  <2>1. CASE proto = "txt"
    <3>1. CASE outcome = "done"
      BY <2>1, <3>1 DEF Replies, TxtReplies, Storage, Retrieve
    <3>2. CASE outcome = "missing"
      BY <2>1, <3>2 DEF Replies, TxtReplies
    <3>3. CASE outcome = "present"
      BY <2>1, <3>3 DEF Replies, TxtReplies
    <3>4. CASE outcome = "changed"
      BY <2>1, <3>4 DEF Replies, TxtReplies
    <3>5. CASE outcome = "refused"
      BY <2>1, <3>5 DEF Replies, TxtReplies
    <3> QED BY <3>1, <3>2, <3>3, <3>4, <3>5 DEF Failures
  <2>2. CASE proto = "bin"
    <3>1. CASE outcome = "done"
      BY <2>2, <3>1 DEF Replies, BinReplies, BinDone, Storage, Retrieve, Numeric
    <3>2. CASE outcome = "missing"
      BY <2>2, <3>2 DEF Replies, BinReplies, BinFailure
    <3>3. CASE outcome \in {"present", "changed"}
      BY <2>2, <3>3 DEF Replies, BinReplies, BinFailure
    <3>4. CASE outcome = "refused"
      <4>1. Replies(proto, cmd, outcome, 0) =
               UNION {BinFailure(status) : status \in
                         {"value_too_large", "invalid_arguments", "unknown_command"}}
        BY <2>2, <3>4 DEF Replies, BinReplies
      <4>2. BinFailure("value_too_large") \subseteq Replies(proto, cmd, outcome, 0)
        BY <4>1
      <4> QED BY <4>2 DEF BinFailure
    <3> QED BY <3>1, <3>2, <3>3, <3>4 DEF Failures
  <2> QED BY <2>1, <2>2 DEF Protocols
<1> QED BY <1>1

-----------------------------------------------------------------------------
(* gets: what is found is what the server has                              *)

(* What a program is given that gets an item of these data and flags.      *)
Delivered(data, flags, cas) ==
    IF ~(Builtin \subseteq flags) THEN Response("ok", data, flags, cas)
    ELSE IF IsBlock(data) THEN Response("ok", Uncompress(data), flags, cas)
    ELSE Broken

(* gets changes nothing.                                                   *)
LEMMA EffectOfGets ==
    ASSUME NEW proto \in Protocols
    PROVE  EffectOf(proto, RetrieveCommand("gets", TheKey))
              = Unchanged(IF Present THEN "done" ELSE "missing")
<1> DEFINE c == RetrieveCommand("gets", TheKey)
<1>1. c.name = "gets"
  BY DEF RetrieveCommand, Command
<1>2. "gets" \in Retrieve /\ "gets" \notin Storage /\ "gets" \notin Numeric /\ "gets" # "del"
      /\ "gets" \notin {"append", "prepend"}
  BY DEF Retrieve, Storage, Numeric
<1> HIDE DEF c
<1>3. \A request : TxtEffect("gets", request) = Unchanged(IF Present THEN "done" ELSE "missing")
  BY <1>2 DEF TxtEffect
<1>4. \A request : BinEffect("gets", request) = Unchanged(IF Present THEN "done" ELSE "missing")
  BY <1>2 DEF BinEffect
<1>5. EffectOf(proto, c) = Unchanged(IF Present THEN "done" ELSE "missing")
  BY <1>1, <1>3, <1>4 DEF EffectOf
<1> QED BY <1>5 DEF c

(* Whatever the protocol, what comes back is what the server has.          *)
LEMMA FoundIs ==
    ASSUME NEW proto \in Protocols, NEW S, item.data \in Seq(S)
    PROVE  Found(proto) = IF Present THEN Delivered(item.data, item.flags, item.cas)
                          ELSE Response("not_found", <<>>, {}, 0)
<1> DEFINE c == RetrieveCommand("gets", TheKey)
           n == Len(item.data)
           reply == Answer(proto, "gets", EffectOf(proto, c))
<1>1. c.name = "gets"
  BY DEF RetrieveCommand, Command
<1>2. EffectOf(proto, c) = Unchanged(IF Present THEN "done" ELSE "missing")
  BY EffectOfGets
<1>3. Found(proto) = Receive(proto, c, reply)
  BY <1>1 DEF Found, ResponseTo
<1>4. "gets" \in Retrieve /\ "gets" \notin Numeric /\ n \in Nat
  BY DEF Retrieve, Numeric
<1> HIDE DEF c, n
<1>5. CASE ~Present
  <2>1. EffectOf(proto, c).outcome = "missing"
    BY <1>2, <1>5 DEF Unchanged, Effect
  <2>2. reply = CHOOSE r \in Replies(proto, "gets", "missing", 0) : TRUE
    BY <1>4, <2>1 DEF Answer
  <2>3. DeserializeHeader(proto, "gets", reply[1]).code = "not_found"
    BY <2>2, Replied, MissingIs DEF Failures
  <2> HIDE DEF reply
  <2>4. Receive(proto, c, reply) = Response("not_found", <<>>, {}, 0)
    BY <1>1, <2>3 DEF Receive
  <2> QED BY <1>3, <1>5, <2>4
<1>6. CASE Present
  <2>1. EffectOf(proto, c).outcome = "done"
    BY <1>2, <1>6 DEF Unchanged, Effect
  <2>2. PICK X : Chars(item.data) \in Seq(X)
    BY CharsAre
  <2>3. CharsOf(Chars(item.data)) = item.data /\ Len(Chars(item.data)) = n
    BY CharsAre DEF n
  <2>4. ASSUME NEW header, NEW body, header = reply[1],
               DeserializeHeader(proto, "gets", header).code = "ok",
               body = SubSeq(reply, 2, 1 + DeserializeHeader(proto, "gets", header).bytes),
               header.cas = item.cas,
               (IF proto = "txt" THEN header.flags ELSE body[1].flags) = item.flags,
               (IF proto = "txt" THEN TxtValueData(header, body)
                ELSE BinValueData(header, body)) = item.data
        PROVE  Found(proto) = Delivered(item.data, item.flags, item.cas)
    <3>1. Receive(proto, c, reply) = RetrievedBody(proto, header, body)
      BY <1>1, <1>4, <2>4 DEF Receive
    <3>2. RetrievedBody(proto, header, body) = Delivered(item.data, item.flags, item.cas)
      BY <2>4 DEF RetrievedBody, Delivered
    <3> QED BY <1>3, <3>1, <3>2
  <2>5. CASE proto = "txt"
    <3> DEFINE header == ValueLine(item.flags, n, item.cas)
               Y == X \cup {header, Line("\r\n", 0), Line("END", 0)}
    <3>1. reply = (<<header>> \o Chars(item.data)) \o Footer
      BY <1>4, <2>1, <2>5 DEF Answer, n
    <3>2. header \in Y /\ Footer \in Seq(Y) /\ Len(Footer) = 2 /\ Chars(item.data) \in Seq(Y)
      <4>1. Line("\r\n", 0) \in Y /\ Line("END", 0) \in Y
        OBVIOUS
      <4>2. X \subseteq Y
        OBVIOUS
      <4>3. header \in Y
        OBVIOUS
      <4> HIDE DEF Y, header
      <4> QED BY <2>2, <4>1, <4>2, <4>3, SeqMonotonic DEF Footer
    <3>3. /\ header.kind = "line" /\ header.word = "VALUE" /\ header.bytes = n
          /\ header.flags = item.flags /\ header.cas = item.cas
      BY HeadersAre
    <3> HIDE DEF header, Y, reply
    <3>4. DeserializeHeader(proto, "gets", header) = Parsed("ok", n + 2)
      <4>1. n # NotANumber /\ FooterSize = 2
        BY <1>4, <3>2 DEF NotANumber, FooterSize
      <4>2. TxtValue(header) = Parsed("ok", n + 2)
        BY <3>3, <4>1 DEF TxtValue
      <4> QED BY <1>4, <2>5, <3>3, <4>2 DEF DeserializeHeader, TxtHeader
    <3> DEFINE body == SubSeq(reply, 2, 1 + (n + 2))
    <3>5. reply[1] = header /\ SubSeq(body, 1, Len(body) - 2) = Chars(item.data)
      <4>1. /\ ((<<header>> \o Chars(item.data)) \o Footer)[1] = header
            /\ LET b == SubSeq((<<header>> \o Chars(item.data)) \o Footer, 2,
                               1 + (Len(Chars(item.data)) + 2))
               IN  SubSeq(b, 1, Len(b) - 2) = Chars(item.data)
        BY <3>2, TxtFraming
      <4> QED BY <2>3, <3>1, <4>1
    <3> HIDE DEF body
    <3>6. TxtValueData(header, body) = item.data
      BY <2>3, <3>2, <3>5 DEF TxtValueData, FooterSize
    <3>7. Parsed("ok", n + 2).code = "ok" /\ Parsed("ok", n + 2).bytes = n + 2
      BY DEF Parsed
    <3>8. /\ (IF proto = "txt" THEN header.flags ELSE body[1].flags) = item.flags
          /\ (IF proto = "txt" THEN TxtValueData(header, body)
              ELSE BinValueData(header, body)) = item.data
      BY <2>5, <3>3, <3>6
    <3>9. body = SubSeq(reply, 2, 1 + DeserializeHeader(proto, "gets", header).bytes)
      BY <3>4, <3>7 DEF body
    <3>10. Found(proto) = Delivered(item.data, item.flags, item.cas)
      BY <2>4, <3>3, <3>4, <3>5, <3>7, <3>8, <3>9
    <3> QED BY <1>6, <3>10
  <2>6. CASE proto = "bin"
    <3> DEFINE header == HeadWith("ok", 0, FlagsSize, FlagsSize + n, item.cas)
               field  == FlagsField(item.flags)
               Y == X \cup {header, field}
    <3>1. reply = <<header, field>> \o Chars(item.data)
      BY <1>4, <2>1, <2>6 DEF Answer, n
    <3>2. header \in Y /\ field \in Y /\ Chars(item.data) \in Seq(Y)
      <4>1. header \in Y /\ field \in Y /\ X \subseteq Y
        OBVIOUS
      <4> HIDE DEF Y, header, field
      <4> QED BY <2>2, <4>1, SeqMonotonic
    <3>3. /\ header.kind = "head" /\ header.magic = TRUE /\ header.status = "ok"
          /\ header.extras = FlagsSize /\ header.body = FlagsSize + n
          /\ header.key_len = 0 /\ header.cas = item.cas
      BY DEF HeadWith
    <3>4. field.flags = item.flags
      BY DEF FlagsField
    <3> HIDE DEF header, field, Y, reply
    <3>5. DeserializeHeader(proto, "gets", header) = Parsed("ok", 1 + n)
      <4>1. FlagsSize = 1
        BY DEF FlagsSize
      <4>2. BinSuccess("gets", header) = Parsed("ok", 1 + n)
        <5>1. "gets" \notin Storage /\ "gets" \notin {"touch", "del", "flush_all"}
          BY DEF Storage
        <5> QED BY <1>4, <3>3, <4>1, <5>1 DEF BinSuccess
      <4> QED BY <1>4, <2>6, <3>3, <4>2 DEF DeserializeHeader, BinHeader
    <3> DEFINE body == SubSeq(reply, 2, 1 + (1 + n))
    <3>6. /\ reply[1] = header /\ body[1] = field
          /\ SubSeq(body, 2, Len(body)) = Chars(item.data)
      <4>1. /\ (<<header, field>> \o Chars(item.data))[1] = header
            /\ LET b == SubSeq(<<header, field>> \o Chars(item.data), 2,
                               1 + (1 + Len(Chars(item.data))))
               IN  b[1] = field /\ SubSeq(b, 2, Len(b)) = Chars(item.data)
        BY <3>2, BinFraming
      <4> QED BY <2>3, <3>1, <4>1
    <3> HIDE DEF body
    <3>7. BinValueData(header, body) = item.data
      <4>1. FlagsSize + header.key_len + 1 = 2
        BY <3>3 DEF FlagsSize
      <4> QED BY <2>3, <3>6, <4>1 DEF BinValueData
    <3>8. Parsed("ok", 1 + n).code = "ok" /\ Parsed("ok", 1 + n).bytes = 1 + n
      BY DEF Parsed
    <3>9. proto # "txt"
      BY <2>6
    <3>10. /\ (IF proto = "txt" THEN header.flags ELSE body[1].flags) = item.flags
           /\ (IF proto = "txt" THEN TxtValueData(header, body)
               ELSE BinValueData(header, body)) = item.data
      BY <3>4, <3>6, <3>7, <3>9
    <3>11. body = SubSeq(reply, 2, 1 + DeserializeHeader(proto, "gets", header).bytes)
      BY <3>5, <3>8 DEF body
    <3>12. Found(proto) = Delivered(item.data, item.flags, item.cas)
      BY <2>4, <3>3, <3>5, <3>6, <3>8, <3>10, <3>11
    <3> QED BY <1>6, <3>12
  <2> QED BY <1>6, <2>5, <2>6 DEF Protocols
<1> QED BY <1>5, <1>6

-----------------------------------------------------------------------------
(* Storage commands                                                        *)

(* What is sent of a text                                                  *)
Wrapped(text, flags) == IF Builtin \subseteq flags THEN Compress(text) ELSE text

(* What a storage command does, and what is told of it.                    *)
Replaces(name, id, data, flags, after) ==
    /\ name \notin {"append", "prepend"}
    /\ name = "cas" => Present /\ id = item.cas
    /\ name = "add" /\ id = 0 => ~Present
    /\ after = Stored(data, flags)

Joins(name, data, after) ==
    /\ name \in {"append", "prepend"}
    /\ Present
    /\ after = Stored(IF name = "append" THEN item.data \o data ELSE data \o item.data,
                      item.flags)

(* A storage command replaces the item or leaves it alone; cas replaces    *)
(* the one it knows, add none unless it has an identifier.                 *)
LEMMA StoreEffectIs ==
    ASSUME NEW name \in Storage, name \notin {"append", "prepend"},
           NEW id, name = "cas" => id # 0, NEW data, NEW flags
    PROVE  LET effect == StoreEffect(name, id, flags, data)
           IN  \/ effect.outcome = "done" /\ Replaces(name, id, data, flags, effect.item)
               \/ effect.outcome \in Failures /\ effect.item = item
<1> DEFINE effect == StoreEffect(name, id, flags, data)
<1>1. \A outcome : Unchanged(outcome).outcome = outcome /\ Unchanged(outcome).item = item
  BY DEF Unchanged, Effect
<1>2. \A after : Effect("done", after, 0).outcome = "done" /\ Effect("done", after, 0).item = after
  BY DEF Effect
<1>3. CASE id # 0 /\ ~Present
  <2>1. effect = Unchanged("missing")
    BY <1>3 DEF StoreEffect, Present
  <2> QED BY <1>1, <2>1 DEF Failures
<1>4. CASE Present /\ id \notin {0, item.cas}
  <2>1. effect = Unchanged("changed")
    BY <1>4 DEF StoreEffect, Present
  <2> QED BY <1>1, <2>1 DEF Failures
<1>5. CASE id = 0 /\ name = "add" /\ Present
  <2>1. effect = Unchanged("present")
    BY <1>5 DEF StoreEffect, Present
  <2> QED BY <1>1, <2>1 DEF Failures
<1>6. CASE id = 0 /\ name = "replace" /\ ~Present
  <2>1. effect = Unchanged("missing")
    BY <1>6 DEF StoreEffect, Present
  <2> QED BY <1>1, <2>1 DEF Failures
<1>7. CASE /\ ~(id # 0 /\ ~Present)
           /\ ~(Present /\ id \notin {0, item.cas})
           /\ ~(id = 0 /\ name = "add" /\ Present)
           /\ ~(id = 0 /\ name = "replace" /\ ~Present)
  <2>1. effect = Effect("done", Stored(data, flags), 0)
    BY <1>7 DEF StoreEffect
  <2>2. Replaces(name, id, data, flags, Stored(data, flags))
    BY <1>7 DEF Replaces
  <2> QED BY <1>2, <2>1, <2>2
<1> QED BY <1>3, <1>4, <1>5, <1>6, <1>7

(* append and prepend join data to an item or leave it alone.              *)
LEMMA JoinEffectIs ==
    ASSUME NEW name \in {"append", "prepend"}, NEW id, NEW data
    PROVE  LET effect == JoinEffect(name, id, data)
           IN  \/ effect.outcome = "done" /\ Joins(name, data, effect.item)
               \/ effect.outcome \in Failures /\ effect.item = item
<1> DEFINE effect == JoinEffect(name, id, data)
           joined == Stored(IF name = "append" THEN item.data \o data
                            ELSE data \o item.data, item.flags)
<1>1. \A outcome : Unchanged(outcome).outcome = outcome /\ Unchanged(outcome).item = item
  BY DEF Unchanged, Effect
<1>2. CASE ~Present
  <2>1. effect = Unchanged("missing")
    BY <1>2 DEF JoinEffect
  <2> QED BY <1>1, <2>1 DEF Failures
<1>3. CASE Present /\ id \notin {0, item.cas}
  <2>1. effect = Unchanged("changed")
    BY <1>3 DEF JoinEffect
  <2> QED BY <1>1, <2>1 DEF Failures
<1>4. CASE Present /\ id \in {0, item.cas}
  <2>1. effect = Effect("done", joined, 0)
    BY <1>4 DEF JoinEffect
  <2>2. Joins(name, data, joined)
    BY <1>4 DEF Joins
  <2> QED BY <2>1, <2>2 DEF Effect
<1> QED BY <1>2, <1>3, <1>4

(* A storage command on its way through either protocol                    *)
LEMMA EffectOfStore ==
    ASSUME NEW proto \in Protocols, NEW name \in Storage, NEW text, NEW opts,
           CanStore(name, opts)
    PROVE  LET effect == EffectOf(proto, StorageCommand(name, TheKey, text, opts))
           IN  \/ /\ effect.outcome = "done"
                  /\ \/ Replaces(name, opts.id, Wrapped(text, opts.flags), opts.flags, effect.item)
                     \/ Joins(name, Wrapped(text, opts.flags), effect.item)
               \/ effect.outcome \in Failures /\ effect.item = item
<1> DEFINE c == StorageCommand(name, TheKey, text, opts)
           effect == EffectOf(proto, c)
           data == Wrapped(text, opts.flags)
<1>1. c.name = name /\ c.data = data /\ c.opts = opts
  BY DEF StorageCommand, Command, Wrapped
<1>2. name \notin Retrieve /\ name \notin Numeric /\ name # "del"
  BY DEF Retrieve, Storage, Numeric
<1> HIDE DEF c, data
<1>3. \/ /\ name \in {"append", "prepend"}
         /\ \E id : effect = JoinEffect(name, id, data)
      \/ /\ name \notin {"append", "prepend"}
         /\ \E id : /\ effect = StoreEffect(name, id, opts.flags, data)
                    /\ id = opts.id \/ (id = 0 /\ name # "cas")
  <2>1. CASE proto = "txt"
    <3>1. effect = TxtEffect(name, TxtRequest(c))
      BY <1>1, <2>1 DEF EffectOf, Serialize
    <3>2. TxtRequest(c).data = data /\ TxtRequest(c).cas = opts.id
          /\ TxtRequest(c).flags = opts.flags
      BY <1>1, <1>2 DEF TxtRequest, Storage, Retrieve, Numeric
    <3> HIDE DEF effect
    <3>3. CASE name \in {"append", "prepend"}
      <4>1. effect = JoinEffect(name, 0, data)
        BY <1>2, <3>1, <3>2, <3>3 DEF TxtEffect
      <4> QED BY <3>3, <4>1
    <3>4. CASE name \notin {"append", "prepend"}
      <4> DEFINE id == IF name = "cas" THEN opts.id ELSE 0
      <4>1. effect = StoreEffect(name, id, opts.flags, data)
        BY <1>2, <3>1, <3>2, <3>4 DEF TxtEffect
      <4>2. id = opts.id \/ (id = 0 /\ name # "cas")
        OBVIOUS
      <4> HIDE DEF id
      <4> QED BY <3>4, <4>1, <4>2
    <3> QED BY <3>3, <3>4
  <2>2. CASE proto = "bin"
    <3>1. effect = BinEffect(name, BinRequest(c))
      BY <1>1, <2>2 DEF EffectOf, Serialize
    <3>2. BinRequest(c).data = data /\ BinRequest(c).cas = opts.id
      BY <1>1 DEF BinRequest
    <3> HIDE DEF effect
    <3>3. CASE name \in {"append", "prepend"}
      <4>1. effect = JoinEffect(name, opts.id, data)
        BY <1>2, <3>1, <3>2, <3>3 DEF BinEffect
      <4> QED BY <3>3, <4>1
    <3>4. CASE name \notin {"append", "prepend"}
      <4>1. Extras(c).flags = opts.flags
        BY <1>1, <1>2, <3>4 DEF Extras, Storage, Numeric
      <4>2. BinRequest(c).extras = Extras(c)
        BY DEF BinRequest
      <4>3. effect = StoreEffect(name, opts.id, opts.flags, data)
        BY <1>2, <3>1, <3>2, <3>4, <4>1, <4>2 DEF BinEffect
      <4>4. \E id : /\ effect = StoreEffect(name, id, opts.flags, data)
                    /\ id = opts.id \/ (id = 0 /\ name # "cas")
        <5> WITNESS opts.id
        <5> QED BY <4>3
      <4> QED BY <3>4, <4>4
    <3> QED BY <3>3, <3>4
  <2> QED BY <2>1, <2>2 DEF Protocols
<1> HIDE DEF effect
<1>4. CASE name \in {"append", "prepend"}
  <2>1. PICK id : effect = JoinEffect(name, id, data)
    BY <1>3, <1>4
  <2>2. \/ effect.outcome = "done" /\ Joins(name, data, effect.item)
        \/ effect.outcome \in Failures /\ effect.item = item
    BY <1>4, <2>1, JoinEffectIs
  <2> QED BY <2>2 DEF effect, data, c
<1>5. CASE name \notin {"append", "prepend"}
  <2>1. PICK id : /\ effect = StoreEffect(name, id, opts.flags, data)
                  /\ id = opts.id \/ (id = 0 /\ name # "cas")
    BY <1>3, <1>5
  <2>2. name = "cas" => id # 0
    BY <2>1 DEF CanStore
  <2>3. \/ effect.outcome = "done" /\ Replaces(name, id, data, opts.flags, effect.item)
        \/ effect.outcome \in Failures /\ effect.item = item
    BY <1>5, <2>1, <2>2, StoreEffectIs
  <2>4. Replaces(name, id, data, opts.flags, effect.item)
           => Replaces(name, opts.id, data, opts.flags, effect.item)
    BY <2>1 DEF Replaces
  <2> QED BY <2>3, <2>4 DEF effect, data, c
<1> QED BY <1>4, <1>5

(* It is told that it was done if, and only if, it was.                    *)
LEMMA StoreIs ==
    ASSUME NEW proto \in Protocols, NEW name \in Storage, NEW text, NEW opts,
           CanStore(name, opts)
    PROVE  LET c     == StorageCommand(name, TheKey, text, opts)
               after == EffectOf(proto, c).item
           IN  \/ /\ Told(name, ResponseTo(proto, c).code) = "yes"
                  /\ \/ Replaces(name, opts.id, Wrapped(text, opts.flags), opts.flags, after)
                     \/ Joins(name, Wrapped(text, opts.flags), after)
               \/ /\ Told(name, ResponseTo(proto, c).code) # "yes"
                  /\ after = item
<1> DEFINE c      == StorageCommand(name, TheKey, text, opts)
           effect == EffectOf(proto, c)
           reply  == Answer(proto, name, effect)
           code   == DeserializeHeader(proto, name, reply[1]).code
<1>1. c.name = name
  BY DEF StorageCommand, Command
<1>2. name \notin Retrieve /\ name \notin Numeric
  BY DEF Retrieve, Storage, Numeric
<1>3. \/ /\ effect.outcome = "done"
         /\ \/ Replaces(name, opts.id, Wrapped(text, opts.flags), opts.flags, effect.item)
            \/ Joins(name, Wrapped(text, opts.flags), effect.item)
      \/ effect.outcome \in Failures /\ effect.item = item
  BY EffectOfStore
<1> HIDE DEF c, effect
<1>4. reply = CHOOSE r \in Replies(proto, name, effect.outcome, 0) : TRUE
  BY <1>2 DEF Answer
<1>5. reply \in Replies(proto, name, effect.outcome, 0)
  BY <1>3, <1>4, Replied
<1>6. ResponseTo(proto, c) = Response(code, <<>>, {}, 0)
  <2>1. ResponseTo(proto, c) = Receive(proto, c, reply)
    BY <1>1 DEF ResponseTo, effect
  <2> HIDE DEF reply
  <2>2. Receive(proto, c, reply) = Response(code, <<>>, {}, 0)
    BY <1>1, <1>2 DEF Receive
  <2> QED BY <2>1, <2>2
<1> HIDE DEF reply
<1>7. ResponseTo(proto, c).code = code
  BY <1>6 DEF Response
<1>8. YesCodes(name) = {"ok", "stored"}
  <2>1. name \notin {"touch", "del", "flush_all"}
    BY DEF Storage
  <2> QED BY <1>2, <2>1 DEF YesCodes
<1>9. CASE effect.outcome = "done"
  <2>1. code = "stored"
    BY <1>5, <1>9, StoredIs
  <2>2. Told(name, ResponseTo(proto, c).code) = "yes"
    BY <1>7, <1>8, <2>1 DEF Told
  <2>3. effect.outcome \notin Failures
    BY <1>9 DEF Failures
  <2> QED BY <1>3, <2>2, <2>3 DEF effect, c
<1>10. CASE effect.outcome \in Failures
  <2>1. code \notin {"ok", "stored"}
    BY <1>5, <1>10, FailureIs
  <2>2. Told(name, ResponseTo(proto, c).code) # "yes"
    BY <1>7, <1>8, <2>1 DEF Told
  <2>3. effect.outcome # "done"
    BY <1>10 DEF Failures
  <2> QED BY <1>3, <2>2, <2>3 DEF effect, c
<1> QED BY <1>3, <1>9, <1>10

-----------------------------------------------------------------------------
(* incr, decr and del                                                      *)

(* What incr and decr do: they make an item, or count one that is a number *)
(* and nothing else.                                                       *)
Makes(number, after) == ~Present /\ after = Stored(Text[number], {})

Recounts(number, after) ==
    /\ Present /\ IsNumber(item.data)
    /\ after = Stored(Padded(Text[number], item.data), item.flags)

(* incr wraps around and decr stops at 0.                                  *)
LEMMA CountedIs ==
    ASSUME NEW verb, NEW n \in Nat, NEW value \in 0 .. MaxWord, n <= MaxWord
    PROVE  Counted(verb, n, value) \in 0 .. MaxWord
<1>1. MaxWord \in Nat
  BY WordAssumption
<1>2. Max({n - value, 0}) = IF n - value >= 0 THEN n - value ELSE 0
  BY <1>1, MaxOfTwo
<1>3. (n + value) % (MaxWord + 1) \in 0 .. MaxWord
  BY <1>1
<1> QED BY <1>1, <1>2, <1>3 DEF Counted

(* incr and decr make an item, count it or leave it alone.                 *)
LEMMA CountEffectIs ==
    ASSUME NEW verb \in Numeric, NEW value \in 0 .. MaxWord, NEW initials,
           \A n \in initials : n \in 0 .. MaxWord,
           NEW S, item.data \in Seq(S)
    PROVE  LET effect == CountEffect(verb, value, initials)
           IN  \/ /\ effect.outcome = "done" /\ effect.number \in 0 .. MaxWord
                  /\ Makes(effect.number, effect.item) \/ Recounts(effect.number, effect.item)
               \/ effect.outcome \in Failures /\ effect.item = item
<1> DEFINE effect == CountEffect(verb, value, initials)
           number == Counted(verb, Number(item.data), value)
           initial == CHOOSE n \in initials : TRUE
<1>1. \A outcome : Unchanged(outcome).outcome = outcome /\ Unchanged(outcome).item = item
  BY DEF Unchanged, Effect
<1>2. \A after, n : /\ Effect("done", after, n).outcome = "done"
                    /\ Effect("done", after, n).item = after
                    /\ Effect("done", after, n).number = n
  BY DEF Effect
<1>3. CASE ~Present /\ initials = {}
  <2>1. effect = Unchanged("missing")
    BY <1>3 DEF CountEffect
  <2> QED BY <1>1, <2>1 DEF Failures
<1>4. CASE ~Present /\ initials # {}
  <2>1. effect = Effect("done", Stored(Text[initial], {}), initial)
    BY <1>4 DEF CountEffect
  <2>2. initial \in 0 .. MaxWord
    <3>1. initial \in initials
      BY <1>4
    <3> QED BY <3>1
  <2> QED BY <1>2, <1>4, <2>1, <2>2 DEF Makes
<1>5. CASE Present /\ ~IsNumber(item.data)
  <2>1. effect = Unchanged("refused")
    BY <1>5 DEF CountEffect
  <2> QED BY <1>1, <2>1 DEF Failures
<1>6. CASE Present /\ IsNumber(item.data)
  <2>1. effect = Effect("done", Stored(Padded(Text[number], item.data), item.flags), number)
    BY <1>6 DEF CountEffect
  <2>2. Number(item.data) \in Nat /\ Number(item.data) <= MaxWord
    BY <1>6, NumberType DEF IsNumber
  <2>3. number \in 0 .. MaxWord
    BY <2>2, CountedIs
  <2> HIDE DEF number, effect
  <2> QED BY <1>2, <1>6, <2>1, <2>3 DEF Recounts, effect
<1> QED BY <1>3, <1>4, <1>5, <1>6

(* incr and decr on their way through either protocol                      *)
LEMMA EffectOfCount ==
    ASSUME NEW proto \in Protocols, NEW name \in Numeric, NEW value \in 0 .. MaxWord,
           NEW opts, opts.id \in 0 .. MaxWord,
           NEW S, item.data \in Seq(S)
    PROVE  LET effect == EffectOf(proto, IncrDecrCommand(name, TheKey, value, opts))
           IN  \/ /\ effect.outcome = "done" /\ effect.number \in 0 .. MaxWord
                  /\ Makes(effect.number, effect.item) \/ Recounts(effect.number, effect.item)
               \/ effect.outcome \in Failures /\ effect.item = item
<1> DEFINE c == IncrDecrCommand(name, TheKey, value, opts)
           effect == EffectOf(proto, c)
<1>1. c.name = name /\ c.value = value /\ c.opts = opts
  BY DEF IncrDecrCommand, Command
<1>2. name \notin Retrieve /\ name \notin Storage /\ name # "del"
      /\ name \notin {"append", "prepend"} /\ name \notin {"set", "cas", "add", "replace"}
      /\ name \notin {"touch", "flush_all"}
  BY DEF Retrieve, Storage, Numeric
<1> HIDE DEF c
<1>3. \E initials : /\ effect = CountEffect(name, value, initials)
                    /\ \A n \in initials : n \in 0 .. MaxWord
  <2>1. CASE proto = "txt"
    <3>1. effect = TxtEffect(name, TxtRequest(c))
      BY <1>1, <2>1 DEF EffectOf, Serialize
    <3>2. TxtRequest(c).value = value
      BY <1>1, <1>2 DEF TxtRequest
    <3> HIDE DEF effect
    <3>3. effect = CountEffect(name, value, {})
      BY <1>2, <3>1, <3>2 DEF TxtEffect
    <3> QED BY <3>3
  <2>2. CASE proto = "bin"
    <3>1. effect = BinEffect(name, BinRequest(c))
      BY <1>1, <2>2 DEF EffectOf, Serialize
    <3>2. BinRequest(c).extras = Extras(c)
      BY DEF BinRequest
    <3>3. Extras(c).value = value /\ Extras(c).initial = opts.id
      BY <1>1, <1>2 DEF Extras
    <3> HIDE DEF effect
    <3>4. effect = CountEffect(name, value, {opts.id})
      BY <1>2, <3>1, <3>2, <3>3 DEF BinEffect
    <3> QED BY <3>4
  <2> QED BY <2>1, <2>2 DEF Protocols
<1> HIDE DEF effect
<1>4. PICK initials : /\ effect = CountEffect(name, value, initials)
                      /\ \A n \in initials : n \in 0 .. MaxWord
  BY <1>3
<1>5. \/ /\ effect.outcome = "done" /\ effect.number \in 0 .. MaxWord
         /\ Makes(effect.number, effect.item) \/ Recounts(effect.number, effect.item)
      \/ effect.outcome \in Failures /\ effect.item = item
  BY <1>4, CountEffectIs
<1> QED BY <1>5 DEF effect, c

(* The number that was counted is what is told, in either protocol.        *)
LEMMA NumberAnswered ==
    ASSUME NEW proto \in Protocols, NEW name \in Numeric, NEW c, c.name = name,
           NEW effect, effect.outcome = "done"
    PROVE  Receive(proto, c, Answer(proto, name, effect))
              = Response("ok", Text[effect.number], {}, 0)
<1> DEFINE n == effect.number
           reply == Answer(proto, name, effect)
<1>1. name \notin Retrieve /\ name \notin Storage /\ name \notin {"touch", "del", "flush_all"}
  BY DEF Retrieve, Storage, Numeric
<1>2. CASE proto = "txt"
  <2> DEFINE header == NumberLine(n)
             parsed == DeserializeHeader(proto, name, header)
  <2>1. reply = <<header>>
    BY <1>1, <1>2 DEF Answer
  <2>2. header.kind = "line" /\ header.word = "NUMBER" /\ header.number = n
    BY HeadersAre
  <2> HIDE DEF header, reply
  <2>3. TxtCode(name, "NUMBER") = "ok"
    <3>1. TxtWords(name) = [TOUCHED |-> "touched", NOT_FOUND |-> "not_found",
                            NUMBER |-> "ok"]
      BY <1>1 DEF TxtWords
    <3>2. "NUMBER" \in DOMAIN TxtWords(name) /\ TxtWords(name)["NUMBER"] = "ok"
      BY <3>1
    <3> QED BY <3>2 DEF TxtCode
  <2>4. parsed.code = "ok"
    BY <1>1, <1>2, <2>2, <2>3 DEF DeserializeHeader, TxtHeader, Parsed
  <2>5. reply[1] = header
    BY <2>1
  <2> HIDE DEF parsed
  <2>6. Receive(proto, c, reply) = NumberBody(proto, header, SubSeq(reply, 2, 1 + parsed.bytes))
    BY <1>1, <2>4, <2>5 DEF Receive, parsed
  <2> QED BY <1>2, <2>2, <2>6 DEF NumberBody, reply
<1>3. CASE proto = "bin"
  <2> DEFINE header == HeadWith("ok", 0, 0, NumberSize, 0)
             field  == NumberField(n)
             parsed == DeserializeHeader(proto, name, header)
  <2>1. proto # "txt" /\ reply = <<header, field>>
    BY <1>1, <1>3 DEF Answer
  <2>2. header.kind = "head" /\ header.magic = TRUE /\ header.status = "ok"
        /\ header.body = NumberSize
    BY DEF HeadWith
  <2>3. field.number = n
    BY DEF NumberField
  <2> HIDE DEF header, field, reply
  <2>4. parsed = Parsed("ok", 1)
    <3>1. BinSuccess(name, header) = Parsed("ok", NumberSize)
      BY <1>1, <2>2 DEF BinSuccess
    <3>2. NumberSize = 1
      BY DEF NumberSize
    <3> QED BY <2>1, <2>2, <3>1, <3>2 DEF DeserializeHeader, BinHeader
  <2>5. parsed.code = "ok" /\ parsed.bytes = 1
    BY <2>4 DEF Parsed
  <2>6. reply[1] = header /\ SubSeq(reply, 2, 2)[1] = field
    BY <2>1
  <2> HIDE DEF parsed
  <2>7. 1 + parsed.bytes = 2
    BY <2>5
  <2>8. Receive(proto, c, reply) = NumberBody(proto, header, SubSeq(reply, 2, 2))
    BY <1>1, <2>5, <2>6, <2>7 DEF Receive, parsed
  <2> QED BY <2>1, <2>3, <2>6, <2>8 DEF NumberBody, reply
<1> QED BY <1>2, <1>3 DEF Protocols

(* They are told to have counted if, and only if, they have; what is told  *)
(* is what was counted.                                                    *)
LEMMA CountIs ==
    ASSUME NEW proto \in Protocols, NEW name \in Numeric, NEW value \in 0 .. MaxWord,
           NEW opts, opts.id \in 0 .. MaxWord,
           NEW S, item.data \in Seq(S)
    PROVE  LET c        == IncrDecrCommand(name, TheKey, value, opts)
               effect   == EffectOf(proto, c)
               response == ResponseTo(proto, c)
           IN  \/ /\ Told(name, response.code) = "yes"
                  /\ effect.number \in 0 .. MaxWord /\ response.data = Text[effect.number]
                  /\ Makes(effect.number, effect.item) \/ Recounts(effect.number, effect.item)
               \/ Told(name, response.code) # "yes" /\ effect.item = item
<1> DEFINE c        == IncrDecrCommand(name, TheKey, value, opts)
           effect   == EffectOf(proto, c)
           response == ResponseTo(proto, c)
           reply    == Answer(proto, name, effect)
           code     == DeserializeHeader(proto, name, reply[1]).code
<1>1. c.name = name
  BY DEF IncrDecrCommand, Command
<1>2. name \notin Retrieve /\ name \notin Storage /\ name \notin {"touch", "del", "flush_all"}
  BY DEF Retrieve, Storage, Numeric
<1>3. \/ /\ effect.outcome = "done" /\ effect.number \in 0 .. MaxWord
         /\ Makes(effect.number, effect.item) \/ Recounts(effect.number, effect.item)
      \/ effect.outcome \in Failures /\ effect.item = item
  BY EffectOfCount
<1>4. response = Receive(proto, c, reply)
  BY <1>1 DEF ResponseTo
<1>5. YesCodes(name) = {"ok"}
  BY <1>2 DEF YesCodes
<1> HIDE DEF c, effect, response
<1>6. CASE effect.outcome = "done"
  <2>1. response = Response("ok", Text[effect.number], {}, 0)
    BY <1>1, <1>4, <1>6, NumberAnswered
  <2>2. response.code = "ok" /\ response.data = Text[effect.number]
    BY <2>1 DEF Response
  <2>3. Told(name, response.code) = "yes"
    BY <1>5, <2>2 DEF Told
  <2>4. effect.outcome \notin Failures
    BY <1>6 DEF Failures
  <2> QED BY <1>3, <2>2, <2>3, <2>4 DEF effect, c, response
<1>7. CASE effect.outcome \in Failures
  <2>1. effect.outcome # "done"
    BY <1>7 DEF Failures
  <2>2. reply = CHOOSE r \in Replies(proto, name, effect.outcome, 0) : TRUE
    BY <1>2, <2>1 DEF Answer
  <2>3. reply \in Replies(proto, name, effect.outcome, 0)
    BY <1>7, <2>1, <2>2, Replied
  <2> HIDE DEF reply
  <2>4. code \notin {"ok", "stored"}
    BY <1>7, <2>3, FailureIs
  <2>5. response = Response(code, <<>>, {}, 0)
    BY <1>1, <1>4, <2>4 DEF Receive
  <2>6. response.code = code
    BY <2>5 DEF Response
  <2>7. Told(name, response.code) # "yes"
    BY <1>5, <2>4, <2>6 DEF Told
  <2> QED BY <1>3, <2>1, <2>7 DEF effect, c, response
<1> QED BY <1>3, <1>6, <1>7

(* del leaves nothing.                                                     *)
LEMMA DeleteIs ==
    ASSUME NEW proto \in Protocols
    PROVE  EffectOf(proto, DeleteCommand(TheKey)).item = IF Present THEN NoItem ELSE item
<1> DEFINE c == DeleteCommand(TheKey)
           effect == IF Present THEN Effect("done", NoItem, 0) ELSE Unchanged("missing")
<1>1. c.name = "del"
  BY DEF DeleteCommand, Command
<1>2. "del" \notin Retrieve /\ "del" \notin Storage /\ "del" \notin Numeric
      /\ "del" \notin {"append", "prepend"}
  BY DEF Retrieve, Storage, Numeric
<1> HIDE DEF c
<1>3. \A request : TxtEffect("del", request) = effect
  BY <1>2 DEF TxtEffect
<1>4. \A request : BinEffect("del", request) = effect
  BY <1>2 DEF BinEffect
<1>5. EffectOf(proto, c) = effect
  BY <1>1, <1>3, <1>4 DEF EffectOf
<1>6. effect.item = IF Present THEN NoItem ELSE item
  BY DEF Effect, Unchanged
<1> QED BY <1>5, <1>6 DEF c

-----------------------------------------------------------------------------
(* Objects and the data that represent them                                *)

Signed == -(MaxSigned + 1) .. MaxSigned

(* Data that an object is converted to, and that decr may have padded.     *)
Represents(object, data) ==
    \/ object = Str(data)
    \/ \E n \in Signed, k \in Nat : object = Long(n) /\ data = SignedText(n) \o Spaces(k)
    \/ \E x \in Nat : object = Float(x) /\ data = FloatText(x)
    \/ \E text \in Seq(Glyphs) : object = Pickled(text) /\ data = Dumps(text)

(* The fields of objects                                                   *)
LEMMA ObjectTypes ==
    /\ \A text : Str(text).type = "STRING" /\ Str(text).text = text /\ Str(text).number = 0
    /\ \A n : Long(n).type = "LONG" /\ Long(n).text = <<>> /\ Long(n).number = n
    /\ \A x : Float(x).type = "DOUBLE" /\ Float(x).text = <<>> /\ Float(x).number = x
    /\ \A text : /\ Pickled(text).type = "PICKLED" /\ Pickled(text).text = text
                 /\ Pickled(text).number = 0
    /\ None.type = "NONE" /\ Unreadable.type = "THROWS"
  BY DEF Str, Long, Float, Pickled, None, Unreadable, Object

(* The text of a signed number is printed.                                 *)
LEMMA SignedTextIs ==
    ASSUME NEW n \in Signed
    PROVE  SignedText(n) \in Seq(Printed) /\ SignedText(n) \o Spaces(0) = SignedText(n)
<1>1. SignedText(n) \in Seq(Printed)
  <2>1. CASE n < 0
    <3> DEFINE m == -n
    <3>1. m \in Nat
      BY <2>1, SignedRange DEF Signed
    <3> HIDE DEF m
    <3>2. Text[m] \in Seq(Printed)
      BY <3>1, TextType
    <3>3. "-" \in Printed
      BY DEF Printed
    <3>4. <<"-">> \o Text[m] \in Seq(Printed)
      BY <3>2, <3>3, ConsIs
    <3> QED BY <2>1, <3>4 DEF SignedText, m
  <2>2. CASE ~(n < 0)
    <3>1. n \in Nat
      BY <2>2, SignedRange DEF Signed
    <3> QED BY <2>2, <3>1, TextType DEF SignedText
  <2> QED BY <2>1, <2>2
<1>2. Spaces(0) = <<>>
  <2>1. Spaces(0) \in Seq(Printed) /\ Len(Spaces(0)) = 0
    BY SpacesAre
  <2> QED BY <2>1, EmptySeq
<1> QED BY <1>1, <1>2, ConcatEmptySeq

(* The text of a float is printed.                                         *)
LEMMA FloatTextIs ==
    ASSUME NEW x \in Nat
    PROVE  FloatText(x) \in Seq(Printed)
<1> DEFINE p == (x + 1) \div 3
           whole == Text[p \div 10]
           last == Text[p % 10]
<1>1. p \in Nat
  BY Thirds
<1>2. p \div 10 \in Nat /\ p % 10 \in Nat
  <2> HIDE DEF p
  <2> QED BY <1>1, Tenths
<1>3. whole \in Seq(Printed) /\ last \in Seq(Printed)
  BY <1>2, TextType
<1>4. <<".">> \in Seq(Printed)
  BY DEF Printed
<1>5. FloatText(x) = (whole \o <<".">>) \o last
  BY DEF FloatText
<1> HIDE DEF whole, last
<1>6. whole \o <<".">> \in Seq(Printed)
  BY <1>3, <1>4, ConcatProperties
<1> QED BY <1>3, <1>5, <1>6, ConcatProperties

(* What programs store is converted to data that represent it.             *)
LEMMA ConvertedIs ==
    ASSUME NEW object \in Objects
    PROVE  /\ ToText(object) \in Seq(Glyphs)
           /\ Represents(object, ToText(object))
           /\ object.type \in MASK \cup {"STRING"}
           /\ object.type = "STRING" => object = Str(ToText(object))
<1>1. Printed \subseteq Glyphs /\ Characters \subseteq Glyphs /\ "P" \in Glyphs
  BY GlyphsAre
<1>2. \A text \in Strings : text \in Seq(Glyphs)
  BY <1>1, ObjectAssumption, SeqMonotonic
<1>3. CASE \E text \in Strings : object = Str(text)
  <2>1. PICK text \in Strings : object = Str(text)
    BY <1>3
  <2>2. object.type = "STRING" /\ object.text = text
    BY <2>1, ObjectTypes
  <2>3. ToText(object) = text
    BY <2>2 DEF ToText
  <2> QED BY <1>2, <2>1, <2>2, <2>3 DEF Represents
<1>4. CASE \E n \in Longs : object = Long(n)
  <2>1. PICK n \in Longs : object = Long(n)
    BY <1>4
  <2>2. n \in Signed
    BY ObjectAssumption DEF Signed
  <2>3. object.type = "LONG" /\ object.number = n
    BY <2>1, ObjectTypes
  <2>4. ToText(object) = SignedText(n)
    BY <2>3 DEF ToText
  <2>5. SignedText(n) \in Seq(Glyphs) /\ SignedText(n) = SignedText(n) \o Spaces(0)
    BY <1>1, <2>2, SignedTextIs, SeqMonotonic
  <2>6. Represents(object, SignedText(n))
    <3>1. 0 \in Nat
      OBVIOUS
    <3> QED BY <2>1, <2>2, <2>5, <3>1 DEF Represents
  <2> QED BY <2>3, <2>4, <2>5, <2>6 DEF MASK
<1>5. CASE \E x \in Floats : object = Float(x)
  <2>1. PICK x \in Floats : object = Float(x)
    BY <1>5
  <2>2. x \in Nat
    BY ObjectAssumption
  <2>3. object.type = "DOUBLE" /\ object.number = x
    BY <2>1, ObjectTypes
  <2>4. ToText(object) = FloatText(x)
    BY <2>3 DEF ToText
  <2>5. FloatText(x) \in Seq(Glyphs)
    BY <1>1, <2>2, FloatTextIs, SeqMonotonic
  <2>6. Represents(object, FloatText(x))
    BY <2>1, <2>2 DEF Represents
  <2> QED BY <2>3, <2>4, <2>5, <2>6 DEF MASK
<1>6. CASE \E text \in Strings : object = Pickled(text)
  <2>1. PICK text \in Strings : object = Pickled(text)
    BY <1>6
  <2>2. object.type = "PICKLED" /\ object.text = text
    BY <2>1, ObjectTypes
  <2>3. ToText(object) = Dumps(text)
    BY <2>2 DEF ToText
  <2>4. Dumps(text) \in Seq(Glyphs)
    BY <1>1, <1>2, ConsIs DEF Dumps
  <2>5. Represents(object, Dumps(text))
    BY <1>2, <2>1 DEF Represents
  <2> QED BY <2>2, <2>3, <2>4, <2>5 DEF MASK
<1> QED BY <1>3, <1>4, <1>5, <1>6 DEF Objects

(* A program that knows the type reads what was stored.                    *)
LEMMA ReadBack ==
    ASSUME NEW object, NEW data \in Seq(Glyphs), Represents(object, data)
    PROVE  Same(object, FromText(object.type, data))
<1>1. CASE object = Str(data)
  <2>1. object.type = "STRING" /\ object.text = data /\ object.number = 0
    BY <1>1, ObjectTypes
  <2>2. FromText(object.type, data) = object
    BY <1>1, <2>1 DEF FromText
  <2> QED BY <2>1, <2>2 DEF Same
<1>2. CASE \E n \in Signed, k \in Nat : object = Long(n) /\ data = SignedText(n) \o Spaces(k)
  <2>1. PICK n \in Signed, k \in Nat : object = Long(n) /\ data = SignedText(n) \o Spaces(k)
    BY <1>2
  <2>2. object.type = "LONG"
    BY <2>1, ObjectTypes
  <2>3. AsSigned(data) = n
    BY <2>1, AsSignedIs DEF Signed
  <2>4. FromText(object.type, data) = object
    BY <2>1, <2>2, <2>3 DEF FromText
  <2> QED BY <2>2, <2>4 DEF Same
<1>3. CASE \E x \in Nat : object = Float(x) /\ data = FloatText(x)
  <2>1. PICK x \in Nat : object = Float(x) /\ data = FloatText(x)
    BY <1>3
  <2> DEFINE y == AsFloat(data)
  <2>2. x - y \in -1 .. 1
    BY <2>1, AsFloatIs
  <2> HIDE DEF y
  <2>3. object.type = "DOUBLE" /\ object.number = x /\ object.text = <<>>
        /\ Float(y).type = "DOUBLE" /\ Float(y).number = y /\ Float(y).text = <<>>
    BY <2>1, ObjectTypes
  <2>4. FromText(object.type, data) = Float(y)
    BY <2>3 DEF FromText, y
  <2> QED BY <2>2, <2>3, <2>4 DEF Same
<1>4. CASE \E text \in Seq(Glyphs) : object = Pickled(text) /\ data = Dumps(text)
  <2>1. PICK text \in Seq(Glyphs) : object = Pickled(text) /\ data = Dumps(text)
    BY <1>4
  <2>2. object.type = "PICKLED"
    BY <2>1, ObjectTypes
  <2>3. data # <<>> /\ data[1] = "P" /\ Tail(data) = text
    <3>1. \A c \in Glyphs : /\ <<c>> \o text # <<>> /\ (<<c>> \o text)[1] = c
                             /\ Tail(<<c>> \o text) = text
      BY ConsIs
    <3>2. "P" \in Glyphs
      BY GlyphsAre
    <3>3. data = <<"P">> \o text
      BY <2>1 DEF Dumps
    <3> QED BY <3>1, <3>2, <3>3
  <2>4. Loads(data) = object
    BY <2>1, <2>3 DEF Loads
  <2>5. FromText(object.type, data) = object
    BY <2>2, <2>4 DEF FromText
  <2> QED BY <2>2, <2>5 DEF Same
<1> QED BY <1>1, <1>2, <1>3, <1>4 DEF Represents

(* A program in Python knows it by the mark.                               *)
LEMMA MarkIsRead ==
    ASSUME NEW object, object.type \in MASK \cup {"STRING"},
           NEW flags, flags \cap MASK = MarkOf(object), NEW data
    PROVE  DataFromString(data, flags) = FromText(object.type, data)
<1> DEFINE marks == flags \cap MASK
<1>1. CASE object.type = "STRING"
  <2>1. marks = {}
    BY <1>1 DEF MarkOf, MASK
  <2>2. Cardinality(marks) # 1
    BY <2>1, FS_EmptySet
  <2>3. FromText(object.type, data) = Str(data)
    BY <1>1 DEF FromText
  <2> QED BY <2>2, <2>3 DEF DataFromString
<1>2. CASE object.type \in MASK
  <2>1. marks = {object.type}
    BY <1>2 DEF MarkOf
  <2>2. Cardinality(marks) = 1
    BY <2>1, FS_Singleton
  <2>3. (CHOOSE mark \in marks : TRUE) = object.type
    BY <2>1
  <2> QED BY <2>2, <2>3 DEF DataFromString
<1> QED BY <1>1, <1>2

(* What a callback is given is a number where it is a float.               *)
LEMMA SameAsItself ==
    ASSUME NEW S, NEW data \in Seq(S), NEW flags
    PROVE  Same(Argument(data, flags), Argument(data, flags))
<1> DEFINE argument == Argument(data, flags)
<1>1. AsFloat(data) \in Int
  <2> DEFINE whole == Leading(data, IsDigit)
             rest == After(data, whole)
             place == IF Len(rest) > 1 /\ rest[1] = "." /\ IsDigit(rest[2])
                      THEN Number(<<rest[2]>>) ELSE 0
             number == Number(whole)
  <2>1. whole \in Seq(DigitSet)
    BY LeadingAny
  <2>2. number \in Nat
    BY <2>1, NumberType
  <2>3. \A c : Number(<<c>>) \in Nat
    <3>1. ASSUME NEW c PROVE Number(<<c>>) \in Nat
      <4>1. <<c>> \in Seq({c})
        OBVIOUS
      <4> QED BY <4>1, NumberType
    <3> QED BY <3>1
  <2>4. place \in Nat
    BY <2>3
  <2>5. AsFloat(data) = 3 * (10 * number + place)
    BY DEF AsFloat
  <2> HIDE DEF number, place
  <2> QED BY <2>2, <2>4, <2>5
<1>2. argument.type = "DOUBLE" => argument.number \in Int
  <2>1. ASSUME NEW type PROVE FromText(type, data).type = "DOUBLE"
                                 => FromText(type, data).number \in Int
    <3>1. Loads(data).type # "DOUBLE"
      BY ObjectTypes DEF Loads
    <3>2. CASE type = "PICKLED"
      BY <3>1, <3>2 DEF FromText
    <3>3. CASE type = "DOUBLE"
      BY <1>1, <3>3, ObjectTypes DEF FromText
    <3>4. CASE type = "LONG"
      BY <3>4, ObjectTypes DEF FromText
    <3>5. CASE type \notin {"PICKLED", "DOUBLE", "LONG"}
      BY <3>5, ObjectTypes DEF FromText
    <3> QED BY <3>2, <3>3, <3>4, <3>5
  <2>2. argument = None \/ argument = Str(data) \/ \E type : argument = FromText(type, data)
    BY DEF Argument, DataFromString
  <2> QED BY <2>1, <2>2, ObjectTypes
<1> HIDE DEF argument
<1>3. argument.number \in Int => argument.number - argument.number \in -1 .. 1
  OBVIOUS
<1>4. Same(argument, argument)
  BY <1>2, <1>3 DEF Same
<1> QED BY <1>4 DEF argument

(* A number has no beginning of a block in it.                             *)
LEMMA NumberIsNoBlock ==
    ASSUME NEW S, NEW data \in Seq(S), IsNumber(data), NEW i \in 1 .. Len(data)
    PROVE  data[i] # BlockBegin
<1> DEFINE digits == Leading(data, IsDigit)
           rest   == After(data, digits)
<1>1. PICK n \in 0 .. Len(data) :
         /\ \A j \in 1 .. n : data[j] \in DigitSet
         /\ Len(rest) = Len(data) - n
         /\ \A j \in n + 1 .. Len(data) : rest[j - n] = data[j]
  BY LeadingAny
<1>2. \A j \in 1 .. Len(rest) : rest[j] = " "
  BY DEF IsNumber
<1> HIDE DEF rest
<1>3. CASE i \in 1 .. n
  BY <1>1, <1>3, GlyphsAre
<1>4. CASE i \in n + 1 .. Len(data)
  <2>1. i - n \in 1 .. Len(rest) /\ rest[i - n] = data[i]
    BY <1>1, <1>4
  <2> QED BY <1>2, <2>1, GlyphsAre
<1>5. Len(data) \in Nat
  OBVIOUS
<1> QED BY <1>1, <1>3, <1>4, <1>5

(* What is counted stays a number, and no longer than it was.              *)
LEMMA PaddedIs ==
    ASSUME NEW n \in 0 .. MaxWord, NEW S, NEW data \in Seq(S), Len(data) <= MaxLen
    PROVE  \E k \in Nat : /\ Padded(Text[n], data) = Text[n] \o Spaces(k)
                          /\ Len(Padded(Text[n], data)) <= MaxLen
<1> DEFINE text == Text[n]
           a == Len(data)
           b == Len(text)
           k == Max({a - b, 0})
           all == text \o Spaces(k)
<1>1. n \in Nat /\ MaxLen \in Nat
  BY WordAssumption, FieldAssumption
<1>2. text \in Seq(Printed) /\ b \in Nat /\ b <= MaxLen /\ a \in Nat /\ a <= MaxLen
  BY <1>1, TextType, FieldAssumption
<1> HIDE DEF text, a, b
<1>3. k = IF a - b >= 0 THEN a - b ELSE 0
  <2>1. a - b \in Int /\ 0 \in Int
    BY <1>2
  <2> QED BY <2>1, MaxOfTwo
<1>4. k \in Nat
  BY <1>2, <1>3
<1>5. Padded(Text[n], data) = all
  BY DEF Padded, Spaces, text, a, b
<1> HIDE DEF k
<1>6. Spaces(k) \in Seq(Printed) /\ Len(Spaces(k)) = k
  BY <1>4, SpacesAre
<1>7. Len(all) = b + k
  BY <1>2, <1>6, ConcatProperties DEF b
<1> HIDE DEF all
<1>8. Len(all) <= MaxLen
  BY <1>1, <1>2, <1>3, <1>7
<1> QED BY <1>4, <1>5, <1>8 DEF all, text

(* A padded number is a text.                                              *)
LEMMA TextInGlyphs ==
    ASSUME NEW n \in Nat, NEW k \in Nat
    PROVE  Text[n] \o Spaces(k) \in Seq(Glyphs)
<1>1. Text[n] \in Seq(Printed) /\ Spaces(k) \in Seq(Printed)
  BY TextType, SpacesAre
<1>2. Text[n] \o Spaces(k) \in Seq(Printed)
  BY <1>1, ConcatProperties
<1> QED BY <1>2, GlyphsAre, SeqMonotonic

(* What incr and decr tell of a number                                     *)
LEMMA ToldIs ==
    ASSUME NEW n \in 0 .. MaxWord
    PROVE  AsUnsigned(Text[n]) = IF n <= MaxSigned THEN n ELSE MaxSigned
<1>1. n \in Nat /\ MaxSigned \in Nat /\ MaxWord = 2 * MaxSigned + 1
  BY SignedRange
<1>2. Text[n] = Text[n] \o Spaces(0)
  <2>1. Spaces(0) \in Seq(Printed) /\ Len(Spaces(0)) = 0 /\ Text[n] \in Seq(Printed)
    BY <1>1, SpacesAre, TextType
  <2>2. Spaces(0) = <<>>
    BY <2>1, EmptySeq
  <2> QED BY <2>1, <2>2, ConcatEmptySeq
<1>3. AsSigned(Text[n]) = IF n <= MaxSigned THEN n ELSE MaxSigned
  <2>1. 0 \in Nat
    OBVIOUS
  <2> QED BY <1>1, <1>2, <2>1, AsSignedOfText
<1>4. ASSUME NEW s \in Nat, s <= MaxSigned PROVE s % (MaxWord + 1) = s
  BY <1>1, <1>4
<1>5. AsSigned(Text[n]) \in Nat /\ AsSigned(Text[n]) <= MaxSigned
  BY <1>1, <1>3
<1> QED BY <1>3, <1>4, <1>5 DEF AsUnsigned

-----------------------------------------------------------------------------
(* The parts of the invariant, and what is stored                          *)

HoldsBlock(data) == \E i \in 1 .. Len(data) : data[i] = BlockBegin

(* One mark of a type at most                                              *)
Marks == {{}, {"PICKLED"}, {"DOUBLE"}, {"LONG"}}

(* An item: where compressed data are, or were joined, a block begins.     *)
ItemOK(i, blend) ==
    /\ i.cas \in 0 .. 4
    /\ i.cas = 0 => i = NoItem
    /\ i.data \in Seq(Units) /\ Len(i.data) <= MaxLen
    /\ i.flags \cap MASK \in Marks
    /\ blend \in BOOLEAN
    /\ blend \/ Builtin \subseteq i.flags => HoldsBlock(i.data)

(* Its data, unwrapped, represent the object it stands for.                *)
MeaningOK(i, says, blend) ==
    /\ ~blend => \E d \in Seq(Glyphs) :
                    /\ i.data = Wrapped(d, i.flags)
                    /\ says # Unknown => Represents(says.object, d)
    /\ says # Unknown =>
          /\ i.cas # 0
          /\ says.object.type \in MASK \cup {"STRING"}
          /\ says.by = "Python" => i.flags \cap MASK = MarkOf(says.object)

(* What was told of it is what it has.                                     *)
ToldOK(i, numbers) ==
    \A n \in numbers :
        /\ n \in 0 .. MaxWord
        /\ \/ Number(i.data) = n
           \/ n = MaxSigned /\ Number(i.data) > MaxSigned

(* An item that is stored has a new identifier.                            *)
LEMMA StoredItem ==
    ASSUME NEW data, NEW flags
    PROVE  /\ Stored(data, flags).data = data /\ Stored(data, flags).flags = flags
           /\ Stored(data, flags).cas \in CasIds \ {item.cas, token, update.cas}
           /\ Stored(data, flags).cas \in 0 .. 4 /\ Stored(data, flags).cas # 0
<1>1. \E id \in CasIds : id \notin {item.cas, token, update.cas}
  <2>1. \E id \in 1 .. 4 : id # item.cas /\ id # token /\ id # update.cas
    <3>1. \A a, b, c : \E id \in {1, 2, 3, 4} : id # a /\ id # b /\ id # c
      OBVIOUS
    <3>2. {1, 2, 3, 4} \subseteq 1 .. 4
      OBVIOUS
    <3> QED BY <3>1, <3>2
  <2> QED BY <2>1 DEF CasIds
<1>2. NewCas \in CasIds \ {item.cas, token, update.cas}
  BY <1>1 DEF NewCas
<1>3. NewCas \in 0 .. 4 /\ NewCas # 0
  BY <1>2 DEF CasIds
<1> QED BY <1>2, <1>3 DEF Stored

(* The fields of what is said of an item                                   *)
LEMMA SaysIs ==
    \A by, object : Says(by, object).by = by /\ Says(by, object).object = object
  BY DEF Says

(* What is wrapped begins with a block.                                    *)
LEMMA WrappedIs ==
    ASSUME NEW d \in Seq(Glyphs), NEW flags
    PROVE  /\ Wrapped(d, flags) \in Seq(Units)
           /\ Builtin \subseteq flags => HoldsBlock(Wrapped(d, flags))
           /\ ~(Builtin \subseteq flags) => Wrapped(d, flags) = d
<1>1. d \in Seq(Units)
  BY GlyphsAre, SeqMonotonic
<1>2. Compress(d) \in Seq(Units) /\ Compress(d)[1] = BlockBegin /\ Len(Compress(d)) \in Nat \ {0}
  BY CompressIs
<1>3. HoldsBlock(Compress(d))
  <2>1. 1 \in 1 .. Len(Compress(d))
    BY <1>2
  <2> QED BY <1>2, <2>1 DEF HoldsBlock
<1> QED BY <1>1, <1>2, <1>3 DEF Wrapped

(* An item that is stored anew                                             *)
LEMMA ReplacedOK ==
    ASSUME NEW by, NEW object \in Objects, NEW flags, flags \cap MASK \in Marks,
           by = "Python" => flags \cap MASK = MarkOf(object),
           Len(Wrapped(ToText(object), flags)) <= MaxLen
    PROVE  LET i == Stored(Wrapped(ToText(object), flags), flags)
           IN  ItemOK(i, FALSE) /\ MeaningOK(i, Says(by, object), FALSE)
<1> DEFINE d == ToText(object)
           i == Stored(Wrapped(d, flags), flags)
           says == Says(by, object)
<1>1. /\ i.data = Wrapped(d, flags) /\ i.flags = flags
      /\ i.cas \in 0 .. 4 /\ i.cas # 0
  BY StoredItem
<1>2. says.by = by /\ says.object = object
  BY SaysIs
<1>3. /\ d \in Seq(Glyphs) /\ Represents(object, d)
      /\ object.type \in MASK \cup {"STRING"}
  BY ConvertedIs
<1> HIDE DEF d, i, says
<1>4. /\ Wrapped(d, flags) \in Seq(Units)
      /\ Builtin \subseteq flags => HoldsBlock(Wrapped(d, flags))
  BY <1>3, WrappedIs
<1>5. Len(i.data) <= MaxLen
  BY <1>1 DEF d
<1>6. ItemOK(i, FALSE)
  BY <1>1, <1>4, <1>5 DEF ItemOK
<1>7. MeaningOK(i, says, FALSE)
  BY <1>1, <1>2, <1>3 DEF MeaningOK
<1> QED BY <1>6, <1>7 DEF i, d, says

(* A block stays where something is joined to it.                          *)
LEMMA JoinedHolds ==
    ASSUME NEW a \in Seq(Units), NEW b \in Seq(Units)
    PROVE  /\ a \o b \in Seq(Units) /\ Len(a \o b) = Len(a) + Len(b)
           /\ HoldsBlock(a) \/ HoldsBlock(b) => HoldsBlock(a \o b)
<1> DEFINE t == a \o b
<1>1. t \in Seq(Units) /\ Len(t) = Len(a) + Len(b)
      /\ (\A i \in 1 .. Len(a) : t[i] = a[i])
      /\ (\A i \in 1 .. Len(b) : t[Len(a) + i] = b[i])
      /\ Len(a) \in Nat /\ Len(b) \in Nat
  OBVIOUS
<1> HIDE DEF t
<1>2. ASSUME HoldsBlock(a) PROVE HoldsBlock(t)
  <2>1. PICK i \in 1 .. Len(a) : a[i] = BlockBegin
    BY <1>2 DEF HoldsBlock
  <2>2. i \in 1 .. Len(t) /\ t[i] = BlockBegin
    BY <1>1, <2>1
  <2> QED BY <2>2 DEF HoldsBlock
<1>3. ASSUME HoldsBlock(b) PROVE HoldsBlock(t)
  <2>1. PICK i \in 1 .. Len(b) : b[i] = BlockBegin
    BY <1>3 DEF HoldsBlock
  <2>2. Len(a) + i \in 1 .. Len(t) /\ t[Len(a) + i] = BlockBegin
    BY <1>1, <2>1
  <2> QED BY <2>2 DEF HoldsBlock
<1> QED BY <1>1, <1>2, <1>3 DEF t

(* An item that something is joined to                                     *)
LEMMA JoinedOK ==
    ASSUME ItemOK(item, blended), MeaningOK(item, meaning, blended), Present,
           NEW name \in {"append", "prepend"},
           NEW object \in Objects, object.type = "STRING", NEW flags,
           Len(item.data) + Len(Wrapped(ToText(object), flags)) <= MaxLen
    PROVE  LET data  == Wrapped(ToText(object), flags)
               i     == Stored(IF name = "append" THEN item.data \o data
                               ELSE data \o item.data, item.flags)
               blend == blended \/ Builtin \subseteq item.flags \cup flags
           IN  ItemOK(i, blend) /\ MeaningOK(i, Joined(name, object), blend)
<1> DEFINE d == ToText(object)
           data == Wrapped(d, flags)
           all == IF name = "append" THEN item.data \o data ELSE data \o item.data
           i == Stored(all, item.flags)
           blend == blended \/ Builtin \subseteq item.flags \cup flags
           says == Joined(name, object)
<1>1. i.data = all /\ i.flags = item.flags /\ i.cas \in 0 .. 4 /\ i.cas # 0
  BY StoredItem
<1>2. d \in Seq(Glyphs) /\ object = Str(d)
  BY ConvertedIs
<1>3. /\ data \in Seq(Units)
      /\ Builtin \subseteq flags => HoldsBlock(data)
      /\ ~(Builtin \subseteq flags) => data = d
  <2> HIDE DEF d
  <2> QED BY <1>2, WrappedIs
<1>4. /\ item.data \in Seq(Units) /\ item.flags \cap MASK \in Marks
      /\ blended \in BOOLEAN
      /\ blended \/ Builtin \subseteq item.flags => HoldsBlock(item.data)
  BY DEF ItemOK
<1>5. Builtin \subseteq item.flags \cup flags
         <=> Builtin \subseteq item.flags \/ Builtin \subseteq flags
  BY DEF Builtin
<1>6. Len(data) + Len(item.data) = Len(item.data) + Len(data)
  BY <1>3, <1>4
<1>7. Len(item.data) + Len(data) <= MaxLen
  OBVIOUS
<1> HIDE DEF data
<1>8. /\ all \in Seq(Units) /\ Len(all) <= MaxLen
      /\ HoldsBlock(item.data) \/ HoldsBlock(data) => HoldsBlock(all)
  BY <1>3, <1>4, <1>6, <1>7, JoinedHolds
<1>9. blend \in BOOLEAN /\ (blend <=> blended \/ Builtin \subseteq item.flags \/ Builtin \subseteq flags)
  BY <1>5
<1>10. ItemOK(i, blend)
  <2> HIDE DEF all, i, blend
  <2> QED BY <1>1, <1>3, <1>4, <1>8, <1>9 DEF ItemOK
<1>11. ASSUME ~blend
       PROVE  \E e \in Seq(Glyphs) : /\ all = Wrapped(e, item.flags)
                                     /\ says # Unknown => Represents(says.object, e)
  <2>1. ~blended /\ ~(Builtin \subseteq item.flags) /\ ~(Builtin \subseteq flags)
    BY <1>9, <1>11
  <2>2. PICK e \in Seq(Glyphs) : /\ item.data = Wrapped(e, item.flags)
                                 /\ meaning # Unknown => Represents(meaning.object, e)
    BY <2>1 DEF MeaningOK
  <2>3. item.data = e /\ data = d
    BY <1>3, <2>1, <2>2, WrappedIs
  <2>4. all \in Seq(Glyphs) /\ all = Wrapped(all, item.flags)
    <3>1. all \in Seq(Glyphs)
      <4> HIDE DEF d
      <4> QED BY <1>2, <2>3, ConcatProperties
    <3> HIDE DEF all
    <3> QED BY <2>1, <3>1, WrappedIs
  <2>5. ASSUME says # Unknown PROVE Represents(says.object, all)
    <3>1. meaning.object.type = "STRING"
      BY <2>5 DEF Joined
    <3>2. meaning # Unknown
      BY <3>1, ObjectTypes DEF Unknown, Says
    <3>3. Represents(meaning.object, e)
      BY <2>2, <3>2
    <3>4. meaning.object = Str(e)
      BY <3>1, <3>3, ObjectTypes DEF Represents
    <3>5. meaning.object.text = e
      BY <3>4, ObjectTypes
    <3>6. says.object = Str(all)
      <4>1. says.object = Str(IF name = "append" THEN e \o d ELSE d \o e)
        BY <3>1, <3>5, SaysIs DEF Joined
      <4> QED BY <2>3, <4>1
    <3> QED BY <3>6 DEF Represents
  <2> QED BY <2>4, <2>5
<1>12. ASSUME says # Unknown
       PROVE  /\ says.object.type \in MASK \cup {"STRING"}
              /\ says.by = "Python" => item.flags \cap MASK = MarkOf(says.object)
  <2>1. meaning.object.type = "STRING"
    BY <1>12 DEF Joined
  <2>2. meaning # Unknown
    BY <2>1, ObjectTypes DEF Unknown, Says
  <2>3. says.object.type = "STRING" /\ says.by = meaning.by
    BY <2>1, SaysIs, ObjectTypes DEF Joined
  <2>4. MarkOf(says.object) = MarkOf(meaning.object)
    BY <2>1, <2>3 DEF MarkOf
  <2>5. meaning.by = "Python" => item.flags \cap MASK = MarkOf(meaning.object)
    BY <2>2 DEF MeaningOK
  <2> QED BY <2>3, <2>4, <2>5
<1>13. MeaningOK(i, says, blend)
  <2> HIDE DEF all, i, blend, says
  <2> QED BY <1>1, <1>11, <1>12 DEF MeaningOK
<1> QED BY <1>10, <1>13 DEF data, d

(* A number is neither compressed nor joined with what is.                 *)
LEMMA NumberNotWrapped ==
    ASSUME ItemOK(item, blended), IsNumber(item.data)
    PROVE  ~blended /\ ~(Builtin \subseteq item.flags)
<1>1. item.data \in Seq(Units)
      /\ (blended \/ Builtin \subseteq item.flags => HoldsBlock(item.data))
  BY DEF ItemOK
<1>2. ~HoldsBlock(item.data)
  BY <1>1, NumberIsNoBlock DEF HoldsBlock
<1> QED BY <1>1, <1>2

(* An item that is counted                                                 *)
LEMMA RecountedOK ==
    ASSUME ItemOK(item, blended), MeaningOK(item, meaning, blended),
           NEW n \in 0 .. MaxWord, NEW i, Makes(n, i) \/ Recounts(n, i)
    PROVE  /\ ItemOK(i, FALSE)
           /\ MeaningOK(i, Renumbered("C++", n), FALSE)
           /\ ToldOK(i, {AsUnsigned(Text[n])})
           /\ i.cas \in CasIds \ {item.cas, token, update.cas}
<1> DEFINE says == Renumbered("C++", n)
<1>1. n \in Nat /\ MaxSigned \in Nat /\ MaxWord \in Nat /\ MaxWord = 2 * MaxSigned + 1
  BY SignedRange, WordAssumption
<1> DEFINE Leaves(k, flags) ==
      /\ i = Stored(Text[n] \o Spaces(k), flags)
      /\ Len(Text[n] \o Spaces(k)) <= MaxLen
      /\ ~(Builtin \subseteq flags)
      /\ \/ ~Present /\ flags = {}
         \/ Present /\ flags = item.flags
<1>2. \E k \in Nat : \E flags : Leaves(k, flags)
  <2>1. CASE Makes(n, i)
    <3>1. Spaces(0) \in Seq(Printed) /\ Len(Spaces(0)) = 0 /\ Text[n] \in Seq(Printed)
      BY <1>1, SpacesAre, TextType
    <3>2. Text[n] \o Spaces(0) = Text[n]
      BY <3>1, EmptySeq, ConcatEmptySeq
    <3>3. Len(Text[n]) <= MaxLen
      BY FieldAssumption
    <3>4. ~(Builtin \subseteq {})
      BY DEF Builtin
    <3>5. 0 \in Nat
      OBVIOUS
    <3>6. ~Present /\ i = Stored(Text[n], {})
      BY <2>1 DEF Makes
    <3> QED BY <3>2, <3>3, <3>4, <3>5, <3>6
  <2>2. CASE Recounts(n, i)
    <3>1. Present /\ IsNumber(item.data) /\ i = Stored(Padded(Text[n], item.data), item.flags)
      BY <2>2 DEF Recounts
    <3>2. ~(Builtin \subseteq item.flags)
      BY <3>1, NumberNotWrapped
    <3>3. item.data \in Seq(Units) /\ Len(item.data) <= MaxLen
      BY DEF ItemOK
    <3>4. PICK k \in Nat : /\ Padded(Text[n], item.data) = Text[n] \o Spaces(k)
                           /\ Len(Padded(Text[n], item.data)) <= MaxLen
      BY <3>3, PaddedIs
    <3> QED BY <3>1, <3>2, <3>4
  <2> QED BY <2>1, <2>2
<1>2a. PICK k \in Nat : \E flags : Leaves(k, flags)
  BY <1>2
<1>3. PICK flags : Leaves(k, flags)
  BY <1>2a
<1> DEFINE d == Text[n] \o Spaces(k)
<1>4. d \in Seq(Glyphs)
  BY <1>1, TextInGlyphs
<1>5. Number(d) = n
  BY <1>1, NumberIs
<1>6. n <= MaxSigned => d = SignedText(n) \o Spaces(k) /\ n \in Signed
  <2>1. ~(n < 0) /\ (n <= MaxSigned => n \in Signed)
    BY <1>1 DEF Signed
  <2> QED BY <2>1 DEF SignedText
<1> HIDE DEF d
<1>7. /\ i.data = d /\ i.flags = flags
      /\ i.cas \in CasIds \ {item.cas, token, update.cas}
      /\ i.cas \in 0 .. 4 /\ i.cas # 0
  <2>1. i = Stored(d, flags)
    BY <1>3 DEF d
  <2> QED BY <2>1, StoredItem
<1>8. d \in Seq(Units) /\ Wrapped(d, flags) = d
  BY <1>3, <1>4, WrappedIs
<1>9. flags \cap MASK \in Marks
  <2>1. item.flags \cap MASK \in Marks /\ {} \in Marks
    BY DEF ItemOK, Marks
  <2>2. CASE flags = {}
    BY <2>1, <2>2
  <2>3. CASE flags = item.flags
    BY <2>1, <2>3
  <2> QED BY <1>3, <2>2, <2>3
<1>10. ItemOK(i, FALSE)
  BY <1>3, <1>7, <1>8, <1>9 DEF ItemOK, d
<1>11. ASSUME says # Unknown
       PROVE  /\ n <= MaxSigned /\ says.object = Long(n)
              /\ says.by = "C++" \/ (Present /\ says.by = meaning.by /\ meaning.object.type = "LONG")
  <2>1. ~(n > MaxSigned)
    BY <1>11 DEF Renumbered
  <2> QED BY <1>1, <1>11, <2>1, SaysIs DEF Renumbered
<1>12. says # Unknown => Represents(says.object, d)
  BY <1>6, <1>11 DEF Represents
<1>13. ASSUME says # Unknown, says.by = "Python" PROVE flags \cap MASK = MarkOf(says.object)
  <2>1. Present /\ meaning.by = "Python" /\ meaning.object.type = "LONG"
    BY <1>11, <1>13
  <2>2. meaning # Unknown
    BY <2>1, ObjectTypes DEF Unknown, Says
  <2>3. item.flags \cap MASK = MarkOf(meaning.object)
    BY <2>1, <2>2 DEF MeaningOK
  <2>4. MarkOf(says.object) = MarkOf(meaning.object)
    BY <1>11, <1>13, <2>1, ObjectTypes DEF MarkOf
  <2> QED BY <1>3, <2>1, <2>3, <2>4
<1>14. says # Unknown => says.object.type \in MASK \cup {"STRING"}
  BY <1>11, ObjectTypes DEF MASK
<1> HIDE DEF says
<1>15. MeaningOK(i, says, FALSE)
  BY <1>4, <1>7, <1>8, <1>12, <1>13, <1>14 DEF MeaningOK
<1>16. ToldOK(i, {AsUnsigned(Text[n])})
  <2>1. AsUnsigned(Text[n]) = IF n <= MaxSigned THEN n ELSE MaxSigned
    BY ToldIs
  <2>2. Number(i.data) = n
    BY <1>5, <1>7
  <2> QED BY <1>1, <2>1, <2>2 DEF ToldOK
<1> QED BY <1>7, <1>10, <1>15, <1>16 DEF says

-----------------------------------------------------------------------------
(* The invariant, and the steps of the clients                             *)

(* What a callback is given of an item                                     *)
Seen(i) == LET given == Delivered(i.data, i.flags, i.cas)
           IN  Argument(given.data, given.flags)

(* atomic_update of Python: it has an identifier where it will do a cas;   *)
(* as long as the item has that identifier, it is what the callback saw.   *)
UpdateOK(u, i) ==
    /\ u = [at |-> u.at, left |-> u.left, argument |-> u.argument, cas |-> u.cas]
    /\ u.at \in {"idle", "gets", "cas", "add", "done"}
    /\ u.cas \in 0 .. 4
    /\ u.cas # 0 <=> u.at = "cas"
    /\ u.at = "add" => u.argument = None
    /\ u.at = "cas" /\ i.cas = u.cas => u.argument = Seen(i)

(* The inductive invariant                                                 *)
IInv ==
    /\ ItemOK(item, blended)
    /\ MeaningOK(item, meaning, blended)
    /\ ToldOK(item, told)
    /\ token \in 0 .. 4
    /\ UpdateOK(update, item)

(* An item that has changed has an identifier that no reader has.          *)
Fresh(i) ==
    i = item \/ i = NoItem \/ i.cas \in CasIds \ {item.cas, token, update.cas}

(* The fields of no item                                                   *)
LEMMA NoItemIs ==
    /\ NoItem.data = <<>> /\ NoItem.flags = {} /\ NoItem.cas = 0
    /\ NoItem.data \in Seq(Units) /\ NoItem.data \in Seq(Glyphs)
    /\ Len(NoItem.data) = 0
    /\ ~(Builtin \subseteq NoItem.flags) /\ NoItem.flags \cap MASK \in Marks
  BY DEF NoItem, Builtin, Marks

(* No item is as good as an item.                                          *)
LEMMA NoItemOK ==
    ItemOK(NoItem, FALSE) /\ MeaningOK(NoItem, Unknown, FALSE)
<1>1. 0 <= MaxLen
  BY FieldAssumption
<1>2. ItemOK(NoItem, FALSE)
  <2>1. 0 \in 0 .. 4
    OBVIOUS
  <2> QED BY <1>1, <2>1, NoItemIs DEF ItemOK
<1>3. NoItem.data = Wrapped(NoItem.data, NoItem.flags)
  BY NoItemIs DEF Wrapped
<1>4. MeaningOK(NoItem, Unknown, FALSE)
  BY <1>3, NoItemIs DEF MeaningOK
<1> QED BY <1>2, <1>4

(* What atomic_update knows of the item outlives what others do to it.     *)
LEMMA UpdateKept ==
    ASSUME UpdateOK(update, item), Fresh(item'), UNCHANGED update
    PROVE  UpdateOK(update', item')
<1>1. CASE item' = item
  BY <1>1
<1>2. CASE item' = NoItem
  BY <1>2, NoItemIs DEF UpdateOK
<1>3. CASE item'.cas \in CasIds \ {item.cas, token, update.cas}
  BY <1>3 DEF UpdateOK
<1> QED BY <1>1, <1>2, <1>3 DEF Fresh

(* A storage command                                                       *)
LEMMA StoreStep ==
    ASSUME ItemOK(item, blended), MeaningOK(item, meaning, blended), ToldOK(item, told),
           NEW by, NEW proto \in Protocols, NEW name \in Storage,
           NEW object \in Storable(name, Objects), NEW opts,
           opts.flags \cap MASK \in Marks,
           by = "Python" => opts.flags \cap MASK = MarkOf(object),
           Store(by, proto, name, object, opts)
    PROVE  /\ ItemOK(item', blended')
           /\ MeaningOK(item', meaning', blended')
           /\ ToldOK(item', told')
           /\ Fresh(item')
<1> DEFINE c == StorageCommand(name, TheKey, ToText(object), opts)
           after == EffectOf(proto, c).item
           yes == Told(name, ResponseTo(proto, c).code) = "yes"
           data == Wrapped(ToText(object), opts.flags)
<1>1. /\ CanStore(name, opts) /\ Fits(c) /\ item' = after
      /\ ~yes => UNCHANGED <<meaning, blended, told>>
      /\ yes => told' = {}
      /\ yes /\ name \in {"append", "prepend"} =>
            /\ meaning' = Joined(name, object)
            /\ blended' = (blended \/ Builtin \subseteq item.flags \cup opts.flags)
      /\ yes /\ name \notin {"append", "prepend"} =>
            /\ meaning' = Says(by, object)
            /\ blended' = FALSE
  BY DEF Store
<1>2. c.data = data
  BY DEF StorageCommand, Command, Wrapped
<1>3. /\ name \in {"append", "prepend"} => Len(item.data) + Len(data) <= MaxLen
      /\ name \notin {"append", "prepend"} => 0 + Len(data) <= MaxLen
  <2>1. c.name = name /\ Len(c.data) = Len(data)
    BY <1>2 DEF StorageCommand, Command
  <2> HIDE DEF c, data
  <2> QED BY <1>1, <2>1 DEF Fits
<1>4. object \in Objects /\ (name \in {"append", "prepend"} => object.type = "STRING")
  BY DEF Storable
<1>5. \/ yes /\ (Replaces(name, opts.id, data, opts.flags, after) \/ Joins(name, data, after))
      \/ ~yes /\ after = item
  BY <1>1, StoreIs
<1>6. Len(item.data) \in Nat /\ Len(data) \in Nat /\ MaxLen \in Nat
  <2>1. data \in Seq(Units)
    BY <1>4, ConvertedIs, WrappedIs
  <2>2. item.data \in Seq(Units)
    BY DEF ItemOK
  <2> HIDE DEF data
  <2> QED BY <2>1, <2>2, FieldAssumption
<1> HIDE DEF c, after, yes, data
<1>7. name \notin {"append", "prepend"} => Len(data) <= MaxLen
  BY <1>3, <1>6
<1>8. CASE yes /\ Replaces(name, opts.id, data, opts.flags, after)
  <2>1. name \notin {"append", "prepend"} /\ after = Stored(data, opts.flags)
    BY <1>8 DEF Replaces
  <2>2. ItemOK(after, FALSE) /\ MeaningOK(after, Says(by, object), FALSE)
    BY <1>4, <1>7, <2>1, ReplacedOK DEF data
  <2>3. after.cas \in CasIds \ {item.cas, token, update.cas}
    BY <2>1, StoredItem
  <2>4. item' = after /\ blended' = FALSE /\ meaning' = Says(by, object) /\ told' = {}
    BY <1>1, <1>8, <2>1
  <2> QED BY <2>2, <2>3, <2>4 DEF Fresh, ToldOK
<1>9. CASE yes /\ Joins(name, data, after)
  <2> DEFINE blend == blended \/ Builtin \subseteq item.flags \cup opts.flags
  <2>1. /\ name \in {"append", "prepend"} /\ Present
        /\ after = Stored(IF name = "append" THEN item.data \o data
                          ELSE data \o item.data, item.flags)
    BY <1>9 DEF Joins
  <2>2. ItemOK(after, blend) /\ MeaningOK(after, Joined(name, object), blend)
    BY <1>3, <1>4, <2>1, JoinedOK DEF data
  <2>3. after.cas \in CasIds \ {item.cas, token, update.cas}
    BY <2>1, StoredItem
  <2>4. item' = after /\ blended' = blend /\ meaning' = Joined(name, object) /\ told' = {}
    BY <1>1, <1>9, <2>1
  <2> HIDE DEF blend
  <2> QED BY <2>2, <2>3, <2>4 DEF Fresh, ToldOK
<1>10. CASE ~yes /\ after = item
  <2>1. item' = item /\ UNCHANGED <<meaning, blended, told>>
    BY <1>1, <1>10
  <2> QED BY <2>1 DEF Fresh
<1> QED BY <1>5, <1>8, <1>9, <1>10

(* incr and decr                                                           *)
LEMMA CountStep ==
    ASSUME IInv, NEW proto \in Protocols, NEW name \in Numeric, NEW value \in Amounts,
           NEW opts, opts.id \in 0 .. MaxWord,
           Count(proto, name, value, opts)
    PROVE  IInv'
<1> DEFINE c == IncrDecrCommand(name, TheKey, value, opts)
           effect == EffectOf(proto, c)
           response == ResponseTo(proto, c)
           yes == Told(name, response.code) = "yes"
<1>1. /\ item' = effect.item
      /\ ~yes => UNCHANGED <<meaning, blended, told>>
      /\ yes => /\ told' = {AsUnsigned(response.data)}
                /\ meaning' = Renumbered("C++", effect.number)
                /\ blended' = FALSE
      /\ UNCHANGED <<token, update>>
  BY DEF Count
<1>2. ItemOK(item, blended) /\ MeaningOK(item, meaning, blended) /\ ToldOK(item, told)
      /\ token \in 0 .. 4 /\ UpdateOK(update, item)
  BY DEF IInv
<1>3. value \in 0 .. MaxWord /\ item.data \in Seq(Units)
  BY <1>2, FieldAssumption DEF ItemOK
<1>4. \/ /\ yes /\ effect.number \in 0 .. MaxWord /\ response.data = Text[effect.number]
         /\ Makes(effect.number, effect.item) \/ Recounts(effect.number, effect.item)
      \/ ~yes /\ effect.item = item
  BY <1>3, CountIs
<1> HIDE DEF c, effect, response, yes
<1>5. CASE /\ yes /\ effect.number \in 0 .. MaxWord /\ response.data = Text[effect.number]
           /\ Makes(effect.number, effect.item) \/ Recounts(effect.number, effect.item)
  <2> DEFINE n == effect.number
             i == effect.item
  <2>2. n \in 0 .. MaxWord /\ (Makes(n, i) \/ Recounts(n, i))
    BY <1>5
  <2>3. /\ item' = i /\ told' = {AsUnsigned(Text[n])}
        /\ meaning' = Renumbered("C++", n) /\ blended' = FALSE
    BY <1>1, <1>5
  <2> HIDE DEF n, i
  <2>7. /\ ItemOK(i, FALSE) /\ MeaningOK(i, Renumbered("C++", n), FALSE)
        /\ ToldOK(i, {AsUnsigned(Text[n])})
        /\ i.cas \in CasIds \ {item.cas, token, update.cas}
    BY <1>2, <2>2, RecountedOK
  <2>4. Fresh(item')
    BY <2>3, <2>7 DEF Fresh
  <2>5. UpdateOK(update', item')
    BY <1>1, <1>2, <2>4, UpdateKept
  <2>6. ItemOK(item', blended') /\ MeaningOK(item', meaning', blended') /\ ToldOK(item', told')
    BY <2>3, <2>7
  <2> QED BY <1>1, <1>2, <2>5, <2>6 DEF IInv
<1>6. CASE ~yes /\ effect.item = item
  <2>1. UNCHANGED vars
    BY <1>1, <1>6 DEF vars
  <2> QED BY <1>2, <2>1 DEF IInv, vars
<1> QED BY <1>4, <1>5, <1>6

(* Options of a dict                                                       *)
LEMMA DictIs ==
    ASSUME IInv, NEW dict \in Dicts
    PROVE  /\ OptsFromDict(dict).id \in 0 .. MaxWord
           /\ OptsFromDict(dict) = Opts(0, OptsFromDict(dict).flags, OptsFromDict(dict).id)
<1>1. token \in 0 .. MaxWord /\ 1 \in 0 .. MaxWord /\ 0 \in 0 .. MaxWord
      /\ Initial \in 0 .. MaxWord
  <2>1. token \in {0} \cup CasIds
    BY DEF IInv, CasIds
  <2>2. 1 \in CasIds /\ 0 \in 0 .. MaxWord
    BY WordAssumption DEF CasIds
  <2> QED BY <2>1, <2>2, FieldAssumption
<1>2. /\ dict.cas \in 0 .. MaxWord /\ dict.iters \in 0 .. MaxWord
      /\ dict.initial \in 0 .. MaxWord
  <2>1. \/ dict \in {NoDict, [NoDict EXCEPT !.cas = token], [NoDict EXCEPT !.iters = 1],
                    [NoDict EXCEPT !.cas = token, !.initial = Initial],
                    [NoDict EXCEPT !.initial = Initial]}
        \/ dict \in [flags : UserFlags, compress : BOOLEAN, cas : {0}, iters : {0},
                     initial : {0}]
    BY DEF Dicts
  <2>2. CASE dict \in [flags : UserFlags, compress : BOOLEAN, cas : {0}, iters : {0},
                       initial : {0}]
    BY <1>1, <2>2
  <2>3. CASE dict \in {NoDict, [NoDict EXCEPT !.cas = token], [NoDict EXCEPT !.iters = 1],
                       [NoDict EXCEPT !.cas = token, !.initial = Initial],
                       [NoDict EXCEPT !.initial = Initial]}
    <3>1. CASE dict = NoDict
      BY <1>1, <3>1 DEF NoDict
    <3>2. CASE dict = [NoDict EXCEPT !.cas = token]
      BY <1>1, <3>2 DEF NoDict
    <3>3. CASE dict = [NoDict EXCEPT !.iters = 1]
      BY <1>1, <3>3 DEF NoDict
    <3>4. CASE dict = [NoDict EXCEPT !.cas = token, !.initial = Initial]
      BY <1>1, <3>4 DEF NoDict
    <3>5. CASE dict = [NoDict EXCEPT !.initial = Initial]
      BY <1>1, <3>5 DEF NoDict
    <3> QED BY <2>3, <3>1, <3>2, <3>3, <3>4, <3>5, Zenon
  <2> QED BY <2>1, <2>2, <2>3
<1>3. OptsFromDict(dict).id \in 0 .. MaxWord
  BY <1>2 DEF OptsFromDict, Opts
<1>4. OptsFromDict(dict) = Opts(0, OptsFromDict(dict).flags, OptsFromDict(dict).id)
  BY DEF OptsFromDict, Opts
<1> QED BY <1>3, <1>4

(* The dicts that are passed                                               *)
LEMMA DictsAre ==
    ASSUME NEW dict, dict \in DictsNow \/ dict \in UpdateDicts
    PROVE  dict \in Dicts
<1>1. NoDict \in Dicts
  BY DEF Dicts
<1> QED BY <1>1 DEF DictsNow, UpdateDicts

(* An object has one mark at most.                                         *)
LEMMA MarkOfObject ==
    ASSUME NEW object \in Objects
    PROVE  MarkOf(object) \cap MASK = MarkOf(object) /\ MarkOf(object) \in Marks
<1>1. object.type \in MASK \cup {"STRING"}
  BY ConvertedIs
<1>2. MarkOf(object) \cap MASK = MarkOf(object)
  BY DEF MarkOf
<1>3. MarkOf(object) \in Marks
  <2>1. CASE object.type \in MASK
    <3>1. MarkOf(object) = {object.type}
      BY <2>1 DEF MarkOf
    <3> QED BY <2>1, <3>1 DEF Marks, MASK
  <2>2. CASE object.type = "STRING"
    <3>1. MarkOf(object) = {}
      BY <2>2 DEF MarkOf, MASK
    <3> QED BY <3>1 DEF Marks
  <2> QED BY <1>1, <2>1, <2>2
<1> QED BY <1>2, <1>3

(* A storage command of the Python wrapper preserves the invariant.        *)
LEMMA PyStoreStep ==
    ASSUME IInv, NEW name \in Storage, NEW dict \in DictsNow,
           NEW object \in Storable(name, Objects), PyStore(name, object, dict)
    PROVE  IInv'
<1> DEFINE opts == OptsFromDict(dict)
           marked == Marked(object, opts)
<1>1. Markable(opts) /\ Store("Python", "bin", name, object, marked) /\ UNCHANGED <<token, update>>
  BY DEF PyStore
<1>2. object \in Objects /\ "bin" \in Protocols
  BY DEF Storable, Protocols
<1>3. opts = Opts(0, opts.flags, opts.id)
  BY DictsAre, DictIs
<1> HIDE DEF opts
<1>4. marked.flags = opts.flags \cup MarkOf(object)
  BY <1>3 DEF Marked, Opts
<1>5. opts.flags \cap MASK = {}
  BY <1>1 DEF Markable
<1> HIDE DEF marked
<1>6. marked.flags \cap MASK = MarkOf(object) /\ MarkOf(object) \in Marks
  BY <1>2, <1>4, <1>5, MarkOfObject
<1>7. ItemOK(item, blended) /\ MeaningOK(item, meaning, blended) /\ ToldOK(item, told)
      /\ token \in 0 .. 4 /\ UpdateOK(update, item)
  BY DEF IInv
<1>8. /\ ItemOK(item', blended') /\ MeaningOK(item', meaning', blended')
      /\ ToldOK(item', told') /\ Fresh(item')
  BY <1>1, <1>2, <1>6, <1>7, StoreStep
<1>9. UpdateOK(update', item')
  BY <1>1, <1>7, <1>8, UpdateKept
<1> QED BY <1>1, <1>7, <1>8, <1>9 DEF IInv

(* So does one of the C++ client.                                          *)
LEMMA CxxStoreStep ==
    ASSUME IInv, NEW proto \in Protocols, NEW name \in Storage, NEW flags \in {{}, Builtin},
           NEW object \in Storable(name, CxxObjects), CxxStore(proto, name, object, flags)
    PROVE  IInv'
<1> DEFINE opts == Opts(0, flags, 0)
<1>1. Store("C++", proto, name, object, opts) /\ UNCHANGED <<token, update>>
  BY DEF CxxStore
<1>2. object \in Storable(name, Objects)
  BY DEF Storable, CxxObjects
<1>3. opts.flags = flags
  BY DEF Opts
<1>4. flags \cap MASK \in Marks
  BY DEF Builtin, MASK, Marks
<1> HIDE DEF opts
<1>5. ItemOK(item, blended) /\ MeaningOK(item, meaning, blended) /\ ToldOK(item, told)
      /\ token \in 0 .. 4 /\ UpdateOK(update, item)
  BY DEF IInv
<1>6. /\ ItemOK(item', blended') /\ MeaningOK(item', meaning', blended')
      /\ ToldOK(item', told') /\ Fresh(item')
  <2>1. "C++" # "Python"
    OBVIOUS
  <2> QED BY <1>1, <1>2, <1>3, <1>4, <1>5, <2>1, StoreStep
<1>7. UpdateOK(update', item')
  BY <1>1, <1>5, <1>6, UpdateKept
<1> QED BY <1>1, <1>5, <1>6, <1>7 DEF IInv

(* The store of atomic_update preserves the invariant, and succeeds only   *)
(* on the item it read.                                                    *)
LEMMA UpdateSwapStep ==
    ASSUME IInv, NEW object \in Objects, UpdateSwap(object)
    PROVE  /\ IInv'
           /\ update'.at = "done" =>
                 \/ Present /\ update.at = "cas" /\ update.cas = item.cas
                 \/ ~Present /\ update.at = "add"
<1> DEFINE opts == SwapOpts(object)
           c == StorageCommand(update.at, TheKey, ToText(object), opts)
           yes == Told(update.at, ResponseTo("bin", c).code) = "yes"
<1>1. /\ update.at \in {"cas", "add"}
      /\ Store("Python", "bin", update.at, object, opts)
      /\ update' = IF yes THEN [Idle EXCEPT !.at = "done"]
                   ELSE IF update.left = 1 THEN Idle
                   ELSE [update EXCEPT !.at = "gets", !.left = @ - 1,
                                       !.argument = None, !.cas = 0]
      /\ UNCHANGED token
  BY DEF UpdateSwap
<1>2. update.at \in Storage /\ "bin" \in Protocols /\ object \in Storable(update.at, Objects)
  BY <1>1 DEF Storage, Protocols, Storable
<1>3. opts.flags = MarkOf(object) /\ opts.id = update.cas
  BY DEF SwapOpts, Opts
<1> HIDE DEF opts
<1>4. opts.flags \cap MASK = MarkOf(object) /\ MarkOf(object) \in Marks
  BY <1>3, MarkOfObject
<1>5. ItemOK(item, blended) /\ MeaningOK(item, meaning, blended) /\ ToldOK(item, told)
      /\ token \in 0 .. 4 /\ UpdateOK(update, item)
  BY DEF IInv
<1>6. /\ ItemOK(item', blended') /\ MeaningOK(item', meaning', blended')
      /\ ToldOK(item', told') /\ Fresh(item')
  BY <1>1, <1>2, <1>4, <1>5, StoreStep
<1>7. UpdateOK(update', item') /\ (update'.at = "done" => yes)
  <2> HIDE DEF yes, c
  <2>1. CASE yes
    <3>1. update' = [at |-> "done", left |-> 0, argument |-> None, cas |-> 0]
      BY <1>1, <2>1 DEF Idle
    <3> QED BY <2>1, <3>1 DEF UpdateOK
  <2>2. CASE ~yes /\ update.left = 1
    <3>1. update' = [at |-> "idle", left |-> 0, argument |-> None, cas |-> 0]
      BY <1>1, <2>2 DEF Idle
    <3> QED BY <3>1 DEF UpdateOK
  <2>3. CASE ~yes /\ update.left # 1
    <3>1. update' = [at |-> "gets", left |-> update.left - 1, argument |-> None, cas |-> 0]
      BY <1>1, <1>5, <2>3 DEF UpdateOK
    <3> QED BY <3>1 DEF UpdateOK
  <2> QED BY <2>1, <2>2, <2>3
<1>8. CanStore(update.at, opts)
  BY <1>1 DEF Store
<1>9. ASSUME yes
      PROVE  \/ Present /\ update.at = "cas" /\ update.cas = item.cas
             \/ ~Present /\ update.at = "add"
  <2> DEFINE after == EffectOf("bin", c).item
             data == Wrapped(ToText(object), opts.flags)
  <2>1. Replaces(update.at, opts.id, data, opts.flags, after) \/ Joins(update.at, data, after)
    BY <1>2, <1>8, <1>9, StoreIs
  <2>2. ~Joins(update.at, data, after)
    BY <1>1 DEF Joins
  <2>3. opts.id = update.cas /\ (update.at = "add" => update.cas = 0)
    BY <1>3, <1>5 DEF UpdateOK
  <2> HIDE DEF after, data
  <2>4. CASE update.at = "cas"
    BY <2>1, <2>2, <2>3, <2>4 DEF Replaces
  <2>5. CASE update.at = "add"
    BY <2>1, <2>2, <2>3, <2>5 DEF Replaces
  <2> QED BY <1>1, <2>4, <2>5
<1>10. IInv'
  BY <1>1, <1>5, <1>6, <1>7 DEF IInv
<1> QED BY <1>7, <1>9, <1>10

(* What gets gives                                                         *)
LEMMA DeliveredIs ==
    ASSUME NEW data, NEW flags, NEW cas
    PROVE  LET d == Delivered(data, flags, cas)
           IN  \/ d.code = "ok" /\ d.cas = cas
               \/ d.code = "bad_request" /\ d.cas = 0
  BY DEF Delivered, Broken, Response

(* What gets finds through the binary protocol                             *)
LEMMA FoundItem ==
    ASSUME ItemOK(item, blended)
    PROVE  \/ /\ Present
              /\ Found("bin") = Delivered(item.data, item.flags, item.cas)
              /\ \/ Found("bin").code = "ok" /\ Found("bin").cas = item.cas
                 \/ Found("bin").code = "bad_request" /\ Found("bin").cas = 0
           \/ ~Present /\ Found("bin").code = "not_found" /\ Found("bin").cas = 0
<1>1. "bin" \in Protocols /\ item.data \in Seq(Units)
  BY DEF Protocols, ItemOK
<1>2. Found("bin") = IF Present THEN Delivered(item.data, item.flags, item.cas)
                     ELSE Response("not_found", <<>>, {}, 0)
  BY <1>1, FoundIs
<1>3. CASE Present
  BY <1>2, <1>3, DeliveredIs
<1>4. CASE ~Present
  BY <1>2, <1>4 DEF Response
<1> QED BY <1>3, <1>4

(* The gets of atomic_update preserves the invariant.                      *)
LEMMA UpdateGetsStep ==
    ASSUME IInv, UpdateGets
    PROVE  IInv' /\ update'.at # "done"
<1> DEFINE response == Found("bin")
           argument == Argument(response.data, response.flags)
<1>1. /\ update.at = "gets"
      /\ update' = IF Told("gets", response.code) = "no"
                   THEN [update EXCEPT !.at = "add", !.argument = None]
                   ELSE IF response.code # "ok" \/ argument = Unreadable THEN Idle
                   ELSE [update EXCEPT !.at = "cas", !.argument = argument,
                                       !.cas = response.cas]
      /\ UNCHANGED <<item, token, meaning, blended, told>>
  BY DEF UpdateGets
<1>2. ItemOK(item, blended) /\ MeaningOK(item, meaning, blended) /\ ToldOK(item, told)
      /\ token \in 0 .. 4 /\ UpdateOK(update, item)
  BY DEF IInv
<1>3. \/ /\ Present
         /\ response = Delivered(item.data, item.flags, item.cas)
         /\ \/ response.code = "ok" /\ response.cas = item.cas
            \/ response.code = "bad_request" /\ response.cas = 0
      \/ ~Present /\ response.code = "not_found" /\ response.cas = 0
  BY <1>2, FoundItem
<1>4. response = Delivered(item.data, item.flags, item.cas) => argument = Seen(item)
  BY DEF Seen
<1> HIDE DEF response, argument
<1>5. /\ Told("gets", "not_found") = "no" /\ Told("gets", "ok") # "no"
      /\ Told("gets", "bad_request") # "no"
  BY DEF Told, YesCodes, NoCodes, Retrieve, Storage, Numeric
<1>6. update.cas = 0 /\ update = [at |-> "gets", left |-> update.left,
                                  argument |-> update.argument, cas |-> 0]
  BY <1>1, <1>2 DEF UpdateOK
<1>7. UpdateOK(update', item) /\ update'.at # "done"
  <2>1. CASE ~Present
    <3>1. Told("gets", response.code) = "no"
      BY <1>3, <1>5, <2>1
    <3>2. update' = [at |-> "add", left |-> update.left, argument |-> None, cas |-> 0]
      BY <1>1, <1>6, <3>1
    <3> QED BY <3>2 DEF UpdateOK
  <2>2. CASE update' = Idle
    BY <2>2 DEF Idle, UpdateOK
  <2>3. CASE Present /\ update' # Idle
    <3>1. Told("gets", response.code) # "no"
      BY <1>3, <1>5, <2>3
    <3>2. response.code = "ok"
      BY <1>1, <2>3, <3>1
    <3>3. response.cas = item.cas /\ argument = Seen(item)
      BY <1>3, <1>4, <2>3, <3>2
    <3>4. update' = [at |-> "cas", left |-> update.left, argument |-> argument,
                     cas |-> response.cas]
      BY <1>1, <1>6, <2>3, <3>1
    <3>5. item.cas \in 0 .. 4 /\ item.cas # 0
      BY <1>2, <2>3 DEF ItemOK, Present
    <3> QED BY <3>3, <3>4, <3>5 DEF UpdateOK
  <2> QED BY <2>1, <2>2, <2>3
<1>8. UpdateOK(update', item')
  BY <1>1, <1>7
<1>9. ItemOK(item', blended') /\ MeaningOK(item', meaning', blended') /\ ToldOK(item', told')
      /\ token' \in 0 .. 4
  BY <1>1, <1>2
<1> QED BY <1>7, <1>8, <1>9 DEF IInv

-----------------------------------------------------------------------------
(* The theorems                                                            *)

(* A del preserves it.                                                     *)
LEMMA DeleteStep ==
    ASSUME IInv, NEW proto \in Protocols, CxxDelete(proto)
    PROVE  IInv'
<1>1. /\ item' = IF Present THEN NoItem ELSE item
      /\ meaning' = Unknown /\ blended' = FALSE /\ told' = {}
      /\ UNCHANGED <<token, update>>
  BY DeleteIs DEF CxxDelete
<1>2. ItemOK(item, blended) /\ token \in 0 .. 4 /\ UpdateOK(update, item)
  BY DEF IInv
<1>3. item' = NoItem
  BY <1>1, <1>2 DEF ItemOK, Present
<1>4. ItemOK(item', blended') /\ MeaningOK(item', meaning', blended')
  BY <1>1, <1>3, NoItemOK
<1>5. ToldOK(item', told')
  BY <1>1 DEF ToldOK
<1>6. UpdateOK(update', item')
  <2>1. Fresh(item')
    BY <1>3 DEF Fresh
  <2> QED BY <1>1, <1>2, <2>1, UpdateKept
<1> QED BY <1>1, <1>2, <1>4, <1>5, <1>6 DEF IInv

(* A gets of the Python wrapper preserves it.                              *)
LEMMA PyGetsStep ==
    ASSUME IInv, PyGets
    PROVE  IInv'
<1>1. token' = Found("bin").cas /\ UNCHANGED <<item, update, meaning, blended, told>>
  BY DEF PyGets
<1>2. ItemOK(item, blended)
  BY DEF IInv
<1>3. Found("bin").cas = item.cas \/ Found("bin").cas = 0
  BY <1>2, FoundItem
<1>4. token' \in 0 .. 4
  BY <1>1, <1>2, <1>3 DEF ItemOK
<1> QED BY <1>1, <1>4 DEF IInv

(* The call of atomic_update preserves it.                                 *)
LEMMA UpdateStartStep ==
    ASSUME IInv, NEW dict \in UpdateDicts, UpdateStart(dict)
    PROVE  IInv' /\ update'.at # "done"
<1> DEFINE left == IF OptsFromDict(dict).id = 0 THEN DefaultIters ELSE OptsFromDict(dict).id
<1>1. /\ update' = [Idle EXCEPT !.at = "gets", !.left = left]
      /\ token' = 0 /\ UNCHANGED <<item, meaning, blended, told>>
  BY DEF UpdateStart
<1> HIDE DEF left
<1>2. update' = [at |-> "gets", left |-> left, argument |-> None, cas |-> 0]
  BY <1>1 DEF Idle
<1>3. UpdateOK(update', item') /\ update'.at # "done"
  BY <1>2 DEF UpdateOK
<1> QED BY <1>1, <1>3 DEF IInv

(* Its return preserves it.                                                *)
LEMMA UpdateReturnStep ==
    ASSUME IInv, UpdateReturn
    PROVE  IInv' /\ update'.at # "done"
<1>1. update' = Idle /\ UNCHANGED <<item, token, meaning, blended, told>>
  BY DEF UpdateReturn
<1>2. UpdateOK(update', item') /\ update'.at # "done"
  BY <1>1 DEF Idle, UpdateOK
<1> QED BY <1>1, <1>2 DEF IInv

(* The invariant holds at first.                                           *)
LEMMA InitInv == Init => IInv
<1> SUFFICES ASSUME Init PROVE IInv
  OBVIOUS
<1>1. /\ item = NoItem /\ token = 0 /\ update = Idle /\ meaning = Unknown
      /\ blended = FALSE /\ told = {}
  BY DEF Init
<1>2. UpdateOK(update, item)
  BY <1>1 DEF Idle, UpdateOK
<1>3. ToldOK(item, told)
  BY <1>1 DEF ToldOK
<1>4. ItemOK(item, blended) /\ MeaningOK(item, meaning, blended)
  BY <1>1, NoItemOK
<1> QED BY <1>1, <1>2, <1>3, <1>4 DEF IInv

(* incrio and decrio preserve it.                                          *)
LEMMA PyCountStep ==
    ASSUME IInv, NEW name \in Numeric, NEW value \in Amounts, NEW dict \in DictsNow,
           PyCount(name, value, dict)
    PROVE  IInv' /\ UNCHANGED update
<1> DEFINE given == OptsFromDict(dict)
           opts == [given EXCEPT !.flags = @ \cup {"LONG"}]
<1>1. Count("bin", name, value, opts)
  BY DEF PyCount
<1>2. given.id \in 0 .. MaxWord /\ given = Opts(0, given.flags, given.id)
  BY DictsAre, DictIs
<1> HIDE DEF given
<1>3. opts.id \in 0 .. MaxWord
  BY <1>2 DEF Opts
<1> HIDE DEF opts
<1>4. UNCHANGED update
  BY <1>1 DEF Count
<1> QED BY <1>1, <1>3, <1>4, CountStep DEF Protocols

(* What a step of the system does                                          *)
LEMMA NextInv ==
    ASSUME IInv, [Next]_vars
    PROVE  /\ IInv'
           /\ update.at # "done" /\ update'.at = "done" =>
                 \/ Present /\ update.at = "cas" /\ update.cas = item.cas
                 \/ ~Present /\ update.at = "add"
<1>1. CASE UNCHANGED vars
  BY <1>1 DEF vars, IInv
<1>2. ASSUME NEW name \in Storage, NEW dict \in DictsNow,
             NEW object \in Storable(name, Objects), PyStore(name, object, dict)
      PROVE  IInv' /\ UNCHANGED update
  BY <1>2, PyStoreStep DEF PyStore
<1>3. ASSUME NEW proto \in Protocols, NEW name \in Storage \ {"cas"},
             NEW flags \in {{}, Builtin}, NEW object \in Storable(name, CxxObjects),
             CxxStore(proto, name, object, flags)
      PROVE  IInv' /\ UNCHANGED update
  BY <1>3, CxxStoreStep DEF CxxStore
<1>4. ASSUME NEW proto \in Protocols, NEW name \in Numeric, NEW value \in Amounts,
             Count(proto, name, value, NoOpts)
      PROVE  IInv' /\ UNCHANGED update
  <2>1. NoOpts.id \in 0 .. MaxWord
    BY WordAssumption DEF NoOpts, Opts
  <2>2. IInv'
    BY <1>4, <2>1, CountStep
  <2> QED BY <1>4, <2>2 DEF Count
<1>5. ASSUME NEW proto \in Protocols, CxxDelete(proto)
      PROVE  IInv' /\ UNCHANGED update
  BY <1>5, DeleteStep DEF CxxDelete
<1>6. ASSUME PyGets PROVE IInv' /\ UNCHANGED update
  BY <1>6, PyGetsStep DEF PyGets
<1>7. CASE Next
  <2>1. CASE \E name \in Storage, dict \in DictsNow :
                \E object \in Storable(name, Objects) : PyStore(name, object, dict)
    BY <1>2, <2>1
  <2>2. CASE \E name \in Numeric, value \in Amounts, dict \in DictsNow :
                PyCount(name, value, dict)
    BY <2>2, PyCountStep
  <2>3. CASE PyGets
    BY <1>6, <2>3
  <2>4. CASE \E dict \in UpdateDicts : UpdateStart(dict)
    BY <2>4, UpdateStartStep
  <2>5. CASE UpdateGets
    BY <2>5, UpdateGetsStep
  <2>6. CASE \E object \in Objects : UpdateSwap(object)
    BY <2>6, UpdateSwapStep
  <2>7. CASE UpdateReturn
    BY <2>7, UpdateReturnStep
  <2>8. CASE \E proto \in Protocols, name \in Storage \ {"cas"}, flags \in {{}, Builtin} :
                \E object \in Storable(name, CxxObjects) :
                   CxxStore(proto, name, object, flags)
    BY <1>3, <2>8
  <2>9. CASE \E proto \in Protocols, name \in Numeric, value \in Amounts :
                Count(proto, name, value, NoOpts)
    BY <1>4, <2>9
  <2>10. CASE \E proto \in Protocols : CxxDelete(proto)
    BY <1>5, <2>10
  <2> QED BY <1>7, <2>1, <2>2, <2>3, <2>4, <2>5, <2>6, <2>7, <2>8, <2>9, <2>10 DEF Next
<1> QED BY <1>1, <1>7

(* Every state the clients and the server reach satisfies the invariant.   *)
THEOREM Inductive == Spec => []IInv
<1>1. Init => IInv
  BY InitInv
<1>2. IInv /\ [Next]_vars => IInv'
  BY NextInv
<1> QED BY <1>1, <1>2, PTL DEF Spec

(* The invariant implies the types.                                        *)
LEMMA TypeOKOf == IInv => TypeOK
<1> SUFFICES ASSUME IInv PROVE TypeOK
  OBVIOUS
<1>1. Cardinality(item.flags \cap MASK) <= 1
  <2>1. item.flags \cap MASK \in Marks
    BY DEF IInv, ItemOK
  <2>2. CASE item.flags \cap MASK = {}
    <3>1. Cardinality(item.flags \cap MASK) = 0
      BY <2>2, FS_EmptySet
    <3> QED BY <3>1
  <2>3. CASE \E mark : item.flags \cap MASK = {mark}
    <3>1. Cardinality(item.flags \cap MASK) = 1
      BY <2>3, FS_Singleton
    <3> QED BY <3>1
  <2> QED BY <2>1, <2>2, <2>3 DEF Marks
<1>2. told \subseteq 0 .. MaxWord
  BY DEF IInv, ToldOK
<1>3. /\ item.cas \in 0 .. 4 /\ Len(item.data) <= MaxLen /\ blended \in BOOLEAN
      /\ token \in 0 .. 4
  BY DEF IInv, ItemOK
<1>4. update.at \in {"idle", "gets", "cas", "add", "done"}
  BY DEF IInv, UpdateOK
<1> QED BY <1>1, <1>2, <1>3, <1>4 DEF TypeOK

(* In every reachable state each variable has its type, and an item has    *)
(* one mark of a type at most, which is what the check at the head of      *)
(* to_string in python/mcache.cc is for.                                   *)
THEOREM TypeCorrect == Spec => []TypeOK
BY Inductive, TypeOKOf, PTL

(* The number incr or decr of either client has told is what the item      *)
(* holds until the next write, up to the largest signed number, which is   *)
(* what AsUnsigned makes of a larger one.                                  *)
THEOREM ToldIsCounted == Spec => []IncrTells
<1>1. IInv => IncrTells
  BY DEF IInv, ToldOK, IncrTells
<1> QED BY <1>1, Inductive, PTL

(* The invariant implies what is read.                                     *)
LEMMA TypedReadOf == IInv => TypedRead
<1> SUFFICES ASSUME IInv, meaning # Unknown, ~blended PROVE Reads(meaning.object)
  BY DEF TypedRead
<1> DEFINE object == meaning.object
<1>1. /\ ItemOK(item, blended)
      /\ item.cas # 0 /\ object.type \in MASK \cup {"STRING"}
      /\ meaning.by = "Python" => item.flags \cap MASK = MarkOf(object)
  BY DEF IInv, MeaningOK
<1>2. PICK d \in Seq(Glyphs) : item.data = Wrapped(d, item.flags) /\ Represents(object, d)
  BY DEF IInv, MeaningOK
<1>3. item.data \in Seq(Units) /\ Present
  BY <1>1 DEF ItemOK, Present
<1>4. Delivered(item.data, item.flags, item.cas) = Response("ok", d, item.flags, item.cas)
  <2>1. CASE Builtin \subseteq item.flags
    <3>1. item.data = Compress(d)
      BY <1>2, <2>1 DEF Wrapped
    <3>2. IsBlock(item.data) /\ Uncompress(item.data) = d
      BY <3>1, CompressIs
    <3> QED BY <2>1, <3>2 DEF Delivered
  <2>2. CASE ~(Builtin \subseteq item.flags)
    <3>1. item.data = d
      BY <1>2, <2>2 DEF Wrapped
    <3> QED BY <2>2, <3>1 DEF Delivered
  <2> QED BY <2>1, <2>2
<1>5. \A proto \in Protocols : Found(proto).data = d /\ Found(proto).flags = item.flags
  <2> TAKE proto \in Protocols
  <2>1. Found(proto) = Response("ok", d, item.flags, item.cas)
    BY <1>3, <1>4, FoundIs
  <2> DEFINE found == Found(proto)
  <2>2. found = Response("ok", d, item.flags, item.cas)
    BY <2>1
  <2> HIDE DEF found
  <2>3. found.data = d /\ found.flags = item.flags
    BY <2>2 DEF Response
  <2> QED BY <2>3 DEF found
<1> HIDE DEF object
<1>6. Same(object, FromText(object.type, d))
  BY <1>2, ReadBack
<1>7. ASSUME meaning.by = "Python" PROVE DataFromString(d, item.flags) = FromText(object.type, d)
  BY <1>1, <1>7, MarkIsRead
<1>8. "bin" \in Protocols
  BY DEF Protocols
<1> QED BY <1>5, <1>6, <1>7, <1>8 DEF Reads, object

(* Whatever was stored, appended or counted through either client and      *)
(* either protocol, compressed or not, is read back as that object: by a   *)
(* C++ program that knows the type, by Python if Python stored it.         *)
THEOREM WhatWasStoredIsRead == Spec => []TypedRead
BY Inductive, TypedReadOf, PTL

(* Whatever is in the item, uncompress returns data.                       *)
LEMMA UncompressType ==
    ASSUME NEW S, NEW data \in Seq(S)
    PROVE  Uncompress(data) \in Seq(S)
<1> DEFINE I == {i \in 1 .. Len(data) : data[i] = BlockEnd}
           m == IF I = {} THEN 0 ELSE Min(I)
<1>1. m \in Nat /\ m <= Len(data)
  <2>1. CASE I = {}
    BY <2>1
  <2>2. CASE I # {}
    <3>1. I \subseteq Nat
      OBVIOUS
    <3>2. PICK k \in I : \A i \in I : k <= i
      BY <2>2, <3>1, Minimum
    <3>3. Min(I) = k
      BY <3>1, <3>2, FirstIs
    <3> QED BY <2>2, <3>2, <3>3
  <2> QED BY <2>1, <2>2
<1>2. Uncompress(data) = SubSeq(data, 2, m - 1)
  BY DEF Uncompress, SelectInSeq
<1> HIDE DEF m
<1>3. SubSeq(data, 2, m - 1) \in Seq(S)
  BY <1>1
<1> QED BY <1>2, <1>3

(* What a callback would be given is the same as itself: a number where it *)
(* is a float.                                                             *)
LEMMA SeenIsSame ==
    ASSUME NEW S, item.data \in Seq(S)
    PROVE  Same(Seen(item), Seen(item))
<1> DEFINE given == Delivered(item.data, item.flags, item.cas)
<1>1. given.data \in Seq(S)
  <2>1. given.data \in {item.data, Uncompress(item.data), <<>>}
    BY DEF Delivered, Broken, Response
  <2>2. Uncompress(item.data) \in Seq(S) /\ <<>> \in Seq(S)
    BY UncompressType
  <2> HIDE DEF given
  <2> QED BY <2>1, <2>2
<1>2. Seen(item) = Argument(given.data, given.flags)
  BY DEF Seen
<1> HIDE DEF given
<1> QED BY <1>1, <1>2, SameAsItself

(* atomic_update of the Python wrapper replaces nothing but the item its   *)
(* callback was given, and adds only where there is none.                  *)
THEOREM UpdateSeesWhatItReplaces == Spec => UpdateSeesItem
<1>1. ASSUME IInv, [Next]_vars, update.at # "done", update'.at = "done"
      PROVE  Given(update.argument)
  <2>1. \/ Present /\ update.at = "cas" /\ update.cas = item.cas
        \/ ~Present /\ update.at = "add"
    BY <1>1, NextInv
  <2>2. ItemOK(item, blended) /\ UpdateOK(update, item)
    BY <1>1 DEF IInv
  <2>3. CASE Present /\ update.at = "cas" /\ update.cas = item.cas
    <3>1. update.argument = Seen(item)
      BY <2>2, <2>3 DEF UpdateOK
    <3>2. Seen(item) = Argument(Found("bin").data, Found("bin").flags)
      BY <2>2, <2>3, FoundItem DEF Seen
    <3>3. Same(Seen(item), Seen(item))
      BY <2>2, SeenIsSame DEF ItemOK
    <3> QED BY <2>3, <3>1, <3>2, <3>3 DEF Given
  <2>4. CASE ~Present /\ update.at = "add"
    BY <2>2, <2>4 DEF UpdateOK, Given
  <2> QED BY <2>1, <2>3, <2>4
<1>2. IInv /\ [Next]_vars => [update.at # "done" /\ update'.at = "done"
                                 => Given(update.argument)]_vars
  BY <1>1
<1> QED BY <1>2, Inductive, PTL DEF Spec, UpdateSeesItem

=============================================================================
