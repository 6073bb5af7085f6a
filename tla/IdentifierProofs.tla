--------------------------- MODULE IdentifierProofs ---------------------------
(***************************************************************************)
(* What the text of a number is, in any base and padded to any width: that *)
(* the text the rendering writes and the text the mint writes name one     *)
(* number each, and that the order of texts is the order of numbers for as *)
(* long as the numbers fit the width.                                      *)
(*                                                                         *)
(* The library's induction theorems take the property as an operator; here *)
(* an induction is over the set of the numbers that have it.               *)
(***************************************************************************)
EXTENDS Fixtures, FiniteSetTheorems, SequenceTheorems, WellFoundedInduction, TLAPS

Digit == 0..(Base - 1)

-----------------------------------------------------------------------------
(* Induction over the numbers of a set *)

LEMMA LeastNumber ==
  ASSUME NEW T, T \subseteq Nat, T # {}
  PROVE  \E m \in T : \A k \in T : m <= k
<1> DEFINE R == {ss \in Nat \X Nat : ss[1] < ss[2]}
<1>1. IsWellFoundedOn(R, Nat)
  BY NatLessThanWellFounded DEF OpToRel
<1>2. PICK m \in T : \A k \in T : ~ (<<k, m>> \in R)
  <2> HIDE DEF R
  <2> QED BY <1>1, WFMin
<1>3. \A k \in T : ~ (k < m)
  BY <1>2
<1> QED BY <1>3

LEMMA EveryNumber ==
  ASSUME NEW T, 0 \in T, \A n \in Nat : n \in T => n + 1 \in T
  PROVE  \A n \in Nat : n \in T
<1> SUFFICES ASSUME ~ (Nat \subseteq T) PROVE FALSE
  OBVIOUS
<1>1. PICK m \in Nat \ T : \A k \in Nat \ T : m <= k
  BY LeastNumber
<1>2. m # 0 /\ m - 1 \in Nat /\ m - 1 \in T
  BY <1>1
<1> QED BY <1>1, <1>2

\* The number without its last digit, and that digit.
LEMMA Division ==
  ASSUME NEW n \in Nat
  PROVE  /\ n \div Base \in Nat /\ n % Base \in Digit
         /\ n = (n \div Base) * Base + (n % Base)
         /\ n >= Base => n \div Base < n /\ n \div Base > 0
         /\ n < Base => n \in Digit
<1>1. Base \in Nat /\ Base >= 2
  BY BaseAssumption
<1>2. n \div Base \in Int /\ n % Base \in 0..(Base - 1) /\ n = Base * (n \div Base) + (n % Base)
  BY <1>1
<1>3. n = (n \div Base) * Base + (n % Base)
  BY <1>1, <1>2
<1>4. n \div Base >= 0
  <2>1. SUFFICES ASSUME n \div Base <= -1 PROVE FALSE
    BY <1>2
  <2>2. (n \div Base) * Base <= -Base
    BY <1>1, <1>2, <2>1
  <2> QED BY <1>1, <1>2, <1>3, <2>2
<1>5. n >= Base => n \div Base > 0
  BY <1>1, <1>2, <1>3, <1>4
<1>6. n >= Base => n \div Base < n
  <2>1. SUFFICES ASSUME n >= Base PROVE n \div Base < n
    OBVIOUS
  <2>2. (n \div Base) * Base >= (n \div Base) * 2
    BY <1>1, <1>2, <1>4
  <2> QED BY <1>1, <1>2, <1>3, <1>5, <2>1, <2>2
<1> QED BY <1>1, <1>2, <1>3, <1>4, <1>5, <1>6 DEF Digit

-----------------------------------------------------------------------------
(* The two recursive functions are what their definitions say *)

\* What the definition of Digits asks of a function, at one argument and at all
\* of those up to another.
Writes(f, n) == f[n] = IF n < Base THEN <<n>> ELSE Append(f[n \div Base], n % Base)
WritesUpTo(f, n) == \A k \in 0..n : Writes(f, k)

LEMMA SomethingWrites ==
  ASSUME NEW n \in Nat
  PROVE  \E f : WritesUpTo(f, n)
<1> DEFINE T == {k \in Nat : \E f : WritesUpTo(f, k)}
<1>1. 0 \in T
  <2> DEFINE f == [k \in {0} |-> <<0>>]
  <2>1. f[0] = <<0>> /\ 0 < Base
    BY BaseAssumption
  <2> HIDE DEF f
  <2>2. WritesUpTo(f, 0)
    BY <2>1 DEF WritesUpTo, Writes
  <2> QED BY <2>2
<1>2. ASSUME NEW k \in Nat, k \in T PROVE k + 1 \in T
  <2>1. PICK f : WritesUpTo(f, k)
    BY <1>2
  <2> DEFINE last == IF k + 1 < Base THEN <<k + 1>>
                     ELSE Append(f[(k + 1) \div Base], (k + 1) % Base)
             g == [j \in 0..(k + 1) |-> IF j = k + 1 THEN last ELSE f[j]]
  <2>2. \A j \in 0..k : g[j] = f[j]
    OBVIOUS
  <2>3. g[k + 1] = last
    OBVIOUS
  <2>4. \A j \in 0..(k + 1) : j >= Base => j \div Base \in 0..k
    BY Division
  <2> HIDE DEF g
  <2>5. ASSUME NEW j \in 0..k PROVE Writes(g, j)
    BY <2>1, <2>2, <2>4, BaseAssumption DEF WritesUpTo, Writes
  <2>6. Writes(g, k + 1)
    BY <2>2, <2>3, <2>4, BaseAssumption DEF Writes
  <2>7. WritesUpTo(g, k + 1)
    BY <2>5, <2>6 DEF WritesUpTo
  <2> QED BY <2>7
<1> HIDE DEF T
<1>3. n \in T
  BY <1>1, <1>2, EveryNumber
<1> QED BY <1>3 DEF T

LEMMA AllWriteTheSame ==
  ASSUME NEW m \in Nat, NEW n \in Nat, NEW f, NEW g,
         WritesUpTo(f, m), WritesUpTo(g, n)
  PROVE  \A k \in Nat : k <= m /\ k <= n => f[k] = g[k]
<1> DEFINE T == {k \in Nat : k <= m /\ k <= n /\ f[k] # g[k]}
<1>1. SUFFICES ASSUME T # {} PROVE FALSE
  OBVIOUS
<1>2. PICK k \in T : \A j \in T : k <= j
  <2> HIDE DEF T
  <2>1. T \subseteq Nat
    BY DEF T
  <2> QED BY <1>1, <2>1, LeastNumber
<1>3. Writes(f, k) /\ Writes(g, k)
  BY DEF WritesUpTo
<1>4. CASE k < Base
  BY <1>3, <1>4 DEF Writes
<1>5. CASE k >= Base
  <2>1. k \div Base \in Nat /\ k \div Base < k
    BY <1>5, Division
  <2>2. f[k \div Base] = g[k \div Base]
    BY <1>2, <2>1
  <2> QED BY <1>3, <1>5, <2>2, BaseAssumption DEF Writes
<1> QED BY <1>4, <1>5, BaseAssumption

LEMMA DigitsDef ==
  \A n \in Nat :
    Digits[n] = IF n < Base THEN <<n>> ELSE Append(Digits[n \div Base], n % Base)
<1> DEFINE F(n) == CHOOSE f : WritesUpTo(f, n)
           D == [n \in Nat |-> F(n)[n]]
           Def(g) == [n \in Nat |-> IF n < Base THEN <<n>>
                                    ELSE Append(g[n \div Base], n % Base)]
<1>1. ASSUME NEW n \in Nat PROVE WritesUpTo(F(n), n)
  BY SomethingWrites
<1>2. ASSUME NEW n \in Nat PROVE D[n] = Def(D)[n]
  <2>1. Writes(F(n), n)
    BY <1>1 DEF WritesUpTo
  <2>2. D[n] = F(n)[n]
    OBVIOUS
  <2>3. CASE n < Base
    <3> HIDE DEF F
    <3> QED BY <2>1, <2>2, <2>3 DEF Writes
  <2>4. CASE n >= Base
    <3>1. n \div Base \in Nat /\ n \div Base < n
      BY <2>4, Division
    <3>2. WritesUpTo(F(n \div Base), n \div Base)
      BY <1>1, <3>1
    <3> HIDE DEF F
    <3>3. F(n)[n \div Base] = F(n \div Base)[n \div Base]
      BY <1>1, <3>1, <3>2, AllWriteTheSame
    <3>4. D[n \div Base] = F(n)[n \div Base]
      BY <3>1, <3>3
    <3> HIDE DEF D
    <3> QED BY <2>1, <2>2, <2>4, <3>4, BaseAssumption DEF Writes
  <2> QED BY <2>3, <2>4, BaseAssumption
<1>3. D = Def(D)
  <2>1. D = [n \in Nat |-> D[n]] /\ Def(D) = [n \in Nat |-> Def(D)[n]]
    OBVIOUS
  <2> HIDE DEF D, Def
  <2> QED BY <1>2, <2>1
<1>4. Digits = CHOOSE g : g = Def(g)
  BY DEF Digits
<1>5. Digits = Def(Digits)
  <2> HIDE DEF D, Def
  <2> QED BY <1>3, <1>4
<1> QED BY <1>5

\* The same of the numbers of a text's prefixes.
LEMMA PrefixesDef ==
  ASSUME NEW id, Len(id) \in Nat
  PROVE  /\ Prefixes(id)[0] = 0
         /\ \A i \in 1..Len(id) : Prefixes(id)[i] = Prefixes(id)[i - 1] * Base + id[i]
<1> DEFINE Reads(f, n) == \A i \in 0..n : f[i] = IF i = 0 THEN 0 ELSE f[i - 1] * Base + id[i]
           T == {n \in Nat : \E f : Reads(f, n)}
           Def(f) == [i \in 0..Len(id) |-> IF i = 0 THEN 0 ELSE f[i - 1] * Base + id[i]]
<1>1. 0 \in T
  <2>1. Reads([i \in {0} |-> 0], 0)
    OBVIOUS
  <2> HIDE DEF Reads
  <2> QED BY <2>1
<1>2. ASSUME NEW n \in Nat, n \in T PROVE n + 1 \in T
  <2>1. PICK f : Reads(f, n)
    BY <1>2
  <2> DEFINE g == [i \in 0..(n + 1) |-> IF i = n + 1 THEN f[n] * Base + id[n + 1] ELSE f[i]]
  <2>2. g[n + 1] = f[n] * Base + id[n + 1] /\ \A i \in 0..n : g[i] = f[i]
    OBVIOUS
  <2> HIDE DEF g
  <2>3. ASSUME NEW i \in 0..(n + 1)
        PROVE  g[i] = IF i = 0 THEN 0 ELSE g[i - 1] * Base + id[i]
    <3>1. CASE i = n + 1
      BY <2>2, <3>1
    <3>2. CASE i \in 1..n
      <4>1. i - 1 \in 0..n /\ i \in 0..n /\ i # 0
        BY <3>2
      <4> QED BY <2>1, <2>2, <4>1
    <3>3. CASE i = 0
      BY <2>1, <2>2, <3>3
    <3> QED BY <3>1, <3>2, <3>3
  <2>4. Reads(g, n + 1)
    BY <2>3
  <2> HIDE DEF Reads
  <2> QED BY <2>4
<1>3. PICK f : Reads(f, Len(id))
  <2> HIDE DEF T
  <2>1. Len(id) \in T
    BY <1>1, <1>2, EveryNumber
  <2> QED BY <2>1 DEF T
<1>4. \E g : g = Def(g)
  <2> DEFINE h == [i \in 0..Len(id) |-> f[i]]
  <2>1. \A i \in 0..Len(id) : h[i] = Def(h)[i]
    <3>1. ASSUME NEW i \in 0..Len(id) PROVE h[i] = Def(h)[i]
      <4>1. CASE i = 0
        BY <1>3, <4>1
      <4>2. CASE i # 0
        <5>1. i - 1 \in 0..Len(id)
          BY <4>2
        <5> QED BY <1>3, <4>2, <5>1
      <4> QED BY <4>1, <4>2
    <3> QED BY <3>1
  <2>2. h = [i \in 0..Len(id) |-> h[i]] /\ Def(h) = [i \in 0..Len(id) |-> Def(h)[i]]
    OBVIOUS
  <2>3. h = Def(h)
    <3> HIDE DEF h, Def
    <3> QED BY <2>1, <2>2
  <2> HIDE DEF h, Def
  <2> QED BY <2>3
<1>5. Prefixes(id) = CHOOSE g : g = Def(g)
  BY DEF Prefixes
<1>6. Prefixes(id) = Def(Prefixes(id))
  <2> HIDE DEF Def
  <2> QED BY <1>4, <1>5
<1>7. \A i \in 0..Len(id) : Prefixes(id)[i] = Def(Prefixes(id))[i]
  <2> HIDE DEF Def
  <2> QED BY <1>6
<1>8. \A i \in 0..Len(id) :
        Prefixes(id)[i] = IF i = 0 THEN 0 ELSE Prefixes(id)[i - 1] * Base + id[i]
  BY <1>7
<1> HIDE DEF Reads, T, Def
<1> QED BY <1>8

LEMMA PrefixesAreNumbers ==
  ASSUME NEW id \in Seq(Digit)
  PROVE  \A i \in 0..Len(id) : Prefixes(id)[i] \in Nat
<1> DEFINE T == {n \in Nat : n <= Len(id) => Prefixes(id)[n] \in Nat}
<1>1. Len(id) \in Nat /\ \A i \in 1..Len(id) : id[i] \in Nat
  BY LenProperties, BaseAssumption DEF Digit
<1>2. 0 \in T
  BY <1>1, PrefixesDef
<1>3. ASSUME NEW n \in Nat, n \in T PROVE n + 1 \in T
  <2>1. SUFFICES ASSUME n + 1 <= Len(id) PROVE Prefixes(id)[n + 1] \in Nat
    OBVIOUS
  <2>2. n + 1 \in 1..Len(id) /\ (n + 1) - 1 = n /\ Prefixes(id)[n] \in Nat
    BY <1>1, <1>3, <2>1
  <2>3. Prefixes(id)[n + 1] = Prefixes(id)[n] * Base + id[n + 1]
    BY <1>1, <2>2, PrefixesDef
  <2> QED BY <1>1, <2>2, <2>3, BaseAssumption
<1>4. \A n \in Nat : n \in T
  <2> HIDE DEF T
  <2> QED BY <1>2, <1>3, EveryNumber
<1> QED BY <1>1, <1>4

\* The numbers of two texts' prefixes agree for as long as the texts do.
LEMMA SamePrefix ==
  ASSUME NEW a \in Seq(Digit), NEW b \in Seq(Digit), NEW k \in 0..Len(a), k <= Len(b),
         \A i \in 1..k : a[i] = b[i]
  PROVE  Prefixes(a)[k] = Prefixes(b)[k]
<1> DEFINE T == {n \in Nat : n <= k => Prefixes(a)[n] = Prefixes(b)[n]}
<1>1. Len(a) \in Nat /\ Len(b) \in Nat /\ k \in Nat
  BY LenProperties
<1>2. 0 \in T
  BY <1>1, PrefixesDef
<1>3. ASSUME NEW n \in Nat, n \in T PROVE n + 1 \in T
  <2>1. SUFFICES ASSUME n + 1 <= k PROVE Prefixes(a)[n + 1] = Prefixes(b)[n + 1]
    OBVIOUS
  <2>2. n + 1 \in 1..Len(a) /\ n + 1 \in 1..Len(b) /\ n + 1 \in 1..k /\ (n + 1) - 1 = n
    BY <1>1, <2>1
  <2>3. Prefixes(a)[n + 1] = Prefixes(a)[n] * Base + a[n + 1]
    BY <1>1, <2>2, PrefixesDef
  <2>4. Prefixes(b)[n + 1] = Prefixes(b)[n] * Base + b[n + 1]
    BY <1>1, <2>2, PrefixesDef
  <2>5. Prefixes(a)[n] = Prefixes(b)[n] /\ a[n + 1] = b[n + 1]
    BY <1>3, <2>1, <2>2
  <2> QED BY <2>3, <2>4, <2>5
<1>4. \A n \in Nat : n \in T
  <2> HIDE DEF T
  <2> QED BY <1>2, <1>3, EveryNumber
<1> QED BY <1>1, <1>4

LEMMA NumberType ==
  ASSUME NEW id \in Seq(Digit)
  PROVE  Number(id) \in Nat
<1>1. Len(id) \in Nat
  BY LenProperties
<1> QED BY <1>1, PrefixesAreNumbers DEF Number

\* One digit more.
LEMMA NumberOfAppend ==
  ASSUME NEW id \in Seq(Digit), NEW d \in Digit
  PROVE  /\ Append(id, d) \in Seq(Digit) /\ Len(Append(id, d)) = Len(id) + 1
         /\ \A i \in 1..Len(id) : Append(id, d)[i] = id[i]
         /\ Number(Append(id, d)) = Number(id) * Base + d
<1> DEFINE more == Append(id, d)
<1>1. /\ Len(id) \in Nat
      /\ more \in Seq(Digit) /\ Len(more) = Len(id) + 1
      /\ more[Len(id) + 1] = d /\ \A i \in 1..Len(id) : more[i] = id[i]
  BY LenProperties, AppendProperties
<1> HIDE DEF more
<1>2. Prefixes(more)[Len(id)] = Prefixes(id)[Len(id)]
  BY <1>1, SamePrefix
<1>3. Prefixes(more)[Len(id) + 1] = Prefixes(more)[Len(id)] * Base + d
  <2>1. Len(id) + 1 \in 1..Len(more) /\ (Len(id) + 1) - 1 = Len(id) /\ Len(more) \in Nat
    BY <1>1
  <2> QED BY <1>1, <2>1, PrefixesDef
<1>4. Number(more) = Number(id) * Base + d
  BY <1>1, <1>2, <1>3 DEF Number
<1> QED BY <1>1, <1>4 DEF more

LEMMA NumberOfOneDigit ==
  ASSUME NEW d \in Digit
  PROVE  <<d>> \in Seq(Digit) /\ Len(<<d>>) = 1 /\ <<d>>[1] = d /\ Number(<<d>>) = d
<1>1. <<d>> \in Seq(Digit) /\ Len(<<d>>) = 1 /\ <<d>>[1] = d
  OBVIOUS
<1>2. d \in Nat
  BY BaseAssumption DEF Digit
<1>3. Prefixes(<<d>>)[0] = 0 /\ Prefixes(<<d>>)[1] = Prefixes(<<d>>)[0] * Base + d
  <2>1. 1 \in 1..Len(<<d>>) /\ 1 - 1 = 0
    BY <1>1
  <2> QED BY <1>1, <2>1, PrefixesDef
<1> QED BY <1>1, <1>2, <1>3, BaseAssumption DEF Number

-----------------------------------------------------------------------------
(* The text of a number *)

\* A text as an integer's decimal text is: digits, and a leading zero of zero only.
Decimal(d, n) ==
  /\ d \in Seq(Digit) /\ Len(d) >= 1
  /\ d[1] = 0 => Len(d) = 1
  /\ Number(d) = n

LEMMA DigitsAreDecimal ==
  ASSUME NEW n \in Nat
  PROVE  Decimal(Digits[n], n)
<1> DEFINE T == {k \in Nat : ~ Decimal(Digits[k], k)}
<1>1. SUFFICES ASSUME T # {} PROVE FALSE
  OBVIOUS
<1>2. PICK k \in T : \A j \in T : k <= j
  <2> HIDE DEF T
  <2>1. T \subseteq Nat
    BY DEF T
  <2> QED BY <1>1, <2>1, LeastNumber
<1>3. k \in Nat /\ ~ Decimal(Digits[k], k)
  OBVIOUS
<1>4. Digits[k] = IF k < Base THEN <<k>> ELSE Append(Digits[k \div Base], k % Base)
  BY <1>3, DigitsDef
<1>5. CASE k < Base
  <2>1. k \in Digit /\ Digits[k] = <<k>>
    BY <1>3, <1>4, <1>5, Division
  <2> QED BY <1>3, <2>1, NumberOfOneDigit DEF Decimal
<1>6. CASE k >= Base
  <2> DEFINE q == k \div Base
             r == k % Base
  <2>1. /\ q \in Nat /\ r \in Digit /\ k = q * Base + r /\ q < k /\ q > 0
    BY <1>3, <1>6, Division
  <2>2. Decimal(Digits[q], q)
    BY <1>2, <2>1
  <2>3. Digits[k] = Append(Digits[q], r)
    BY <1>3, <1>4, <1>6, BaseAssumption
  <2> HIDE DEF q, r
  <2>4. PICK d : d = Digits[q]
    OBVIOUS
  <2>5. /\ Digits[k] \in Seq(Digit) /\ Len(Digits[k]) = Len(d) + 1
        /\ \A i \in 1..Len(d) : Digits[k][i] = d[i]
        /\ Number(Digits[k]) = Number(d) * Base + r
    BY <2>1, <2>2, <2>3, <2>4, NumberOfAppend DEF Decimal
  <2>6. d \in Seq(Digit) /\ Len(d) \in Nat /\ Len(d) >= 1
    BY <2>2, <2>4, LenProperties DEF Decimal
  <2>7. d[1] # 0
    <3>1. SUFFICES ASSUME d[1] = 0 PROVE FALSE
      OBVIOUS
    <3>2. Len(d) = 1 /\ Number(d) = q
      BY <2>2, <2>4, <3>1 DEF Decimal
    <3>3. Prefixes(d)[0] = 0 /\ Prefixes(d)[1] = Prefixes(d)[0] * Base + d[1]
      <4>1. 1 \in 1..Len(d) /\ 1 - 1 = 0
        BY <3>2
      <4> QED BY <3>2, <4>1, PrefixesDef
    <3> QED BY <2>1, <3>1, <3>2, <3>3, BaseAssumption DEF Number
  <2>8. Digits[k][1] # 0
    BY <2>5, <2>6, <2>7
  <2>9. Number(Digits[k]) = k
    BY <2>1, <2>2, <2>4, <2>5 DEF Decimal
  <2> QED BY <1>3, <2>5, <2>6, <2>8, <2>9 DEF Decimal
<1> QED BY <1>3, <1>5, <1>6, BaseAssumption

\* Zeros in front change a text's length and not its number.
LEMMA Padded ==
  ASSUME NEW d \in Seq(Digit), NEW w \in Nat
  PROVE  /\ Pad(d, w) \in Seq(Digit) /\ Len(Pad(d, w)) = Greatest(w, Len(d))
         /\ Len(Pad(d, w)) \in Nat
         /\ \A i \in 1..(Len(Pad(d, w)) - Len(d)) : Pad(d, w)[i] = 0
         /\ \A i \in 1..Len(d) : Pad(d, w)[Len(Pad(d, w)) - Len(d) + i] = d[i]
         /\ w <= Len(d) => Pad(d, w) = d
<1> DEFINE n == Greatest(w, Len(d)) - Len(d)
           zeros == [i \in 1..n |-> 0]
<1>1. Len(d) \in Nat /\ n \in Nat /\ 0 \in Digit
  BY LenProperties, BaseAssumption DEF Digit, Greatest
<1>2. 1..(w - Len(d)) = 1..n
  BY <1>1 DEF Greatest
<1>3. Pad(d, w) = zeros \o d
  BY <1>2 DEF Pad
<1>4. zeros \in Seq(Digit) /\ Len(zeros) = n /\ \A i \in 1..n : zeros[i] = 0
  BY <1>1, SeqDef, LenProperties
<1> HIDE DEF zeros
<1>5. /\ zeros \o d \in Seq(Digit) /\ Len(zeros \o d) = n + Len(d)
      /\ \A i \in 1..(n + Len(d)) :
           (zeros \o d)[i] = IF i <= n THEN zeros[i] ELSE d[i - n]
  <2> HIDE DEF n
  <2>1. /\ zeros \o d \in Seq(Digit) /\ Len(zeros \o d) = Len(zeros) + Len(d)
        /\ \A i \in 1..(Len(zeros) + Len(d)) :
             (zeros \o d)[i] = IF i <= Len(zeros) THEN zeros[i] ELSE d[i - Len(zeros)]
    BY <1>4, ConcatProperties
  <2> QED BY <1>4, <2>1
<1>6. n + Len(d) = Greatest(w, Len(d))
  BY <1>1 DEF Greatest
<1>7. w <= Len(d) => zeros = << >>
  <2>1. SUFFICES ASSUME w <= Len(d) PROVE Len(zeros) = 0
    BY <1>4, EmptySeq
  <2> QED BY <1>1, <1>4, <2>1 DEF Greatest
<1>8. w <= Len(d) => zeros \o d = d
  BY <1>7, ConcatEmptySeq
<1> HIDE DEF n
<1>9. PICK p : p = zeros \o d
  OBVIOUS
<1>10. /\ Len(p) - Len(d) = n /\ \A i \in 1..n : p[i] = 0
       /\ \A i \in 1..Len(d) : p[n + i] = d[i]
  BY <1>1, <1>4, <1>5, <1>9
<1> QED BY <1>1, <1>3, <1>5, <1>6, <1>8, <1>9, <1>10

LEMMA PaddedNumber ==
  ASSUME NEW d \in Seq(Digit), NEW w \in Nat
  PROVE  Number(Pad(d, w)) = Number(d)
<1>1. PICK p, z : p = Pad(d, w) /\ z = Len(p) - Len(d)
  OBVIOUS
<1>2. /\ p \in Seq(Digit) /\ Len(p) = Greatest(w, Len(d)) /\ Len(p) \in Nat
      /\ \A i \in 1..z : p[i] = 0
      /\ \A i \in 1..Len(d) : p[z + i] = d[i]
  BY <1>1, Padded
<1>3. Len(d) \in Nat /\ z \in Nat /\ Len(p) = z + Len(d)
  BY <1>1, <1>2, LenProperties DEF Greatest
<1>4. /\ Prefixes(p)[0] = 0
      /\ \A i \in 1..Len(p) : Prefixes(p)[i] = Prefixes(p)[i - 1] * Base + p[i]
  BY <1>2, PrefixesDef
<1>5. /\ Prefixes(d)[0] = 0
      /\ \A i \in 1..Len(d) : Prefixes(d)[i] = Prefixes(d)[i - 1] * Base + d[i]
  BY <1>3, PrefixesDef
<1> DEFINE Z == {n \in Nat : n <= z => Prefixes(p)[n] = 0}
           S == {n \in Nat : n <= Len(d) => Prefixes(p)[z + n] = Prefixes(d)[n]}
<1>6. \A n \in Nat : n \in Z
  <2>1. 0 \in Z
    BY <1>4
  <2>2. ASSUME NEW n \in Nat, n \in Z PROVE n + 1 \in Z
    <3>1. SUFFICES ASSUME n + 1 <= z PROVE Prefixes(p)[n + 1] = 0
      OBVIOUS
    <3>2. n + 1 \in 1..Len(p) /\ n + 1 \in 1..z /\ (n + 1) - 1 = n /\ Prefixes(p)[n] = 0
      BY <1>3, <2>2, <3>1
    <3>3. Prefixes(p)[n + 1] = Prefixes(p)[n] * Base + p[n + 1] /\ p[n + 1] = 0
      BY <1>2, <1>4, <3>2
    <3> QED BY <3>2, <3>3, BaseAssumption
  <2> HIDE DEF Z
  <2> QED BY <2>1, <2>2, EveryNumber
<1>7. \A n \in Nat : n \in S
  <2>1. 0 \in S
    BY <1>3, <1>5, <1>6
  <2>2. ASSUME NEW n \in Nat, n \in S PROVE n + 1 \in S
    <3>1. SUFFICES ASSUME n + 1 <= Len(d)
                   PROVE  Prefixes(p)[z + (n + 1)] = Prefixes(d)[n + 1]
      OBVIOUS
    <3>2. /\ n + 1 \in 1..Len(d) /\ (n + 1) - 1 = n
          /\ z + (n + 1) \in 1..Len(p) /\ (z + (n + 1)) - 1 = z + n
          /\ Prefixes(p)[z + n] = Prefixes(d)[n]
      BY <1>3, <2>2, <3>1
    <3>3. Prefixes(p)[z + (n + 1)] = Prefixes(p)[z + n] * Base + p[z + (n + 1)]
      BY <1>4, <3>2
    <3>4. Prefixes(d)[n + 1] = Prefixes(d)[n] * Base + d[n + 1]
      BY <1>5, <3>2
    <3>5. p[z + (n + 1)] = d[n + 1]
      BY <1>2, <3>2
    <3> QED BY <3>2, <3>3, <3>4, <3>5
  <2> HIDE DEF S
  <2> QED BY <2>1, <2>2, EveryNumber
<1>8. Prefixes(p)[z + Len(d)] = Prefixes(d)[Len(d)]
  BY <1>3, <1>7
<1> QED BY <1>1, <1>3, <1>8 DEF Number

\* _identifier's text (f"{ordinal:04d}") is digits, as wide as the width, reads
\* back as its number, and only one wider than that starts with no zero.
THEOREM IdentifierText ==
  ASSUME NEW n \in Nat
  PROVE  /\ IsText(_identifier(n)) /\ Number(_identifier(n)) = n
         /\ Len(_identifier(n)) > Width => _identifier(n)[1] # 0
<1> DEFINE d == Digits[n]
           p == Pad(d, Width)
<1>1. Width \in Nat /\ Width >= 1
  BY BaseAssumption
<1>2. d \in Seq(Digit) /\ Len(d) >= 1 /\ Number(d) = n /\ (d[1] = 0 => Len(d) = 1)
  BY DigitsAreDecimal DEF Decimal
<1> HIDE DEF d
<1>3. /\ p \in Seq(Digit) /\ Len(p) = Greatest(Width, Len(d)) /\ Len(p) \in Nat
      /\ \A i \in 1..(Len(p) - Len(d)) : p[i] = 0
      /\ \A i \in 1..Len(d) : p[Len(p) - Len(d) + i] = d[i]
      /\ Width <= Len(d) => p = d
  BY <1>1, <1>2, Padded
<1>4. Len(d) \in Nat
  BY <1>2, LenProperties
<1>5. Number(p) = n
  BY <1>1, <1>2, PaddedNumber
<1>6. Len(p) >= Width /\ (Len(p) > Width => p = d /\ Len(d) > 1)
  BY <1>1, <1>3, <1>4 DEF Greatest
<1> QED BY <1>2, <1>3, <1>5, <1>6 DEF IsText, _identifier, Digit, d

\* And as the mint pads it, which cuts nothing: one text per number, whoever wrote it.
LEMMA MintText ==
  ASSUME NEW n \in Nat
  PROVE  lpad(Digits[n], Greatest(Width, Len(Digits[n]))) = _identifier(n)
<1> DEFINE d == Digits[n]
<1>1. d \in Seq(Digit) /\ Width \in Nat
  BY DigitsAreDecimal, BaseAssumption DEF Decimal
<1> HIDE DEF d
<1>2. Len(d) \in Nat
  BY <1>1, LenProperties
<1>3. ~ (Len(d) > Greatest(Width, Len(d)))
  BY <1>1, <1>2 DEF Greatest
<1>4. lpad(d, Greatest(Width, Len(d))) = Pad(d, Greatest(Width, Len(d)))
  BY <1>3 DEF lpad
<1>5. CASE Width < Len(d)
  <2>1. Greatest(Width, Len(d)) = Len(d)
    BY <1>5 DEF Greatest
  <2>2. Pad(d, Len(d)) = d /\ Pad(d, Width) = d
    BY <1>1, <1>2, <1>5, Padded
  <2> QED BY <1>4, <2>1, <2>2 DEF _identifier, d
<1>6. CASE ~ (Width < Len(d))
  BY <1>4, <1>6 DEF Greatest, _identifier, d
<1> QED BY <1>5, <1>6

-----------------------------------------------------------------------------
(* The order of texts and the order of numbers *)

\* The two texts agree before i.
AgreeBefore(a, b, i) == \A j \in 1..(i - 1) : a[j] = b[j]

\* The first digit that differs decides.
LEMMA FirstDigitDecides ==
  ASSUME NEW a \in Seq(Digit), NEW b \in Seq(Digit), Len(a) = Len(b),
         NEW i \in 1..Len(a), AgreeBefore(a, b, i), a[i] < b[i]
  PROVE  Number(a) < Number(b)
<1> DEFINE T == {k \in Nat : k >= i /\ k <= Len(a) => Prefixes(a)[k] < Prefixes(b)[k]}
<1>1. /\ Len(a) \in Nat /\ i \in Nat /\ i >= 1 /\ i <= Len(a)
      /\ \A k \in 1..Len(a) : a[k] \in Digit /\ b[k] \in Digit
  BY LenProperties
<1>2. /\ \A k \in 1..Len(a) : Prefixes(a)[k] = Prefixes(a)[k - 1] * Base + a[k]
      /\ \A k \in 1..Len(a) : Prefixes(b)[k] = Prefixes(b)[k - 1] * Base + b[k]
  BY <1>1, PrefixesDef
<1>3. \A k \in 0..Len(a) : Prefixes(a)[k] \in Nat /\ Prefixes(b)[k] \in Nat
  BY PrefixesAreNumbers
<1>4. 0 \in T
  BY <1>1
<1>5. ASSUME NEW k \in Nat, k \in T PROVE k + 1 \in T
  <2>1. SUFFICES ASSUME k + 1 >= i, k + 1 <= Len(a)
                 PROVE  Prefixes(a)[k + 1] < Prefixes(b)[k + 1]
    OBVIOUS
  <2>2. PICK x, y, c, d : /\ x = Prefixes(a)[k] /\ y = Prefixes(b)[k]
                          /\ c = a[k + 1] /\ d = b[k + 1]
    OBVIOUS
  <2>3. k + 1 \in 1..Len(a) /\ (k + 1) - 1 = k /\ k \in 0..Len(a)
    BY <1>1, <2>1
  <2>4. Prefixes(a)[k + 1] = x * Base + c /\ Prefixes(b)[k + 1] = y * Base + d
    BY <1>2, <2>2, <2>3
  <2>5. x \in Nat /\ y \in Nat /\ c \in Digit /\ d \in Digit
    BY <1>1, <1>3, <2>2, <2>3
  <2>6. CASE k + 1 = i
    <3>1. x = y
      <4>1. k <= Len(b) /\ \A j \in 1..k : a[j] = b[j]
        BY <1>1, <2>1, <2>6 DEF AgreeBefore
      <4> QED BY <2>2, <2>3, <4>1, SamePrefix
    <3>2. c < d
      BY <2>2, <2>6
    <3> QED BY <2>4, <2>5, <3>1, <3>2, BaseAssumption DEF Digit
  <2>7. CASE k >= i
    <3>1. x < y
      BY <1>5, <2>1, <2>2, <2>3, <2>7
    <3>2. (x + 1) * Base <= y * Base
      BY <2>5, <3>1, BaseAssumption
    <3>3. (x + 1) * Base = x * Base + Base
      BY <2>5, BaseAssumption
    <3>4. x * Base \in Nat /\ y * Base \in Nat
      BY <2>5, BaseAssumption
    <3>5. PICK u \in Nat, v \in Nat : u = x * Base /\ v = y * Base
      BY <3>4
    <3>6. u + Base <= v
      BY <3>2, <3>3, <3>5
    <3>7. c \in Nat /\ d \in Nat /\ c < Base
      BY <2>5, BaseAssumption DEF Digit
    <3>8. u + c < v + d
      BY <3>6, <3>7, BaseAssumption
    <3> QED BY <2>4, <3>5, <3>8
  <2> QED BY <1>1, <2>1, <2>6, <2>7
<1>6. \A k \in Nat : k \in T
  <2> HIDE DEF T
  <2> QED BY <1>4, <1>5, EveryNumber
<1>7. Prefixes(a)[Len(a)] < Prefixes(b)[Len(a)]
  BY <1>1, <1>6
<1> QED BY <1>7 DEF Number

LEMMA FirstDifference ==
  ASSUME NEW a \in Seq(Digit), NEW b \in Seq(Digit), Len(a) = Len(b), a # b
  PROVE  \E i \in 1..Len(a) : AgreeBefore(a, b, i) /\ a[i] # b[i]
<1> DEFINE T == {i \in 1..Len(a) : a[i] # b[i]}
<1>1. T # {} /\ T \subseteq Nat /\ Len(a) \in Nat
  <2>1. \E i \in 1..Len(a) : a[i] # b[i]
    BY SeqEqual
  <2> QED BY <2>1, LenProperties
<1>2. PICK i \in T : \A j \in T : i <= j
  <2> HIDE DEF T
  <2> QED BY <1>1, LeastNumber
<1>3. \A j \in 1..(i - 1) : j \notin T
  BY <1>1, <1>2
<1> QED BY <1>1, <1>2, <1>3 DEF AgreeBefore

\* Of two texts of one length, the lesser number has the lesser first difference,
\* and equal numbers have none.
LEMMA OneLength ==
  ASSUME NEW a \in Seq(Digit), NEW b \in Seq(Digit), Len(a) = Len(b)
  PROVE  /\ Number(a) = Number(b) => a = b
         /\ Number(a) < Number(b) =>
              \E i \in 1..Len(a) : AgreeBefore(a, b, i) /\ a[i] < b[i]
<1>1. Number(a) \in Nat /\ Number(b) \in Nat
  BY NumberType
<1>2. SUFFICES ASSUME a # b
               PROVE  /\ Number(a) # Number(b)
                      /\ Number(a) < Number(b) =>
                           \E i \in 1..Len(a) : AgreeBefore(a, b, i) /\ a[i] < b[i]
  BY <1>1
<1>3. PICK i \in 1..Len(a) : AgreeBefore(a, b, i) /\ a[i] # b[i]
  BY <1>2, FirstDifference
<1>4. a[i] \in Int /\ b[i] \in Int /\ i \in 1..Len(b) /\ AgreeBefore(b, a, i)
  BY <1>3, LenProperties, BaseAssumption DEF Digit, AgreeBefore
<1>5. a[i] < b[i] => Number(a) < Number(b)
  BY <1>3, FirstDigitDecides
<1>6. b[i] < a[i] => Number(b) < Number(a)
  BY <1>3, <1>4, FirstDigitDecides
<1> QED BY <1>1, <1>3, <1>4, <1>5, <1>6

\* A text that does not begin with zero is beyond every shorter one.
LEMMA LongerIsGreater ==
  ASSUME NEW a \in Seq(Digit), NEW b \in Seq(Digit), Len(b) < Len(a), a[1] # 0
  PROVE  Number(b) < Number(a)
<1>1. PICK p : p = Pad(b, Len(a))
  OBVIOUS
<1>2. Len(a) \in Nat /\ Len(b) \in Nat
  BY LenProperties
<1>3. /\ p \in Seq(Digit) /\ Len(p) = Len(a) /\ Number(p) = Number(b)
      /\ \A i \in 1..(Len(p) - Len(b)) : p[i] = 0
  <2>1. Greatest(Len(a), Len(b)) = Len(a)
    BY <1>2 DEF Greatest
  <2>2. /\ p \in Seq(Digit) /\ Len(p) = Greatest(Len(a), Len(b))
        /\ \A i \in 1..(Len(p) - Len(b)) : p[i] = 0
    BY <1>1, <1>2, Padded
  <2>3. Number(p) = Number(b)
    BY <1>1, <1>2, PaddedNumber
  <2> QED BY <2>1, <2>2, <2>3
<1>4. p[1] = 0 /\ a[1] \in Digit /\ 1 \in 1..Len(p)
  BY <1>2, <1>3, LenProperties
<1>5. p[1] < a[1] /\ AgreeBefore(p, a, 1)
  BY <1>4, BaseAssumption DEF Digit, AgreeBefore
<1> QED BY <1>3, <1>4, <1>5, FirstDigitDecides

\* An identifier no longer than the width is the text of its number.
LEMMA ShortTexts ==
  ASSUME NEW id, IsText(id), Len(id) = Width
  PROVE  id = _identifier(Number(id))
<1> DEFINE text == _identifier(Number(id))
<1>1. id \in Seq(Digit) /\ Number(id) \in Nat
  BY NumberType DEF IsText, Digit
<1>2. /\ text \in Seq(Digit) /\ Len(text) >= Width /\ Number(text) = Number(id)
      /\ Len(text) > Width => text[1] # 0
  BY <1>1, IdentifierText DEF IsText, Digit
<1> HIDE DEF text
<1>3. Len(text) \in Nat /\ Width \in Nat
  BY <1>2, LenProperties, BaseAssumption
<1>4. ~ (Len(text) > Width)
  <2>1. SUFFICES ASSUME Len(text) > Width PROVE Number(id) < Number(text)
    BY <1>1, <1>2
  <2> QED BY <1>1, <1>2, <1>3, <2>1, LongerIsGreater
<1>5. Len(text) = Len(id)
  BY <1>2, <1>3, <1>4
<1>6. text = id
  BY <1>1, <1>2, <1>5, OneLength
<1> QED BY <1>6 DEF text

\* The texts of two numbers, which ORDER BY id compares, are in the order of the
\* numbers for as long as the greater one fits the width.
THEOREM TextsInOrder ==
  ASSUME NEW m \in Nat, NEW n \in Nat, m < n, Len(_identifier(n)) <= Width
  PROVE  Lexically(_identifier(m), _identifier(n))
<1>1. PICK a, b : a = _identifier(m) /\ b = _identifier(n)
  OBVIOUS
<1>2. /\ a \in Seq(Digit) /\ Len(a) >= Width /\ Number(a) = m /\ (Len(a) > Width => a[1] # 0)
      /\ b \in Seq(Digit) /\ Len(b) >= Width /\ Number(b) = n
  BY <1>1, IdentifierText DEF IsText, Digit
<1>3. Len(a) \in Nat /\ Len(b) \in Nat /\ Width \in Nat
  BY <1>2, LenProperties, BaseAssumption
<1>4. Len(b) = Width
  BY <1>1, <1>2, <1>3
<1>5. Len(a) = Width
  <2>1. SUFFICES ASSUME Len(a) > Width PROVE FALSE
    BY <1>2, <1>3
  <2>2. Number(b) < Number(a)
    BY <1>2, <1>3, <1>4, <2>1, LongerIsGreater
  <2> QED BY <1>2, <2>2
<1>6. PICK i \in 1..Len(a) : AgreeBefore(a, b, i) /\ a[i] < b[i]
  BY <1>2, <1>4, <1>5, OneLength
<1>7. i \in DOMAIN a \cap DOMAIN b
  BY <1>2, <1>4, <1>5, LenProperties
<1>8. SubSeq(a, 1, i - 1) = SubSeq(b, 1, i - 1)
  <2>1. /\ SubSeq(a, 1, i - 1) = [j \in 1..(i - 1) |-> a[j]]
        /\ SubSeq(b, 1, i - 1) = [j \in 1..(i - 1) |-> b[j]]
    BY <1>2, <1>3, <1>4, <1>5
  <2> QED BY <1>6, <2>1 DEF AgreeBefore
<1> QED BY <1>1, <1>6, <1>7, <1>8 DEF Lexically
===============================================================================
