----------------------------- MODULE FieldProofs -----------------------------
(***************************************************************************)
(* A field value holds, after any sequence of calls whose magnitudes are   *)
(* allowed, a number congruent to the one the calls should have computed,  *)
(* for every base and number of words, every prime of the assumed form and *)
(* every input.                                                            *)
(*                                                                         *)
(* The words never exceed what the magnitude says, so no column of a       *)
(* product overflows; folding what is above the top word subtracts a       *)
(* multiple of the prime; and the two passes of Normalize leave less.      *)
(***************************************************************************)
EXTENDS FieldVal, ArithmeticProofs

-----------------------------------------------------------------------------
(* The words of a field value.                                             *)

FP == CHOOSE pw : PowersOf(Base, 2 * NWords, pw)

LEMMA FieldNumbers ==
    /\ NWords \in Nat /\ NWords > 3 /\ Top = NWords - 1 /\ Top \in Nat /\ Top + 1 = NWords
    /\ 2 * NWords \in Nat
    /\ Base \in Nat /\ Base > 1 /\ MSBBase \in Nat \ {0} /\ TopFold \in Nat \ {0}
    /\ Base = MSBBase * TopFold /\ MSBBase <= Base
    /\ C0 \in 1..(Base - 1) /\ C1 \in 0..(Base - 2)
    /\ Words = 0..Top
<1>1. NWords \in Nat /\ NWords > 3 /\ C0 \in 1..(Base - 1) /\ C1 \in 0..(Base - 2)
  BY FieldAssumption
<1>2. Base \in Nat \ {0} /\ MSBBase \in Nat \ {0} /\ TopFold \in Nat \ {0}
      /\ Base = MSBBase * TopFold
  BY FieldPowerAssumption, Zenon
<1> DEFINE b == Base
           m == MSBBase
           t == TopFold
<1>3. b \in Nat \ {0} /\ m \in Nat \ {0} /\ t \in Nat \ {0} /\ b = m * t
      /\ C0 \in 1..(b - 1)
  BY <1>1, <1>2
<1> HIDE DEF b, m, t
<1>4. b > 1 /\ m <= b
  <2>1. m * t >= m
    BY <1>3
  <2> QED BY <1>3, <2>1
<1>5. Base > 1 /\ MSBBase <= Base
  BY <1>4 DEF b, m
<1> QED BY <1>1, <1>2, <1>5 DEF Words, Top

LEMMA FieldTable ==
    /\ PowerTable(Base, 2 * NWords, FP) /\ Weights(2 * NWords, FP) /\ FP[0] = 1
    /\ \A i \in 0..NWords : FieldPower(i) = FP[i]
    /\ Limit = FP[Top] * MSBBase /\ Limit \in Nat \ {0} /\ FP[NWords] = Limit * TopFold
<1>1. /\ NWords \in Nat /\ 2 * NWords \in Nat /\ Base \in Nat \ {0} /\ Top \in 0..(NWords - 1)
      /\ Top + 1 = NWords /\ MSBBase \in Nat \ {0} /\ TopFold \in Nat \ {0}
  BY FieldNumbers
<1>2. PowersOf(Base, 2 * NWords, FP)
  <2>1. \E pw : PowersOf(Base, 2 * NWords, pw)
    BY <1>1, PowersExist
  <2> QED BY <2>1, Zenon DEF FP
<1>3. PowerTable(Base, 2 * NWords, FP)
  BY <1>1, <1>2 DEF PowerTable
<1>4. Weights(2 * NWords, FP) /\ FP[0] = 1
  BY <1>3, PowersAre
<1> DEFINE S == {i \in 0..NWords : FieldPower(i) = FP[i]}
<1>5. S \subseteq 0..NWords /\ 0 \in S
  <2>1. 0 \in 0..NWords
    BY <1>1
  <2>2. FieldPower(0) = FP[0]
    BY <1>4, FieldPowerAssumption, Zenon
  <2> QED BY <2>1, <2>2
<1>6. ASSUME NEW m \in 0..(NWords - 1), m \in S PROVE m + 1 \in S
  <2>1. m \in Nat /\ m + 1 \in 0..NWords /\ m + 1 <= 2 * NWords /\ m \in Words
    BY <1>1 DEF Words
  <2>2. FP[m + 1] = FP[m] * Base
    BY <1>3, <2>1, PowerNext
  <2>3. FieldPower(m + 1) = FieldPower(m) * Base
    BY <2>1, FieldPowerAssumption, Zenon
  <2>4. FieldPower(m) = FP[m]
    BY <1>6
  <2>5. FieldPower(m + 1) = FP[m + 1]
    BY <2>2, <2>3, <2>4, Zenon
  <2> QED BY <2>1, <2>5
<1> HIDE DEF S
<1>7. \A m \in 0..NWords : m \in S
  BY <1>1, <1>5, <1>6, UpTo
<1>8. \A i \in 0..NWords : FieldPower(i) = FP[i]
  BY <1>7 DEF S
<1>9. Limit = FP[Top] * MSBBase
  <2>1. Top \in 0..NWords
    BY <1>1
  <2>2. FieldPower(Top) = FP[Top]
    BY <1>8, <2>1
  <2>3. Limit = FieldPower(Top) * MSBBase
    BY FieldPowerAssumption, Zenon
  <2> QED BY <2>2, <2>3, Zenon
<1> DEFINE p == FP[Top]
           h == MSBBase
           t == TopFold
           L == Limit
<1>10. p \in Nat \ {0}
  <2>1. Top \in 0..(2 * NWords)
    BY <1>1
  <2> QED BY <1>4, <2>1 DEF Weights
<1>11. FP[NWords] = p * Base /\ Base = h * t /\ h \in Nat \ {0} /\ t \in Nat \ {0} /\ L = p * h
  <2>1. Top + 1 <= 2 * NWords /\ Top \in Nat
    BY <1>1
  <2>2. FP[Top + 1] = p * Base
    BY <1>3, <2>1, PowerNext
  <2> QED BY <1>1, <1>9, <2>2, FieldNumbers
<1> HIDE DEF p, h, t, L
<1>12. L \in Nat \ {0} /\ p * (h * t) = (p * h) * t
  BY <1>10, <1>11
<1>13. FP[NWords] = L * t
  BY <1>11, <1>12, Zenon
<1> QED BY <1>3, <1>4, <1>8, <1>9, <1>12, <1>13 DEF L, t

\* Words are counted from 0, the places of a numeral from 1.
Up(n, w) == [i \in 1..n |-> w[i - 1]]
Num(w) == Worth(FP, NWords, Up(NWords, w))
WholeWords(w) == \A i \in Words : w[i] \in Int

LEMMA UpWhole ==
    ASSUME NEW w, WholeWords(w)
    PROVE  Whole(NWords, Up(NWords, w)) /\ Num(w) \in Int
<1>1. NWords \in Nat /\ NWords \in 0..(2 * NWords)
  BY FieldNumbers
<1>2. Whole(NWords, Up(NWords, w))
  <2>1. ASSUME NEW i \in 1..NWords PROVE i - 1 \in Words
    BY FieldNumbers
  <2> QED BY <2>1 DEF Whole, WholeWords, Up
<1>3. Weights(NWords, FP)
  BY <1>1, FieldTable, FieldNumbers, WeightsFrom
<1> QED BY <1>1, <1>2, <1>3, WorthNumeral DEF Num

LEMMA NumNext ==
    ASSUME NEW w, WholeWords(w), NEW n \in 0..Top
    PROVE  /\ Worth(FP, n + 1, Up(NWords, w)) = Worth(FP, n, Up(NWords, w)) + w[n] * FP[n]
           /\ Worth(FP, n, Up(NWords, w)) \in Int /\ w[n] \in Int /\ FP[n] \in Nat \ {0}
<1>1. n \in Nat /\ n + 1 \in 0..NWords /\ n + 1 \in 1..NWords /\ n + 1 \in 0..(2 * NWords)
      /\ NWords \in Nat /\ (n + 1) - 1 = n /\ 2 * NWords \in Nat
  BY FieldNumbers
<1>2. Whole(n + 1, Up(NWords, w)) /\ Weights(n + 1, FP)
  BY <1>1, UpWhole, FieldTable, WholeFrom, WeightsFrom
<1>3. Up(NWords, w)[n + 1] = w[n]
  BY <1>1 DEF Up
<1> DEFINE x == Up(NWords, w)
<1>4. /\ Worth(FP, n + 1, x) = Worth(FP, n, x) + x[n + 1] * FP[n]
      /\ Worth(FP, n, x) \in Int /\ x[n + 1] \in Int /\ FP[n] \in Nat \ {0}
  BY <1>1, <1>2, WorthNext
<1> QED BY <1>3, <1>4

LEMMA ValueIs ==
    ASSUME NEW w, WholeWords(w)
    PROVE  Value(w) = Num(w)
<1> DEFINE n == NWords
           Rec(u) == u = [i \in 0..n |-> IF i = 0 THEN 0 ELSE u[i - 1] + w[i - 1] * FieldPower(i - 1)]
           u == CHOOSE u : Rec(u)
           Part(i) == Worth(FP, i, Up(NWords, w))
           g == [i \in 0..n |-> Part(i)]
<1>1. n \in Nat /\ 0 \in 0..n /\ n \in 0..n
  BY FieldNumbers
<1>2. Value(w) = u[n]
  BY Zenon DEF Value
<1>3. Part(0) = 0
  BY WorthNone, FieldTable
<1>4. ASSUME NEW m \in 0..(n - 1)
      PROVE  Part(m + 1) = Part(m) + w[m] * FieldPower(m)
  <2>1. m \in 0..Top /\ m \in 0..n
    BY <1>1, FieldNumbers
  <2>2. Part(m + 1) = Part(m) + w[m] * FP[m]
    BY <2>1, NumNext
  <2>3. FieldPower(m) = FP[m]
    BY <2>1, FieldTable
  <2> QED BY <2>2, <2>3, Zenon
<1> HIDE DEF Part
<1>5. Rec(g)
  <2> DEFINE h == [i \in 0..n |-> IF i = 0 THEN 0 ELSE g[i - 1] + w[i - 1] * FieldPower(i - 1)]
  <2>1. ASSUME NEW i \in 0..n PROVE g[i] = h[i]
    <3>1. CASE i = 0
      BY <1>1, <1>3, <3>1
    <3>2. CASE i # 0
      <4>1. i - 1 \in 0..(n - 1) /\ (i - 1) + 1 = i /\ i - 1 \in 0..n
        BY <1>1, <3>2
      <4>2. Part((i - 1) + 1) = Part(i - 1) + w[i - 1] * FieldPower(i - 1)
        BY <1>4, <4>1
      <4>3. h[i] = Part(i - 1) + w[i - 1] * FieldPower(i - 1) /\ g[i] = Part(i)
        BY <3>2, <4>1, Zenon
      <4> HIDE DEF g, h
      <4> QED BY <4>1, <4>2, <4>3, Zenon
    <3> QED BY <3>1, <3>2
  <2>2. g = [i \in 0..n |-> g[i]]
    BY Zenon
  <2>3. h = [i \in 0..n |-> h[i]]
    <3> HIDE DEF g
    <3> QED BY Zenon
  <2>4. g = h
    <3> HIDE DEF g, h
    <3> QED BY <2>1, <2>2, <2>3, Zenon
  <2> QED BY <2>4
<1>6. Rec(u)
  BY <1>5, Zenon
<1>7. ASSUME NEW i \in 0..n
      PROVE u[i] = IF i = 0 THEN 0 ELSE u[i - 1] + w[i - 1] * FieldPower(i - 1)
  <2> HIDE DEF u
  <2> QED BY <1>6, Zenon
<1> HIDE DEF u
<1> DEFINE S == {i \in 0..n : u[i] = Part(i)}
<1>8. S \subseteq 0..n /\ 0 \in S
  BY <1>1, <1>3, <1>7
<1>9. ASSUME NEW m \in 0..(n - 1), m \in S PROVE m + 1 \in S
  <2>1. m + 1 \in 0..n /\ m + 1 # 0 /\ (m + 1) - 1 = m
    BY <1>1
  <2>2. u[m + 1] = u[(m + 1) - 1] + w[(m + 1) - 1] * FieldPower((m + 1) - 1)
    BY <1>7, <2>1, Zenon
  <2>3. u[m] = Part(m)
    BY <1>9
  <2>4. u[m + 1] = Part(m + 1)
    BY <1>4, <2>1, <2>2, <2>3, Zenon
  <2> QED BY <2>1, <2>4
<1> HIDE DEF S
<1>10. \A m \in 0..n : m \in S
  BY <1>1, <1>8, <1>9, UpTo
<1>11. n \in S
  BY <1>1, <1>10
<1> QED BY <1>2, <1>11 DEF S, Num, Part

\* Words below their bases stand for the numbers below Limit.
FieldWordy(w) == w \in [Words -> Nat] /\ \A i \in Words : w[i] \in 0..(WordBase(i) - 1)

LEMMA WordyUp ==
    ASSUME NEW w, FieldWordy(w)
    PROVE  /\ Digital(NWords, Base, Up(NWords, w)) /\ Digital(Top, Base, Up(NWords, w))
           /\ WholeWords(w) /\ w[Top] \in 0..(MSBBase - 1)
<1>1. \A i \in Words : w[i] \in Int
  BY DEF FieldWordy
<1>2. w[Top] \in 0..(MSBBase - 1)
  <2>1. Top \in Words
    BY FieldNumbers
  <2> QED BY <2>1 DEF FieldWordy, WordBase
<1>3. ASSUME NEW i \in 1..NWords PROVE Up(NWords, w)[i] \in 0..(Base - 1)
  <2>1. i - 1 \in Words
    BY FieldNumbers
  <2>2. w[i - 1] \in 0..(WordBase(i - 1) - 1)
    BY <2>1 DEF FieldWordy
  <2>3. w[i - 1] \in 0..(Base - 1)
    BY <2>2, FieldNumbers DEF WordBase
  <2> QED BY <2>3 DEF Up
<1>4. \A i \in 1..Top : i \in 1..NWords
  BY FieldNumbers
<1> QED BY <1>1, <1>2, <1>3, <1>4 DEF Digital, WholeWords

LEMMA PackedIs ==
    ASSUME NEW n \in Nat
    PROVE  /\ FieldWordy(Packed(n))
           /\ n < Limit => Num(Packed(n)) = n
           /\ Packed(n)[0] = n % Base
<1> DEFINE w == Packed(n)
           p == FP[Top]
<1>1. /\ Top \in 0..(2 * NWords) /\ Top \in 0..NWords /\ Top \in Nat /\ Top <= 2 * NWords
      /\ Top \in Words /\ Top \in 0..Top /\ 0 \in Words /\ 0 # Top
      /\ Base \in Nat \ {0} /\ MSBBase \in Nat \ {0}
  BY FieldNumbers
<1>2. p \in Nat \ {0} /\ Limit = p * MSBBase
  BY <1>1, FieldTable DEF Weights
<1>3. ASSUME NEW i \in Words
      PROVE  w[i] = (n \div FP[i]) % WordBase(i) /\ w[i] \in 0..(WordBase(i) - 1)
  <2>1. i \in 0..NWords /\ i \in 0..(2 * NWords)
    BY FieldNumbers
  <2> DEFINE q == FP[i]
             u == WordBase(i)
             d == n \div q
  <2>2. q \in Nat \ {0} /\ FieldPower(i) = q
    BY <2>1, FieldTable DEF Weights
  <2>3. u \in Nat \ {0}
    BY <1>1 DEF WordBase
  <2>4. w[i] = (n \div FieldPower(i)) % u
    BY DEF Packed
  <2> HIDE DEF q, u
  <2>5. d \in Int
    BY <2>2, DivMod
  <2>6. w[i] = d % u
    BY <2>2, <2>4
  <2> HIDE DEF d, w
  <2>7. d % u \in 0..(u - 1)
    BY <2>3, <2>5, DivMod
  <2> QED BY <2>6, <2>7 DEF d, u, q
<1>4. w \in [Words -> Nat]
  <2>1. \A i \in Words : WordBase(i) \in Nat
    BY <1>1 DEF WordBase
  <2>2. \A i \in Words : w[i] \in Nat
    BY <1>3, <2>1
  <2>3. w = [i \in Words |-> w[i]]
    BY DEF Packed
  <2> HIDE DEF w
  <2> QED BY <2>2, <2>3
<1>5. FieldWordy(w)
  BY <1>3, <1>4 DEF FieldWordy
<1>6. w[0] = n % Base
  <2>1. w[0] = (n \div FP[0]) % WordBase(0)
    BY <1>1, <1>3
  <2>2. FP[0] = 1 /\ WordBase(0) = Base /\ n \div 1 = n
    BY <1>1, FieldTable DEF WordBase
  <2> HIDE DEF w
  <2> QED BY <2>1, <2>2, Zenon
<1>7. ASSUME n < Limit PROVE Num(w) = n
  <2> DEFINE x == Up(NWords, w)
  <2>1. DigitsOf(Base, FP, Top, n, x)
    <3> SUFFICES ASSUME NEW i \in 1..Top PROVE x[i] = (n \div FP[i - 1]) % Base
      BY DEF DigitsOf
    <3>1. i - 1 \in Words /\ i - 1 # Top /\ i \in 1..NWords
      BY FieldNumbers
    <3>2. w[i - 1] = (n \div FP[i - 1]) % WordBase(i - 1) /\ WordBase(i - 1) = Base
      BY <1>3, <3>1 DEF WordBase
    <3>3. x[i] = w[i - 1]
      BY <3>1 DEF Up
    <3> HIDE DEF x, w
    <3> QED BY <3>2, <3>3, Zenon
  <2>2. PowerTable(Base, 2 * NWords, FP)
    BY FieldTable
  <2>3. Worth(FP, Top, x) = n % p
    BY <1>1, <2>1, <2>2, WorthDigitsOf
  <2> DEFINE h == w[Top]
             d == n \div p
             r == n % p
  <2>4. Worth(FP, Top + 1, x) = Worth(FP, Top, x) + h * p
    <3>1. WholeWords(w)
      BY <1>5, WordyUp
    <3> HIDE DEF w
    <3> QED BY <1>1, <3>1, NumNext
  <2>5. h = d % MSBBase
    BY <1>1, <1>3 DEF WordBase
  <2> DEFINE m == MSBBase
  <2>6. m \in Nat \ {0} /\ Limit = p * m /\ h = d % m
    BY <1>1, <1>2, <2>5
  <2> HIDE DEF p, h, m
  <2>7. d \in Int /\ r \in 0..(p - 1) /\ n = d * p + r
    BY <1>2, DivMod
  <2> HIDE DEF d, r
  <2>8. d \in 0..(m - 1)
    <3>1. d >= 0
      <4> SUFFICES ASSUME d <= -1 PROVE FALSE
        BY <2>7
      <4>1. d * p <= -p
        BY <1>2, <2>7
      <4>2. d * p \in Int
        BY <1>2, <2>7
      <4> QED BY <1>2, <2>7, <4>1, <4>2
    <3>2. d < m
      <4> SUFFICES ASSUME d >= m PROVE FALSE
        BY <2>6, <2>7
      <4>1. d * p >= m * p /\ d * p \in Int /\ m * p = p * m /\ m * p \in Int
        BY <1>2, <2>6, <2>7
      <4> QED BY <1>2, <1>7, <2>6, <2>7, <4>1
    <3> QED BY <2>6, <2>7, <3>1, <3>2
  <2>9. h = d
    BY <2>6, <2>8, ModSmall
  <2>10. Worth(FP, Top + 1, x) = n
    <3>1. d * p \in Int
      BY <1>2, <2>7
    <3>2. Worth(FP, Top + 1, x) = r + d * p
      BY <2>3, <2>4, <2>9, Zenon DEF r
    <3> QED BY <1>2, <2>7, <3>1, <3>2
  <2> QED BY <2>10, FieldNumbers DEF Num
<1> HIDE DEF w
<1> QED BY <1>5, <1>6, <1>7 DEF w

LEMMA WordyIs ==
    ASSUME NEW w, FieldWordy(w)
    PROVE  Num(w) \in 0..(Limit - 1) /\ w = Packed(Num(w))
<1> DEFINE p == FP[Top]
           h == w[Top]
           m == MSBBase
           A == Worth(FP, Top, Up(NWords, w))
           n == Num(w)
<1>1. /\ Top \in 0..(2 * NWords) /\ Top \in Nat /\ Top <= 2 * NWords /\ Top \in 0..Top
      /\ NWords \in Nat /\ NWords <= 2 * NWords /\ Top + 1 = NWords /\ m \in Nat \ {0}
  BY FieldNumbers
<1>2. p \in Nat \ {0} /\ Limit = p * m
  BY <1>1, FieldTable DEF Weights
<1>3. n = A + h * p
  BY <1>1, WordyUp, NumNext DEF Num
<1>4. A \in 0..(p - 1) /\ h \in 0..(m - 1)
  BY <1>1, FieldTable, WordyUp, WorthBound
<1> HIDE DEF p, h, m, A, n
<1>5. n \in 0..(p * m - 1)
  <2>1. h * p >= 0 /\ h * p <= (m - 1) * p /\ h * p \in Int
    BY <1>1, <1>2, <1>4
  <2>2. (m - 1) * p = p * m - p /\ p * m \in Int
    BY <1>1, <1>2
  <2> QED BY <1>1, <1>2, <1>3, <1>4, <2>1, <2>2
<1>6. n \in Nat /\ n < Limit
  BY <1>1, <1>2, <1>5
<1> DEFINE u == Packed(n)
<1>7. FieldWordy(u) /\ Num(u) = n
  BY <1>6, PackedIs
<1> HIDE DEF u
<1>8. \A i \in 1..NWords : Up(NWords, w)[i] = Up(NWords, u)[i]
  <2>1. Digital(NWords, Base, Up(NWords, w)) /\ Digital(NWords, Base, Up(NWords, u))
    BY <1>7, WordyUp
  <2>2. Worth(FP, NWords, Up(NWords, w)) = Worth(FP, NWords, Up(NWords, u))
    BY <1>7 DEF Num, n
  <2>3. PowerTable(Base, 2 * NWords, FP)
    BY FieldTable
  <2> HIDE DEF n
  <2> QED BY <1>1, <2>1, <2>2, <2>3, WorthUnique
<1>9. ASSUME NEW i \in Words PROVE w[i] = u[i]
  <2>1. i + 1 \in 1..NWords /\ (i + 1) - 1 = i
    BY FieldNumbers
  <2>2. Up(NWords, w)[i + 1] = w[i] /\ Up(NWords, u)[i + 1] = u[i]
    BY <2>1 DEF Up
  <2> QED BY <1>8, <2>1, <2>2
<1>10. w = u
  <2>1. w = [i \in Words |-> w[i]] /\ u = [i \in Words |-> u[i]]
    BY <1>7 DEF FieldWordy
  <2> QED BY <1>9, <2>1, Zenon
<1> QED BY <1>2, <1>5, <1>10 DEF u, n

\* The words of the prime.
Prime == [i \in Words |-> PrimeWord(i)]

LEMMA SmallPowers ==
    /\ FP[1] = Base /\ FP[2] = Base * Base /\ FP[2] \in Nat \ {0}
    /\ Limit >= 2 * FP[2] /\ Limit >= FP[2] * Base
<1>1. Base \in Nat /\ Base > 1 /\ MSBBase \in Nat \ {0} /\ Top >= 3 /\ Top \in Nat
      /\ 2 * NWords \in Nat /\ Top - 3 \in Nat /\ 2 * NWords >= 3 /\ 3 + (Top - 3) = Top
      /\ 3 + (Top - 3) <= 2 * NWords
  BY FieldNumbers
<1>2. PowerTable(Base, 2 * NWords, FP) /\ FP[0] = 1 /\ Limit = FP[Top] * MSBBase
  BY FieldTable
<1> DEFINE b == Base
<1>3. FP[1] = b
  <2>1. FP[0 + 1] = FP[0] * b /\ 0 + 1 = 1
    BY <1>1, <1>2, PowerNext
  <2>2. 1 * b = b
    BY <1>1
  <2> QED BY <1>2, <2>1, <2>2
<1>4. FP[2] = b * b
  <2>1. FP[1 + 1] = FP[1] * b /\ 1 + 1 = 2
    BY <1>1, <1>2, PowerNext
  <2> QED BY <1>3, <2>1
<1>5. FP[3] = (b * b) * b
  <2>1. FP[2 + 1] = FP[2] * b /\ 2 + 1 = 3
    BY <1>1, <1>2, PowerNext
  <2> QED BY <1>4, <2>1
<1> DEFINE p == FP[Top]
           q == FP[Top - 3]
           m == MSBBase
           c == b * b
<1>6. p = FP[3] * q /\ q \in Nat \ {0}
  <2>1. FP[3 + (Top - 3)] = FP[3] * FP[Top - 3] /\ FP[Top - 3] \in Nat \ {0}
    BY <1>1, <1>2, PowersAdd
  <2> QED BY <1>1, <2>1
<1>7. p = (c * b) * q /\ q \in Nat \ {0} /\ Limit = p * m /\ m \in Nat \ {0} /\ b \in Nat /\ b > 1
      /\ c \in Nat \ {0}
  <2>1. b * b \in Nat \ {0}
    BY <1>1
  <2> QED BY <1>1, <1>2, <1>5, <1>6, <2>1
<1>8. FP[2] = c
  BY <1>4
<1> HIDE DEF b, p, q, m, c
<1>9. c * b >= 2 * c /\ c * b \in Nat
  BY <1>7
<1> DEFINE d == c * b
<1>10. d >= 2 * c /\ d \in Nat /\ p = d * q
  BY <1>7, <1>9
<1> HIDE DEF d
<1>11. d * q >= d /\ d * q \in Nat
  BY <1>7, <1>10
<1>12. p >= d /\ p \in Nat
  BY <1>10, <1>11
<1>13. p * m >= p /\ p * m \in Nat
  BY <1>7, <1>12
<1>14. Limit >= 2 * c /\ Limit >= d
  BY <1>7, <1>10, <1>12, <1>13
<1>15. d = FP[2] * b
  BY <1>8 DEF d
<1> QED BY <1>3, <1>4, <1>7, <1>8, <1>14, <1>15 DEF b

LEMMA PrimeBounds ==
    /\ PMinus \in Nat \ {0} /\ PMinus < FP[2] /\ P \in Nat \ {0} /\ P + PMinus = Limit
    /\ P > FP[2] /\ P < Limit /\ Limit \in Nat
<1> DEFINE b == Base
           k == FP[2]
           e == C1 * b
<1>1. b \in Nat /\ b > 1 /\ C0 \in 1..(b - 1) /\ C1 \in 0..(b - 2)
  BY FieldNumbers
<1>2. k = b * b /\ k \in Nat \ {0} /\ Limit >= 2 * k
  BY SmallPowers
<1>3. PMinus = e + C0 /\ P = Limit - PMinus
  BY DEF PMinus, P
<1>4. Limit \in Nat
  BY FieldTable
<1>5. e >= 0 /\ e <= (b - 2) * b /\ (b - 2) * b = b * b - 2 * b /\ e \in Int /\ b * b \in Int
  <2> HIDE DEF b
  <2> QED BY <1>1
<1> HIDE DEF b, k, e
<1>6. PMinus \in Nat \ {0} /\ PMinus < k
  BY <1>1, <1>2, <1>3, <1>5
<1>7. P \in Nat \ {0} /\ P + PMinus = Limit /\ P > k /\ P < Limit
  <2> DEFINE L == Limit
             M == PMinus
             Q == P
  <2>1. L \in Nat /\ L >= 2 * k /\ Q = L - M /\ M \in Nat \ {0} /\ M < k /\ k \in Nat \ {0}
    BY <1>2, <1>3, <1>4, <1>6
  <2> HIDE DEF L, M, Q
  <2>2. Q \in Nat \ {0} /\ Q + M = L /\ Q > k /\ Q < L
    BY <2>1
  <2> QED BY <2>2 DEF L, M, Q
<1> QED BY <1>4, <1>6, <1>7 DEF k

LEMMA PrimeIs ==
    FieldWordy(Prime) /\ Num(Prime) = P /\ Prime = Packed(P)
<1> DEFINE b == Base
           x == Up(NWords, Prime)
           Part(n) == Worth(FP, n, x)
<1>1. /\ NWords \in Nat /\ NWords > 3 /\ Top = NWords - 1 /\ Top \in Nat /\ Top + 1 = NWords
      /\ b \in Nat /\ b > 1 /\ MSBBase \in Nat \ {0} /\ C0 \in 1..(b - 1) /\ C1 \in 0..(b - 2)
      /\ Words = 0..Top
  BY FieldNumbers
<1>2. ASSUME NEW i \in Words
      PROVE  /\ Prime[i] \in 0..(WordBase(i) - 1)
             /\ Prime[i] = PrimeWord(i)
  <2>1. Prime[i] = PrimeWord(i)
    BY DEF Prime
  <2>2. PrimeWord(i) \in 0..(WordBase(i) - 1)
    <3>1. CASE i = 0
      <4>1. PrimeWord(i) = b - C0 /\ WordBase(i) = b
        BY <1>1, <3>1 DEF PrimeWord, WordBase
      <4> HIDE DEF b
      <4> QED BY <1>1, <4>1
    <3>2. CASE i = 1
      <4>1. PrimeWord(i) = b - 1 - C1 /\ WordBase(i) = b
        BY <1>1, <3>2 DEF PrimeWord, WordBase
      <4> HIDE DEF b
      <4> QED BY <1>1, <4>1
    <3>3. CASE i = Top
      <4>1. PrimeWord(i) = MSBBase - 1 /\ WordBase(i) = MSBBase
        BY <1>1, <3>3 DEF PrimeWord, WordBase
      <4> QED BY <1>1, <4>1
    <3>4. CASE i # 0 /\ i # 1 /\ i # Top
      <4>1. PrimeWord(i) = b - 1 /\ WordBase(i) = b
        BY <1>1, <3>4 DEF PrimeWord, WordBase
      <4> HIDE DEF b
      <4> QED BY <1>1, <4>1
    <3> QED BY <3>1, <3>2, <3>3, <3>4
  <2> QED BY <2>1, <2>2
<1>3. FieldWordy(Prime)
  <2>1. \A i \in Words : Prime[i] \in Nat
    BY <1>1, <1>2 DEF WordBase
  <2>2. Prime \in [Words -> Nat]
    BY <1>2, <2>1 DEF Prime
  <2> QED BY <1>2, <2>2 DEF FieldWordy
<1>4. WholeWords(Prime)
  BY <1>3, WordyUp
<1> DEFINE S == {n \in 0..(Top - 2) : Part(n + 2) = FP[n + 2] - PMinus}
<1>5. S \subseteq 0..(Top - 2) /\ 0 \in S
  <2>1. 0 \in 0..Top /\ 1 \in 0..Top /\ 0 \in Words /\ 1 \in Words /\ 1 # 0 /\ 1 # Top
        /\ 0 \in 0..(Top - 2)
    BY <1>1
  <2>2. Part(0 + 1) = Part(0) + Prime[0] * FP[0]
    BY <1>4, <2>1, NumNext
  <2>3. Part(1 + 1) = Part(1) + Prime[1] * FP[1]
    BY <1>4, <2>1, NumNext
  <2>4. Part(0) = 0 /\ FP[0] = 1 /\ FP[1] = b /\ FP[2] = b * b
    BY WorthNone, FieldTable, SmallPowers
  <2>5. Prime[0] = b - C0 /\ Prime[1] = b - 1 - C1
    <3>1. PrimeWord(0) = b - C0 /\ PrimeWord(1) = b - 1 - C1
      BY <2>1 DEF PrimeWord
    <3> QED BY <1>2, <2>1, <3>1
  <2> HIDE DEF Part
  <2> DEFINE c0 == C0
             c1 == C1
  <2>6. Part(1) = b - c0
    <3>1. Part(1) = 0 + (b - c0) * 1
      BY <2>2, <2>4, <2>5
    <3> QED BY <1>1, <3>1
  <2>7. Part(2) = (b - c0) + (b - 1 - c1) * b
    BY <2>3, <2>4, <2>5, <2>6
  <2>8. c0 \in Int /\ c1 \in Int /\ b \in Int
    BY <1>1
  <2>9. PMinus = c1 * b + c0
    BY DEF PMinus
  <2> HIDE DEF b, c0, c1
  <2>10. (b - 1 - c1) * b = b * b - b - c1 * b /\ b * b \in Int /\ c1 * b \in Int
    BY <2>8
  <2>11. Part(2) = FP[2] - PMinus
    BY <2>4, <2>7, <2>8, <2>9, <2>10
  <2> QED BY <2>1, <2>11
<1>6. ASSUME NEW n \in 0..(Top - 3), n \in S PROVE n + 1 \in S
  <2>1. n + 2 \in 0..Top /\ n + 2 # Top /\ n + 2 # 0 /\ n + 2 # 1 /\ n + 2 \in Words
        /\ n + 1 \in 0..(Top - 2) /\ (n + 2) + 1 = (n + 1) + 2 /\ n + 2 \in Nat
        /\ (n + 2) + 1 <= 2 * NWords
    BY <1>1
  <2> DEFINE k == n + 2
             p == FP[k]
  <2>2. Part(k + 1) = Part(k) + Prime[k] * p /\ p \in Nat \ {0}
    BY <1>4, <2>1, NumNext
  <2>3. Prime[k] = b - 1
    <3>1. PrimeWord(k) = b - 1
      BY <2>1 DEF PrimeWord
    <3> QED BY <1>2, <2>1, <3>1
  <2>4. FP[k + 1] = p * b
    BY <2>1, FieldTable, PowerNext
  <2>5. Part(k) = p - PMinus /\ PMinus \in Int
    BY <1>6, PrimeBounds
  <2>6. b \in Int
    BY <1>1
  <2> HIDE DEF Part, p, k, b
  <2>7. (b - 1) * p = p * b - p /\ p * b \in Int
    BY <2>2, <2>6
  <2>8. Part(k + 1) = (p - PMinus) + (b - 1) * p
    BY <2>2, <2>3, <2>5
  <2>9. Part(k + 1) = FP[k + 1] - PMinus
    BY <2>2, <2>4, <2>5, <2>7, <2>8
  <2>10. Part((n + 1) + 2) = FP[(n + 1) + 2] - PMinus
    BY <2>1, <2>9 DEF k
  <2> QED BY <2>1, <2>10
<1> DEFINE p == FP[Top]
           m == MSBBase
<1>7. Part(Top) = p - PMinus
  <2> HIDE DEF S
  <2>1. Top - 2 \in Nat /\ (Top - 2) - 1 = Top - 3 /\ (Top - 2) + 2 = Top /\ Top - 2 \in 0..(Top - 2)
    BY <1>1
  <2>2. \A n \in 0..((Top - 2) - 1) : n \in S => n + 1 \in S
    BY <1>6, <2>1
  <2>3. \A n \in 0..(Top - 2) : n \in S
    BY <1>5, <2>1, <2>2, UpTo
  <2>4. Top - 2 \in S
    BY <2>1, <2>3
  <2>5. Part((Top - 2) + 2) = FP[(Top - 2) + 2] - PMinus
    BY <2>4 DEF S
  <2> QED BY <2>1, <2>5
<1>8. Part(Top + 1) = Part(Top) + (m - 1) * p /\ p \in Nat \ {0}
  <2>1. Top \in 0..Top /\ Top \in Words /\ Top # 0 /\ Top # 1
    BY <1>1
  <2>2. Part(Top + 1) = Part(Top) + Prime[Top] * p /\ p \in Nat \ {0}
    BY <1>4, <2>1, NumNext
  <2>3. Prime[Top] = m - 1
    <3>1. PrimeWord(Top) = m - 1
      BY <2>1 DEF PrimeWord
    <3> QED BY <1>2, <2>1, <3>1
  <2> QED BY <2>2, <2>3
<1>9. m \in Int /\ PMinus \in Int /\ Limit = p * m /\ P = Limit - PMinus
  BY <1>1, FieldTable, PrimeBounds DEF P
<1>10. Num(Prime) = Part(Top + 1)
  BY <1>1 DEF Num
<1> DEFINE M == PMinus
           L == Limit
<1>11. /\ Num(Prime) = (p - M) + (m - 1) * p /\ p \in Nat \ {0} /\ m \in Int /\ M \in Int
       /\ L = p * m /\ P = L - M
  BY <1>7, <1>8, <1>9, <1>10
<1> HIDE DEF p, m, M, L
<1>12. (m - 1) * p = p * m - p /\ p * m \in Int
  BY <1>11
<1>13. Num(Prime) = P
  BY <1>11, <1>12
<1>14. Prime = Packed(P)
  BY <1>3, <1>13, WordyIs
<1> QED BY <1>3, <1>13, <1>14

\* Words are compared as the numbers are.
FieldAbove(v, w) == \E i \in Words : (\A j \in Words : j > i => v[j] = w[j]) /\ v[i] > w[i]

LEMMA WordsCompare ==
    ASSUME NEW v, FieldWordy(v), NEW w, FieldWordy(w)
    PROVE  /\ Num(v) > Num(w) <=> FieldAbove(v, w)
           /\ Num(v) = Num(w) <=> \A i \in Words : v[i] = w[i]
<1> DEFINE x == Up(NWords, v)
           y == Up(NWords, w)
<1>1. Above(NWords, x, y) <=> Num(v) > Num(w)
  <2>1. Digital(NWords, Base, x) /\ Digital(NWords, Base, y) /\ PowerTable(Base, 2 * NWords, FP)
        /\ NWords \in Nat /\ NWords <= 2 * NWords
    BY WordyUp, FieldTable, FieldNumbers
  <2>2. Above(NWords, x, y) <=> Worth(FP, NWords, x) > Worth(FP, NWords, y)
    BY <2>1, WorthCompare
  <2> QED BY <2>2 DEF Num
<1>2. \A i \in 1..NWords : x[i] = v[i - 1] /\ y[i] = w[i - 1] /\ i - 1 \in Words
  BY FieldNumbers DEF Up
<1>3. \A i \in Words : /\ i + 1 \in 1..NWords /\ x[i + 1] = v[i] /\ y[i + 1] = w[i]
  <2> SUFFICES ASSUME NEW i \in Words
               PROVE  i + 1 \in 1..NWords /\ x[i + 1] = v[i] /\ y[i + 1] = w[i]
    OBVIOUS
  <2>1. i + 1 \in 1..NWords /\ (i + 1) - 1 = i
    BY FieldNumbers
  <2> QED BY <1>2, <2>1
<1> HIDE DEF x, y
<1>4. ASSUME Above(NWords, x, y) PROVE FieldAbove(v, w)
  <2>1. PICK i \in 1..NWords : (\A j \in 1..NWords : j > i => x[j] = y[j]) /\ x[i] > y[i]
    BY <1>4 DEF Above
  <2>2. i - 1 \in Words /\ v[i - 1] > w[i - 1]
    BY <1>2, <2>1
  <2>3. ASSUME NEW j \in Words, j > i - 1 PROVE v[j] = w[j]
    <3>1. j + 1 \in 1..NWords /\ j + 1 > i
      BY <1>3, <2>3, FieldNumbers
    <3>2. x[j + 1] = y[j + 1]
      BY <2>1, <3>1
    <3> QED BY <1>3, <3>2
  <2> QED BY <2>2, <2>3 DEF FieldAbove
<1>5. ASSUME FieldAbove(v, w) PROVE Above(NWords, x, y)
  <2>1. PICK i \in Words : (\A j \in Words : j > i => v[j] = w[j]) /\ v[i] > w[i]
    BY <1>5 DEF FieldAbove
  <2>2. i + 1 \in 1..NWords /\ x[i + 1] > y[i + 1]
    BY <1>3, <2>1
  <2>3. ASSUME NEW j \in 1..NWords, j > i + 1 PROVE x[j] = y[j]
    <3>1. j - 1 \in Words /\ j - 1 > i
      BY <1>2, <2>3, FieldNumbers
    <3>2. v[j - 1] = w[j - 1]
      BY <2>1, <3>1
    <3> QED BY <1>2, <3>2
  <2> QED BY <2>2, <2>3 DEF Above
<1>6. ASSUME \A i \in Words : v[i] = w[i] PROVE v = w
  <2>1. v = [i \in Words |-> v[i]] /\ w = [i \in Words |-> w[i]]
    BY DEF FieldWordy
  <2> QED BY <1>6, <2>1, Zenon
<1>7. ASSUME Num(v) = Num(w) PROVE v = w
  <2>1. v = Packed(Num(v)) /\ w = Packed(Num(w))
    BY WordyIs
  <2> QED BY <1>7, <2>1, Zenon
<1> QED BY <1>1, <1>4, <1>5, <1>6, <1>7

\* The bytes of a number.
BP == CHOOSE pw : PowersOf(ByteBase, Bytes, pw)

LEMMA ByteTable ==
    /\ Bytes \in Nat /\ ByteBase \in Nat \ {0}
    /\ PowerTable(ByteBase, Bytes, BP) /\ Weights(Bytes, BP) /\ BP[0] = 1 /\ BP[Bytes] = Limit
    /\ \A i \in 0..Bytes : BytePower(i) = BP[i]
<1>1. Bytes \in Nat
  <2> DEFINE n == Bits
             d == ByteBits
  <2>1. n \in Nat /\ d \in Nat \ {0}
    <3>1. FieldBase \in Nat /\ MSBBits \in Nat /\ NWords - 1 \in Nat /\ ByteBits \in Nat \ {0}
      BY FieldAssumption
    <3>2. FieldBase * (NWords - 1) \in Nat
      BY <3>1
    <3> QED BY <3>1, <3>2 DEF Bits
  <2> HIDE DEF n, d
  <2>2. n \div d \in Nat
    BY <2>1
  <2> QED BY <2>2 DEF n, d, Bytes
<1>2. ByteBase \in Nat \ {0} /\ BytePower(0) = 1 /\ BytePower(Bytes) = Limit
  BY FieldPowerAssumption, Zenon
<1>3. PowersOf(ByteBase, Bytes, BP)
  <2>1. \E pw : PowersOf(ByteBase, Bytes, pw)
    BY <1>1, <1>2, PowersExist
  <2> QED BY <2>1, Zenon DEF BP
<1>4. PowerTable(ByteBase, Bytes, BP)
  BY <1>1, <1>2, <1>3 DEF PowerTable
<1>5. Weights(Bytes, BP) /\ BP[0] = 1
  BY <1>4, PowersAre
<1> DEFINE S == {i \in 0..Bytes : BytePower(i) = BP[i]}
<1>6. S \subseteq 0..Bytes /\ 0 \in S
  <2>1. 0 \in 0..Bytes
    BY <1>1
  <2>2. BytePower(0) = BP[0]
    BY <1>2, <1>5, Zenon
  <2> QED BY <2>1, <2>2
<1>7. ASSUME NEW m \in 0..(Bytes - 1), m \in S PROVE m + 1 \in S
  <2>1. m \in Nat /\ m + 1 \in 0..Bytes /\ m + 1 <= Bytes
    BY <1>1
  <2>2. BP[m + 1] = BP[m] * ByteBase
    BY <1>4, <2>1, PowerNext
  <2>3. BytePower(m + 1) = BytePower(m) * ByteBase
    BY FieldPowerAssumption, Zenon
  <2>4. BytePower(m) = BP[m]
    BY <1>7
  <2>5. BytePower(m + 1) = BP[m + 1]
    BY <2>2, <2>3, <2>4, Zenon
  <2> QED BY <2>1, <2>5
<1> HIDE DEF S
<1>8. \A m \in 0..Bytes : m \in S
  BY <1>1, <1>6, <1>7, UpTo
<1>9. \A i \in 0..Bytes : BytePower(i) = BP[i]
  BY <1>8 DEF S
<1>10. BP[Bytes] = Limit
  <2>1. Bytes \in 0..Bytes
    BY <1>1
  <2>2. BytePower(Bytes) = BP[Bytes]
    BY <1>9, <2>1
  <2> QED BY <1>2, <2>2, Zenon
<1> QED BY <1>1, <1>2, <1>4, <1>5, <1>9, <1>10

\* What is left of n when its last k bytes are cut off.
LEMMA BytesLeft ==
    ASSUME NEW n \in 0..(Limit - 1)
    PROVE  /\ n \div BytePower(Bytes - 0) = 0
           /\ n \div BytePower(Bytes - Bytes) = n
           /\ \A k \in 1..Bytes :
                 n \div BytePower(Bytes - k)
                   = (n \div BytePower(Bytes - (k - 1))) * ByteBase
                       + ((n \div BytePower(Bytes - k)) % ByteBase)
           /\ \A k \in 0..Bytes : n \div BytePower(Bytes - k) \in Nat
           /\ \A k \in 0..Bytes : (n \div BytePower(Bytes - k)) % ByteBase \in Nat
<1>1. Bytes \in Nat /\ n \in Nat /\ Limit \in Nat \ {0} /\ ByteBase \in Nat \ {0}
  BY ByteTable, FieldTable
<1>2. n \div BytePower(Bytes - 0) = 0
  <2>1. Bytes - 0 \in 0..Bytes /\ Bytes - 0 = Bytes
    BY <1>1
  <2>2. BytePower(Bytes - 0) = Limit
    BY <2>1, ByteTable
  <2> DEFINE L == Limit
  <2>3. n \in 0..(L - 1) /\ L \in Nat \ {0}
    BY <1>1
  <2> HIDE DEF L
  <2>4. n \div L = 0
    <3>1. n = 0 * L + n
      BY <2>3
    <3>2. (0 * L + n) \div L = 0
      BY <2>3, DivIs
    <3> QED BY <3>1, <3>2
  <2> QED BY <2>2, <2>4 DEF L
<1>3. n \div BytePower(Bytes - Bytes) = n
  <2>1. Bytes - Bytes = 0 /\ 0 \in 0..Bytes
    BY <1>1
  <2>2. BytePower(Bytes - Bytes) = 1
    BY <2>1, ByteTable
  <2>3. n \div 1 = n
    BY <1>1
  <2> QED BY <2>2, <2>3
<1>4. ASSUME NEW k \in 0..Bytes
      PROVE  /\ BytePower(Bytes - k) \in Nat \ {0}
             /\ n \div BytePower(Bytes - k) \in Nat
             /\ (n \div BytePower(Bytes - k)) % ByteBase \in Nat
  <2>1. Bytes - k \in 0..Bytes
    BY <1>1
  <2> DEFINE p == BytePower(Bytes - k)
  <2>2. p \in Nat \ {0}
    BY <2>1, ByteTable DEF Weights
  <2> HIDE DEF p
  <2> DEFINE q == n \div p
  <2>3. q \in Nat
    BY <1>1, <2>2
  <2> HIDE DEF q
  <2>4. q % ByteBase \in Nat
    BY <1>1, <2>3
  <2> QED BY <2>2, <2>3, <2>4 DEF q, p
<1>5. ASSUME NEW k \in 1..Bytes
      PROVE  n \div BytePower(Bytes - k)
                = (n \div BytePower(Bytes - (k - 1))) * ByteBase
                       + ((n \div BytePower(Bytes - k)) % ByteBase)
  <2>1. /\ Bytes - k \in Nat /\ (Bytes - k) + 1 = Bytes - (k - 1) /\ (Bytes - k) + 1 <= Bytes
        /\ Bytes - k \in 0..(Bytes - 1) /\ k \in 0..Bytes
    BY <1>1
  <2> DEFINE p == BytePower(Bytes - k)
             b == ByteBase
  <2>2. BytePower((Bytes - k) + 1) = p * b
    BY <2>1, FieldPowerAssumption, Zenon
  <2>3. p \in Nat \ {0} /\ b \in Nat \ {0}
    BY <1>1, <1>4, <2>1
  <2>h. BytePower(Bytes - (k - 1)) = p * b
    BY <2>1, <2>2
  <2> HIDE DEF p, b
  <2>4. n \div p = (n \div (p * b)) * b + ((n \div p) % b)
    BY <1>1, <2>3, RemainderNext
  <2> QED BY <2>h, <2>4, Zenon DEF p, b
<1> QED BY <1>2, <1>3, <1>4, <1>5

LEMMA SeqLen ==
    ASSUME NEW n \in Nat, NEW w \in [1..n -> Nat]
    PROVE  Len(w) = n
<1>1. w \in Seq(Nat)
  BY SMT
<1> QED BY <1>1, SMT

\* What is put together from the bytes of a number is the number.
LEMMA BytesKeep ==
    ASSUME NEW n \in 0..(Limit - 1)
    PROVE  OfBytes(ToBytes(n)) = n
<1> DEFINE b == ToBytes(n)
           m == Bytes
           B == ByteBase
           g == [i \in 0..m |-> n \div BytePower(m - i)]
           Rec(u) == u = [i \in 0..Len(b) |-> IF i = 0 THEN 0 ELSE u[i - 1] * B + b[i]]
           u == CHOOSE u : Rec(u)
<1>1. m \in Nat
  BY ByteTable
<1>2. \A i \in 1..m : b[i] = (n \div BytePower(m - i)) % B
  BY DEF ToBytes
<1>3. Len(b) = m
  <2>1. \A i \in 1..m : i \in 0..m
    OBVIOUS
  <2>2. \A i \in 1..m : b[i] \in Nat
    BY <1>2, <2>1, BytesLeft
  <2>3. b \in [1..m -> Nat]
    BY <2>2 DEF ToBytes
  <2> QED BY <1>1, <2>3, SeqLen
<1>4. OfBytes(b) = u[Len(b)]
  BY Zenon DEF OfBytes
<1>5. g[0] = 0 /\ g[m] = n
  <2>1. 0 \in 0..m /\ m \in 0..m
    BY <1>1
  <2>2. g[0] = n \div BytePower(m - 0) /\ g[m] = n \div BytePower(m - m)
    BY <2>1
  <2> QED BY <2>2, BytesLeft
<1>6. ASSUME NEW i \in 1..m PROVE g[i] = g[i - 1] * B + b[i]
  <2>1. i \in 0..m /\ i - 1 \in 0..m
    BY <1>1
  <2>2. g[i] = n \div BytePower(m - i) /\ g[i - 1] = n \div BytePower(m - (i - 1))
    BY <2>1
  <2>3. n \div BytePower(m - i)
          = (n \div BytePower(m - (i - 1))) * B + ((n \div BytePower(m - i)) % B)
    BY BytesLeft
  <2>4. b[i] = (n \div BytePower(m - i)) % B
    BY <1>2
  <2> HIDE DEF g, b, m, B
  <2> QED BY <2>2, <2>3, <2>4, Zenon
<1> HIDE DEF b, m, B
<1>7. Rec(g)
  <2> DEFINE h == [i \in 0..m |-> IF i = 0 THEN 0 ELSE g[i - 1] * B + b[i]]
  <2>1. ASSUME NEW i \in 0..m PROVE g[i] = h[i]
    <3>1. CASE i = 0
      BY <1>1, <1>5, <3>1
    <3>2. CASE i # 0
      <4>1. i \in 1..m
        BY <1>1, <3>2
      <4>2. h[i] = g[i - 1] * B + b[i]
        BY <3>2, Zenon
      <4> HIDE DEF g, h
      <4> QED BY <1>6, <4>1, <4>2
    <3> QED BY <3>1, <3>2
  <2>2. g = [i \in 0..m |-> g[i]]
    BY Zenon
  <2>3. h = [i \in 0..m |-> h[i]]
    <3> HIDE DEF g
    <3> QED BY Zenon
  <2>4. g = h
    <3> HIDE DEF g, h
    <3> QED BY <2>1, <2>2, <2>3, Zenon
  <2> QED BY <1>3, <2>4
<1>8. Rec(u)
  BY <1>7, Zenon
<1>9. ASSUME NEW i \in 0..m PROVE u[i] = IF i = 0 THEN 0 ELSE u[i - 1] * B + b[i]
  <2> HIDE DEF u
  <2> QED BY <1>3, <1>8, Zenon
<1> HIDE DEF u, g
<1> DEFINE S == {i \in 0..m : u[i] = g[i]}
<1>10. S \subseteq 0..m /\ 0 \in S
  BY <1>1, <1>5, <1>9
<1>11. ASSUME NEW i \in 0..(m - 1), i \in S PROVE i + 1 \in S
  <2>1. i + 1 \in 0..m /\ i + 1 \in 1..m /\ i + 1 # 0 /\ (i + 1) - 1 = i
    BY <1>1
  <2>2. u[i + 1] = u[(i + 1) - 1] * B + b[i + 1]
    BY <1>9, <2>1, Zenon
  <2>3. g[i + 1] = g[(i + 1) - 1] * B + b[i + 1]
    BY <1>6, <2>1
  <2>4. u[i + 1] = g[i + 1]
    BY <1>11, <2>1, <2>2, <2>3, Zenon
  <2> QED BY <2>1, <2>4
<1> HIDE DEF S
<1>12. \A i \in 0..m : i \in S
  BY <1>1, <1>10, <1>11, UpTo
<1>13. m \in S
  BY <1>1, <1>12
<1>14. u[m] = n
  BY <1>5, <1>13 DEF S
<1> QED BY <1>3, <1>4, <1>14 DEF b

\* Whether words stand for the prime or more, as the code decides it: the words
\* above the second are as high as they get.
HighPrime(w) == \A i \in Words \ {0, 1} : w[i] = PrimeWord(i)
LowPrime(w) == w[1] > PrimeWord(1) \/ (w[1] = PrimeWord(1) /\ w[0] >= PrimeWord(0))

LEMMA PrimeCompare ==
    ASSUME NEW w, FieldWordy(w)
    PROVE  Num(w) >= P <=> (HighPrime(w) /\ LowPrime(w))
<1> DEFINE n == Num(w)
           high == \A i \in Words \ {0, 1} : w[i] = PrimeWord(i)
           over == high /\ (w[1] > PrimeWord(1) \/ (w[1] = PrimeWord(1) /\ w[0] >= PrimeWord(0)))
<1>1. n \in Nat /\ P \in Nat
  BY FieldTable, PrimeBounds, WordyIs
<1>3. FieldWordy(Prime) /\ Num(Prime) = P
  BY PrimeIs
<1>4. \A i \in Words : Prime[i] = PrimeWord(i)
  BY DEF Prime
<1>5. Words = 0..Top /\ Top \in Nat /\ Top >= 3
  BY FieldNumbers
<1>7. \A i \in Words : w[i] \in Int /\ Prime[i] \in Int
  BY <1>3 DEF FieldWordy
<1>8. n >= P <=> (FieldAbove(w, Prime) \/ \A i \in Words : w[i] = Prime[i])
  <2>1. /\ Num(w) > Num(Prime) <=> FieldAbove(w, Prime)
        /\ Num(w) = Num(Prime) <=> \A i \in Words : w[i] = Prime[i]
    BY <1>3, WordsCompare
  <2>2. n >= P <=> (n > P \/ n = P)
    BY <1>1
  <2> QED BY <1>3, <2>1, <2>2
<1>9. \A i \in Words \ {0, 1} : ~(w[i] > Prime[i])
  <2> SUFFICES ASSUME NEW i \in Words \ {0, 1} PROVE ~(w[i] > Prime[i])
    OBVIOUS
  <2>1. w[i] \in 0..(WordBase(i) - 1) /\ Prime[i] = PrimeWord(i)
    BY <1>4 DEF FieldWordy
  <2>2. PrimeWord(i) = WordBase(i) - 1
    BY DEF PrimeWord, WordBase
  <2>3. WordBase(i) \in Nat
    BY FieldNumbers DEF WordBase
  <2> QED BY <2>1, <2>2, <2>3
<1>10. 0 \in Words /\ 1 \in Words /\ Prime[0] = PrimeWord(0) /\ Prime[1] = PrimeWord(1)
  BY <1>4, <1>5
<1>11. high <=> \A i \in Words \ {0, 1} : w[i] = Prime[i]
  BY <1>4
<1>12. ASSUME FieldAbove(w, Prime) PROVE over
  <2>1. PICK i \in Words : (\A j \in Words : j > i => w[j] = Prime[j]) /\ w[i] > Prime[i]
    BY <1>12 DEF FieldAbove
  <2>2. i \in {0, 1}
    BY <1>9, <2>1
  <2>3. \A j \in Words \ {0, 1} : j \in Words /\ j > i
    BY <1>5, <2>2
  <2>4. high
    BY <1>11, <2>1, <2>3
  <2>5. CASE i = 1
    BY <1>10, <2>1, <2>4, <2>5
  <2>6. CASE i = 0
    <3>1. w[1] = Prime[1] /\ w[0] > Prime[0]
      BY <1>10, <2>1, <2>6
    <3>2. w[0] >= Prime[0]
      BY <1>7, <1>10, <3>1
    <3> QED BY <1>10, <2>4, <3>1, <3>2
  <2> QED BY <2>2, <2>5, <2>6
<1>13. ASSUME \A i \in Words : w[i] = Prime[i] PROVE over
  <2>1. w[0] >= PrimeWord(0) /\ w[1] = PrimeWord(1)
    BY <1>7, <1>10, <1>13
  <2> QED BY <1>11, <1>13, <2>1
<1>14. ASSUME over PROVE FieldAbove(w, Prime) \/ \A i \in Words : w[i] = Prime[i]
  <2>1. \A i \in Words \ {0, 1} : w[i] = Prime[i]
    BY <1>11, <1>14
  <2>2. CASE w[1] > PrimeWord(1)
    <3>1. \A j \in Words : j > 1 => w[j] = Prime[j]
      BY <1>5, <2>1
    <3>2. w[1] > Prime[1]
      BY <1>10, <2>2
    <3> QED BY <1>10, <3>1, <3>2 DEF FieldAbove
  <2>3. CASE w[1] = PrimeWord(1) /\ w[0] >= PrimeWord(0)
    <3>1. \A j \in Words : j > 0 => w[j] = Prime[j]
      <4> SUFFICES ASSUME NEW j \in Words, j > 0 PROVE w[j] = Prime[j]
        OBVIOUS
      <4>1. j = 1 \/ j \in Words \ {0, 1}
        BY <1>5
      <4> QED BY <1>10, <2>1, <2>3, <4>1
    <3>2. CASE w[0] = Prime[0]
      <4>1. \A j \in Words : j = 0 \/ j > 0
        BY <1>5
      <4> QED BY <3>1, <3>2, <4>1
    <3>3. CASE w[0] # Prime[0]
      <4>1. w[0] > Prime[0]
        BY <1>7, <1>10, <2>3, <3>3
      <4> QED BY <1>10, <3>1, <4>1 DEF FieldAbove
    <3> QED BY <3>2, <3>3
  <2> QED BY <1>14, <2>2, <2>3
<1> HIDE DEF n
<1>15. over <=> n >= P
  BY <1>8, <1>12, <1>13, <1>14
<1> QED BY <1>15 DEF n, HighPrime, LowPrime

\* The words that SetBytes makes are those of the number, and it says whether
\* the number is the prime or more.
LEMMA SetBytesIs ==
    ASSUME NEW n \in 0..(Limit - 1)
    PROVE  SetBytes(ToBytes(n)) = [words |-> Packed(n), overflow |-> n >= P]
<1> DEFINE w == Packed(n)
           over == HighPrime(w) /\ LowPrime(w)
           above == n >= P
<1>1. n \in Nat /\ n < Limit /\ P \in Nat
  BY FieldTable, PrimeBounds
<1>2. FieldWordy(w) /\ Num(w) = n
  BY <1>1, PackedIs
<1>3. SetBytes(ToBytes(n)) = [words |-> w, overflow |-> over]
  <2>1. OfBytes(ToBytes(n)) = n
    BY BytesKeep
  <2> QED BY <2>1 DEF SetBytes, HighPrime, LowPrime
<1> HIDE DEF w
<1>4. over <=> above
  BY <1>2, PrimeCompare
<1>5. over \in BOOLEAN
  BY Zenon
<1>6. above \in BOOLEAN
  BY <1>1
<1> HIDE DEF over, above
<1>7. over = above
  BY <1>4, <1>5, <1>6
<1> QED BY <1>3, <1>7 DEF w, above

LEMMA IsGtOrEqIs ==
    ASSUME NEW n \in 0..(Limit - 1), NEW x \in 0..(Limit - 1)
    PROVE  IsGtOrEq(Packed(x), n) <=> x >= n
<1> DEFINE w == Packed(x)
           pn == Packed(n)
           over(i) == \A j \in Words : j > i => w[j] = pn[j]
<1>1. n \in Nat /\ n < Limit /\ x \in Nat /\ x < Limit
  BY FieldTable
<1>2. FieldWordy(w) /\ Num(w) = x /\ FieldWordy(pn) /\ Num(pn) = n
  BY <1>1, PackedIs
<1>3. IsGtOrEq(w, n) <=> \/ \E i \in Words \ {0} : over(i) /\ w[i] > pn[i]
                         \/ over(0) /\ w[0] >= pn[0]
  BY DEF IsGtOrEq
<1> HIDE DEF w, pn
<1>4. Words = 0..Top /\ Top \in Nat /\ 0 \in Words
  BY FieldNumbers
<1>5. w[0] \in Int /\ pn[0] \in Int
  BY <1>2, <1>4 DEF FieldWordy
<1>6. /\ x > n <=> FieldAbove(w, pn)
      /\ x = n <=> \A i \in Words : w[i] = pn[i]
  <2>1. /\ Num(w) > Num(pn) <=> FieldAbove(w, pn)
        /\ Num(w) = Num(pn) <=> \A i \in Words : w[i] = pn[i]
    BY <1>2, WordsCompare
  <2> QED BY <1>2, <2>1
<1>7. x >= n <=> (x > n \/ x = n)
  BY <1>1
<1>8. ASSUME NEW i \in Words \ {0}, over(i), w[i] > pn[i] PROVE x > n
  BY <1>6, <1>8 DEF FieldAbove
<1>9. ASSUME over(0), w[0] >= pn[0] PROVE x >= n
  <2>1. CASE w[0] = pn[0]
    <3>1. \A j \in Words : j = 0 \/ j > 0
      BY <1>4
    <3> QED BY <1>6, <1>7, <1>9, <2>1, <3>1
  <2>2. CASE w[0] # pn[0]
    <3>1. w[0] > pn[0]
      BY <1>5, <1>9, <2>2
    <3> QED BY <1>4, <1>6, <1>7, <1>9, <3>1 DEF FieldAbove
  <2> QED BY <2>1, <2>2
<1>10. ASSUME x > n
       PROVE  \/ \E i \in Words \ {0} : over(i) /\ w[i] > pn[i]
              \/ over(0) /\ w[0] >= pn[0]
  <2>1. PICK i \in Words : over(i) /\ w[i] > pn[i]
    BY <1>6, <1>10 DEF FieldAbove
  <2>2. CASE i = 0
    BY <1>5, <2>1, <2>2
  <2>3. CASE i # 0
    BY <2>1, <2>3
  <2> QED BY <2>2, <2>3
<1>11. ASSUME x = n PROVE over(0) /\ w[0] >= pn[0]
  BY <1>4, <1>5, <1>6, <1>11
<1> HIDE DEF over
<1>12. IsGtOrEq(w, n) <=> x >= n
  BY <1>3, <1>7, <1>8, <1>9, <1>10, <1>11
<1> QED BY <1>12 DEF w

\* The words of a number below the prime say of it what the comparisons, the
\* parity and the bytes do.
LEMMA PackedCanonical ==
    ASSUME f = Packed(exact), exact \in 0..(P - 1)
    PROVE  Canonical
<1> DEFINE x == exact
           w == Packed(x)
<1>1. x \in Nat /\ x < Limit /\ x \in 0..(Limit - 1) /\ P \in Nat /\ x < P
      /\ 0 \in Nat /\ 0 < Limit /\ 1 \in Nat /\ 1 < Limit /\ Limit \in Nat
  BY PrimeBounds, SmallPowers
<1>2. /\ FieldWordy(w) /\ Num(w) = x /\ w[0] = x % Base
      /\ FieldWordy(Packed(0)) /\ Num(Packed(0)) = 0
      /\ FieldWordy(Packed(1)) /\ Num(Packed(1)) = 1
  BY <1>1, PackedIs
<1>3. Words = 0..Top /\ Top \in Nat /\ 0 \in Words /\ Top # 0
  BY FieldNumbers
<1>4. PutBytes(w) = ToBytes(x)
  <2> DEFINE u == [i \in Words |-> w[i] % WordBase(i)]
  <2> HIDE DEF w
  <2>1. ASSUME NEW i \in Words PROVE u[i] = w[i]
    <3>1. w[i] \in 0..(WordBase(i) - 1) /\ WordBase(i) \in Nat \ {0}
      BY <1>2, FieldNumbers DEF FieldWordy, WordBase
    <3>2. w[i] % WordBase(i) = w[i]
      BY <3>1, ModSmall
    <3> QED BY <3>2
  <2>2. u = w
    <3>1. u = [i \in Words |-> u[i]] /\ w = [i \in Words |-> w[i]]
      BY <1>2 DEF FieldWordy
    <3> HIDE DEF u
    <3> QED BY <2>1, <3>1, Zenon
  <2>3. Value(u) = x
    BY <1>2, <2>2, WordyUp, ValueIs
  <2> QED BY <2>3 DEF PutBytes
<1>5. SetBytes(PutBytes(w)) = [words |-> w, overflow |-> FALSE]
  <2>1. SetBytes(ToBytes(x)) = [words |-> w, overflow |-> x >= P]
    BY <1>1, SetBytesIs
  <2>2. (x >= P) = FALSE
    BY <1>1
  <2> QED BY <1>4, <2>1, <2>2
<1>6. (w[0] % 2 = 1) <=> (x % 2 = 1)
  <2> DEFINE b == Base
             q == x \div b
             r == x % b
  <2>1. b \in Nat \ {0} /\ b % 2 = 0
    BY FieldNumbers, FieldPowerAssumption, Zenon
  <2> HIDE DEF b
  <2>2. q \in Int /\ r \in 0..(b - 1) /\ x = q * b + r
    BY <1>1, <2>1, DivMod
  <2>3. w[0] = r
    BY <1>2 DEF b
  <2> HIDE DEF q, r
  <2> DEFINE h == b \div 2
  <2>4. b = h * 2 /\ h \in Int
    BY <2>1
  <2> HIDE DEF h
  <2>5. q * b = (q * h) * 2 /\ q * h \in Int
    BY <2>2, <2>4
  <2> DEFINE y == q * h
  <2>6. x = y * 2 + r /\ y \in Int
    BY <2>2, <2>5
  <2> HIDE DEF y
  <2>7. x % 2 = r % 2
    BY <2>2, <2>6
  <2> QED BY <2>3, <2>7
<1>7. /\ x = 0 <=> \A i \in Words : w[i] = 0
      /\ x = 1 <=> (w[0] = 1 /\ \A i \in Words \ {0} : w[i] = 0)
  <2> DEFINE z == Packed(0)
             o == Packed(1)
  <2>1. \A i \in Words : WordBase(i) \in Nat \ {0} /\ FP[i] \in Nat \ {0} /\ FieldPower(i) = FP[i]
    <3> SUFFICES ASSUME NEW i \in Words
                 PROVE  WordBase(i) \in Nat \ {0} /\ FP[i] \in Nat \ {0} /\ FieldPower(i) = FP[i]
      OBVIOUS
    <3>1. i \in 0..NWords /\ i \in 0..(2 * NWords)
      BY FieldNumbers
    <3>2. WordBase(i) \in Nat \ {0}
      BY FieldNumbers DEF WordBase
    <3> QED BY <3>1, <3>2, FieldTable DEF Weights
  <2>2. \A i \in Words : z[i] = 0
    <3> SUFFICES ASSUME NEW i \in Words PROVE z[i] = 0
      OBVIOUS
    <3> DEFINE p == FieldPower(i)
               u == WordBase(i)
    <3>1. p \in Nat \ {0} /\ u \in Nat \ {0} /\ z[i] = (0 \div p) % u
      BY <2>1 DEF Packed
    <3> HIDE DEF p, u
    <3>2. 0 \div p = 0 /\ 0 % u = 0
      BY <3>1
    <3> QED BY <3>1, <3>2
  <2>3. o[0] = 1
    <3>1. o[0] = 1 % Base
      BY PackedIs
    <3>2. Base \in Nat /\ Base > 1
      BY FieldNumbers
    <3> QED BY <3>1, <3>2
  <2>4. \A i \in Words \ {0} : o[i] = 0
    <3> SUFFICES ASSUME NEW i \in Words \ {0} PROVE o[i] = 0
      OBVIOUS
    <3> DEFINE p == FieldPower(i)
               u == WordBase(i)
    <3>1. p \in Nat \ {0} /\ u \in Nat \ {0} /\ o[i] = (1 \div p) % u
      BY <2>1 DEF Packed
    <3>2. p > 1
      <4>1. i - 1 \in Nat /\ (i - 1) + 1 = i /\ i <= 2 * NWords /\ i - 1 \in 0..NWords
        BY FieldNumbers
      <4>2. FP[(i - 1) + 1] = FP[i - 1] * Base /\ FP[i - 1] \in Nat \ {0}
        BY <4>1, FieldTable, PowerNext
      <4> DEFINE q == FP[i - 1]
                 b == Base
      <4>3. p = q * b /\ q \in Nat \ {0} /\ b \in Nat /\ b > 1
        BY <2>1, <4>1, <4>2, FieldNumbers
      <4> HIDE DEF p, q, b
      <4>4. q * b >= b
        BY <4>3
      <4> QED BY <4>3, <4>4
    <3> HIDE DEF p, u
    <3>3. 1 \div p = 0 /\ 0 % u = 0
      BY <3>1, <3>2
    <3> QED BY <3>1, <3>3
  <2>5. x = 0 <=> \A i \in Words : w[i] = z[i]
    BY <1>2, WordsCompare
  <2>6. x = 1 <=> \A i \in Words : w[i] = o[i]
    BY <1>2, WordsCompare
  <2> HIDE DEF w, z, o
  <2> QED BY <1>3, <2>2, <2>3, <2>4, <2>5, <2>6
<1>8. ASSUME NEW n \in Operands
      PROVE  /\ (\A i \in Words : w[i] = Packed(n)[i]) <=> x = n
             /\ IsGtOrEq(w, n) <=> x >= n
  <2>1. n \in 0..(P - 1)
    BY FieldAssumption
  <2>2. n \in 0..(Limit - 1) /\ n \in Nat /\ n < Limit
    BY <2>1, PrimeBounds
  <2>3. FieldWordy(Packed(n)) /\ Num(Packed(n)) = n
    BY <2>2, PackedIs
  <2>4. IsGtOrEq(w, n) <=> x >= n
    BY <1>1, <2>2, IsGtOrEqIs
  <2>5. x = n <=> \A i \in Words : w[i] = Packed(n)[i]
    <3> DEFINE pn == Packed(n)
    <3>1. Num(w) = Num(pn) <=> \A i \in Words : w[i] = pn[i]
      BY <1>2, <2>3, WordsCompare
    <3> QED BY <1>2, <2>3, <3>1
  <2> QED BY <2>4, <2>5
<1>9. /\ IsOdd(w) = (x % 2 = 1)
      /\ IsZero(w) = (x = 0)
      /\ IsOne(w) = (x = 1)
  <2> DEFINE e1 == \A i \in Words : w[i] = 0
             e2 == \A i \in Words \ {0} : w[i] = 0
             a == w[0] % 2
             c == x % 2
  <2> HIDE DEF e1, e2
  <2>1. (a = 1) = (c = 1)
    BY <1>6
  <2>2. e1 \in BOOLEAN /\ e2 \in BOOLEAN
    BY Zenon DEF e1, e2
  <2>3. (x = 0 <=> e1) /\ (x = 1 <=> (w[0] = 1 /\ e2))
    BY <1>7 DEF e1, e2
  <2> DEFINE g == w[0]
  <2>4. g \in Int
    BY <1>2, <1>3 DEF FieldWordy
  <2> HIDE DEF w, g
  <2>5. e1 = (x = 0) /\ (g = 1 /\ e2) = (x = 1)
    BY <2>2, <2>3 DEF g
  <2> QED BY <2>1, <2>5 DEF IsOdd, IsZero, IsOne, e1, e2, g
<1>10. ASSUME NEW n \in Operands
       PROVE  Equals(w, Packed(n)) = (x = n) /\ IsGtOrEq(w, n) = (x >= n)
  <2> DEFINE e == \A i \in Words : w[i] = Packed(n)[i]
             g == IsGtOrEq(w, n)
             h == x >= n
  <2>1. e \in BOOLEAN
    BY Zenon
  <2>2. g \in BOOLEAN
    BY Zenon DEF IsGtOrEq
  <2>3. h \in BOOLEAN
    <3>1. n \in 0..(P - 1)
      BY FieldAssumption
    <3> QED BY <1>1, <3>1
  <2>4. (e <=> x = n) /\ (g <=> h)
    BY <1>8
  <2> HIDE DEF e, g, h
  <2>5. e = (x = n) /\ g = h
    BY <2>1, <2>2, <2>3, <2>4
  <2> QED BY <2>5 DEF e, g, h, Equals
<1>11. f = w
  OBVIOUS
<1> HIDE DEF w
<1> QED BY <1>4, <1>5, <1>9, <1>10, <1>11 DEF Canonical, x, w

-----------------------------------------------------------------------------
(* Sums of words and carries.                                              *)

LEMMA NumPlus ==
    ASSUME NEW x, WholeWords(x), NEW y, WholeWords(y),
           NEW z, \A i \in Words : z[i] = x[i] + y[i]
    PROVE  WholeWords(z) /\ Num(z) = Num(x) + Num(y)
<1> DEFINE X == Up(NWords, x)
           Y == Up(NWords, y)
           Z == Up(NWords, z)
<1>1. Weights(NWords, FP) /\ NWords \in Nat /\ NWords \in 0..(2 * NWords)
  BY FieldNumbers, FieldTable, WeightsFrom
<1>2. WholeWords(z)
  BY DEF WholeWords
<1>3. Whole(NWords, X) /\ Whole(NWords, Y)
  BY UpWhole
<1>4. \A i \in 1..NWords : Z[i] = X[i] + Y[i]
  <2> SUFFICES ASSUME NEW i \in 1..NWords PROVE Z[i] = X[i] + Y[i]
    OBVIOUS
  <2>1. i - 1 \in Words
    BY FieldNumbers
  <2>2. Z[i] = z[i - 1] /\ X[i] = x[i - 1] /\ Y[i] = y[i - 1]
    BY DEF Up
  <2> QED BY <2>1, <2>2
<1> HIDE DEF X, Y, Z
<1>5. Worth(FP, NWords, Z) = Worth(FP, NWords, X) + Worth(FP, NWords, Y)
  BY <1>1, <1>3, <1>4, WorthPlus
<1> QED BY <1>2, <1>5 DEF Num, X, Y, Z

LEMMA NumScale ==
    ASSUME NEW x, WholeWords(x), NEW k \in Int,
           NEW z, \A i \in Words : z[i] = k * x[i]
    PROVE  WholeWords(z) /\ Num(z) = k * Num(x)
<1> DEFINE X == Up(NWords, x)
           Z == Up(NWords, z)
<1>1. Weights(NWords, FP) /\ NWords \in Nat /\ NWords \in 0..(2 * NWords)
  BY FieldNumbers, FieldTable, WeightsFrom
<1>2. WholeWords(z)
  BY DEF WholeWords
<1>3. Whole(NWords, X)
  BY UpWhole
<1>4. \A i \in 1..NWords : Z[i] = k * X[i]
  <2> SUFFICES ASSUME NEW i \in 1..NWords PROVE Z[i] = k * X[i]
    OBVIOUS
  <2>1. i - 1 \in Words
    BY FieldNumbers
  <2>2. Z[i] = z[i - 1] /\ X[i] = x[i - 1]
    BY DEF Up
  <2>3. z[i - 1] = k * x[i - 1]
    BY <2>1
  <2> QED BY <2>2, <2>3, Zenon
<1> HIDE DEF X, Z
<1>5. Worth(FP, NWords, Z) = k * Worth(FP, NWords, X)
  BY <1>1, <1>3, <1>4, WorthScale
<1> QED BY <1>2, <1>5 DEF Num, X, Z

\* A number in one word, and a number added to one word.
Single(k, a) == [i \in Words |-> IF i = k THEN a ELSE 0]

LEMMA NumSingle ==
    ASSUME NEW k \in Words, NEW a \in Int
    PROVE  WholeWords(Single(k, a)) /\ Num(Single(k, a)) = a * FP[k]
<1> DEFINE z == Up(NWords, Single(k, a))
           w == [j \in 1..1 |-> a]
<1>1. /\ k \in Nat /\ k + 1 <= NWords /\ NWords <= 2 * NWords /\ NWords \in Nat
      /\ 0 \in Nat /\ 0 + 1 = 1 /\ 1 \in 0..(2 * NWords) /\ k \in 0..(2 * NWords)
  BY FieldNumbers
<1>2. PowerTable(Base, 2 * NWords, FP) /\ Weights(2 * NWords, FP) /\ FP[0] = 1
  BY FieldTable
<1>3. w[1] = a /\ Whole(1, w)
  BY DEF Whole
<1> HIDE DEF w
<1>4. Worth(FP, 1, w) = a
  <2>1. Weights(0 + 1, FP) /\ Whole(0 + 1, w)
    BY <1>1, <1>2, <1>3, FieldNumbers, WeightsFrom
  <2>2. Worth(FP, 0 + 1, w) = Worth(FP, 0, w) + w[0 + 1] * FP[0]
    BY <1>1, <2>1, WorthNext
  <2>3. Worth(FP, 0, w) = 0
    BY <1>2, WorthNone
  <2> QED BY <1>1, <1>2, <1>3, <2>2, <2>3
<1>5. \A j \in 1..NWords : z[j] = IF j - k \in 1..1 THEN w[j - k] ELSE 0
  <2> SUFFICES ASSUME NEW j \in 1..NWords
               PROVE  z[j] = IF j - k \in 1..1 THEN w[j - k] ELSE 0
    OBVIOUS
  <2>1. j - 1 \in Words
    BY FieldNumbers
  <2>2. z[j] = Single(k, a)[j - 1]
    BY DEF Up
  <2>3. z[j] = IF j - 1 = k THEN a ELSE 0
    BY <2>1, <2>2 DEF Single
  <2>4. (j - k \in 1..1 <=> j - 1 = k) /\ (j - 1 = k => j - k = 1)
    BY <1>1
  <2> HIDE DEF z
  <2> QED BY <1>3, <2>3, <2>4
<1> HIDE DEF z
<1>6. Worth(FP, NWords, z) = FP[k] * Worth(FP, 1, w)
  <2>1. k \in Nat /\ 1 \in Nat /\ NWords \in Nat /\ k + 1 <= NWords /\ NWords <= 2 * NWords
        /\ Whole(1, w) /\ PowerTable(Base, 2 * NWords, FP)
    BY <1>1, <1>2, <1>3
  <2> QED BY <1>5, <2>1, WorthShift
<1>7. FP[k] \in Nat \ {0}
  BY <1>1, <1>2 DEF Weights
<1>8. Num(Single(k, a)) = FP[k] * a
  BY <1>4, <1>6 DEF Num, z
<1>9. FP[k] * a = a * FP[k]
  BY <1>7
<1>10. WholeWords(Single(k, a))
  BY DEF Single, WholeWords
<1> QED BY <1>8, <1>9, <1>10

LEMMA NumAdded ==
    ASSUME NEW x, WholeWords(x), NEW k \in Words, NEW a \in Int,
           NEW z, \A i \in Words : z[i] = IF i = k THEN x[i] + a ELSE x[i]
    PROVE  WholeWords(z) /\ Num(z) = Num(x) + a * FP[k]
<1>1. \A i \in Words : z[i] = x[i] + Single(k, a)[i]
  BY DEF Single, WholeWords
<1>2. WholeWords(Single(k, a)) /\ Num(Single(k, a)) = a * FP[k]
  BY NumSingle
<1> QED BY <1>1, <1>2, NumPlus

\* Carries, when no word has too much for its integer.
CarriedRight(col, last, m) ==
    /\ \A i \in 0..last : m[i] \in Nat
    /\ m[0] = col[0]
    /\ \A i \in 1..last : m[i] = col[i] + (m[i - 1] \div Base)

\* Columns with no more than X carry no more than CarryOf(X), and the carry with
\* the column no more than that times Base.
LEMMA CarryBound ==
    ASSUME NEW X \in Nat, NEW x \in 0..X, NEW c \in 0..CarryOf(X)
    PROVE  /\ CarryOf(X) \in Nat /\ x + c \in 0..(X + CarryOf(X))
           /\ (x + c) \div Base \in 0..CarryOf(X) /\ x \div Base \in 0..CarryOf(X)
<1> DEFINE b == Base
           e == b - 1
           CC == X \div e
           r == X % e
<1>1. b \in Nat /\ b > 1 /\ e \in Nat \ {0} /\ b = e + 1
  BY FieldNumbers
<1>2. CarryOf(X) = CC
  BY DEF CarryOf
<1> HIDE DEF b, e
<1>3. CC \in Nat /\ r \in 0..(e - 1) /\ X = CC * e + r
  <2>1. CC \in Nat
    BY <1>1
  <2> QED BY <1>1, <2>1, DivMod
<1> HIDE DEF CC, r
<1>4. CC * b = CC * e + CC /\ CC * e \in Int /\ CC * b \in Int
  BY <1>1, <1>3
<1> DEFINE y == x + c
           q == y \div b
           s == y % b
           q0 == x \div b
           s0 == x % b
<1>5. y \in Nat /\ y <= X + CC
  BY <1>2, <1>3
<1>6. y < CC * b + b
  BY <1>1, <1>3, <1>4, <1>5
<1>7. q \in Nat /\ q0 \in Nat /\ s \in 0..(b - 1) /\ s0 \in 0..(b - 1) /\ y = q * b + s
      /\ x = q0 * b + s0
  <2> HIDE DEF y
  <2>1. q \in Nat /\ q0 \in Nat
    BY <1>1, <1>5
  <2>t. y \in Int /\ x \in Int /\ b \in Nat \ {0}
    BY <1>1, <1>5
  <2>2. s \in 0..(b - 1) /\ y = q * b + s
    BY <2>t, DivMod, Zenon
  <2>3. s0 \in 0..(b - 1) /\ x = q0 * b + s0
    BY <2>t, DivMod, Zenon
  <2> QED BY <2>1, <2>2, <2>3
<1>8. y >= x
  BY <1>2, <1>3
<1>9. y \in 0..(X + CC)
  BY <1>3, <1>5
<1> HIDE DEF y, q, s, q0, s0
<1>10. q <= CC
  <2> SUFFICES ASSUME q >= CC + 1 PROVE FALSE
    BY <1>3, <1>7
  <2>1. q * b >= (CC + 1) * b /\ (CC + 1) * b = CC * b + b /\ q * b \in Int
    BY <1>1, <1>3, <1>7
  <2> QED BY <1>1, <1>4, <1>5, <1>6, <1>7, <2>1
<1>11. q0 <= CC
  <2> SUFFICES ASSUME q0 >= CC + 1 PROVE FALSE
    BY <1>3, <1>7
  <2>1. q0 * b >= (CC + 1) * b /\ (CC + 1) * b = CC * b + b /\ q0 * b \in Int
    BY <1>1, <1>3, <1>7
  <2> QED BY <1>1, <1>4, <1>5, <1>6, <1>7, <1>8, <2>1
<1>12. CarryOf(X) = CC /\ CC \in Nat /\ y \in 0..(X + CC) /\ q \in 0..CC /\ q0 \in 0..CC
  BY <1>2, <1>3, <1>7, <1>9, <1>10, <1>11
<1> QED BY <1>12 DEF y, q, q0, b

LEMMA CarriedIs ==
    ASSUME NEW last \in Nat \ {0}, NEW mod \in Nat \ {0}, NEW X \in Nat, X + CarryOf(X) < mod,
           NEW col, \A i \in 0..(last - 1) : col[i] \in 0..X,
           col[last] \in Nat, col[last] + CarryOf(X) < mod
    PROVE  /\ CarriedRight(col, last, Carried(col, last, mod))
           /\ CarryOf(X) \in Nat /\ Carried(col, last, mod)[last] <= col[last] + CarryOf(X)
           /\ \A i \in 0..(last - 1) : Carried(col, last, mod)[i] \div Base \in 0..CarryOf(X)
           /\ Carried(col, last, mod) = [i \in 0..last |-> Carried(col, last, mod)[i]]
<1> DEFINE A == Nat
           base == col[0] % mod
           step == [k \in 1..last |-> [a \in A |-> (col[k] + (a \div Base)) % mod]]
           Rec(u) == u = [i \in 0..last |->
                             (col[i] + (IF i = 0 THEN 0 ELSE u[i - 1] \div Base)) % mod]
           u == CHOOSE u : Rec(u)
           CC == CarryOf(X)
<1>1. Base \in Nat \ {0} /\ 0 \in 0..(last - 1) /\ 0 \in 0..last /\ last \in 0..last
  BY FieldNumbers
<1>2. col[0] \in 0..X /\ CC \in Nat
  <2>1. X \in 0..X
    OBVIOUS
  <2>2. CC \in Nat
    <3> DEFINE e == Base - 1
    <3>1. e \in Nat \ {0}
      BY FieldNumbers
    <3> HIDE DEF e
    <3>2. X \div e \in Nat
      BY <3>1
    <3> QED BY <3>2 DEF e, CarryOf
  <2> QED BY <1>1, <2>2
<1>3. \A i \in 0..last : col[i] \in Nat
  <2> SUFFICES ASSUME NEW i \in 0..last PROVE col[i] \in Nat
    OBVIOUS
  <2>1. CASE i = last
    BY <2>1
  <2>2. CASE i # last
    <3>1. i \in 0..(last - 1)
      BY <2>2
    <3> QED BY <3>1
  <2> QED BY <2>1, <2>2
<1>4. step \in [1..last -> [A -> A]] /\ base \in A
  <2>1. ASSUME NEW k \in 1..last, NEW a \in A PROVE (col[k] + (a \div Base)) % mod \in A
    <3> DEFINE b == Base
               q == a \div b
               y == col[k] + q
    <3>1. b \in Nat \ {0} /\ k \in 0..last
      BY <1>1
    <3> HIDE DEF b
    <3>2. q \in Nat
      BY <3>1
    <3> HIDE DEF q
    <3>3. y \in Nat
      BY <1>3, <3>1, <3>2
    <3> HIDE DEF y
    <3>4. y % mod \in Nat
      BY <3>3
    <3> QED BY <3>4 DEF y, q, b
  <2>2. base \in A
    <3> DEFINE y == col[0]
    <3>1. y \in Nat
      BY <1>2
    <3> HIDE DEF y
    <3>2. y % mod \in Nat
      BY <3>1
    <3> QED BY <3>2 DEF y
  <2> HIDE DEF A
  <2> QED BY <2>1, <2>2
<1>5. \A k \in 1..last : \A a \in A : step[k][a] = (col[k] + (a \div Base)) % mod
  OBVIOUS
<1> HIDE DEF step, A, base
<1>6. PICK g : Recursion(last, A, base, step, g)
  BY <1>4, RecursionExists
<1>7. g \in [0..last -> A] /\ g[0] = base /\ \A k \in 1..last : g[k] = step[k][g[k - 1]]
  BY <1>6 DEF Recursion
<1>8. Rec(g)
  <2> DEFINE h == [i \in 0..last |->
                      (col[i] + (IF i = 0 THEN 0 ELSE g[i - 1] \div Base)) % mod]
  <2>1. ASSUME NEW i \in 0..last PROVE g[i] = h[i]
    <3>1. CASE i = 0
      <4>1. h[i] = (col[0] + 0) % mod
        BY <3>1
      <4>2. col[0] + 0 = col[0]
        BY <1>2
      <4> HIDE DEF h
      <4> QED BY <1>7, <3>1, <4>1, <4>2 DEF base
    <3>2. CASE i # 0
      <4>1. i \in 1..last /\ i - 1 \in 0..last
        BY <3>2
      <4>2. h[i] = (col[i] + (g[i - 1] \div Base)) % mod
        BY <3>2, Zenon
      <4>3. g[i - 1] \in A
        BY <1>7, <4>1
      <4>4. g[i] = step[i][g[i - 1]]
        BY <1>7, <4>1
      <4> HIDE DEF h
      <4> QED BY <1>5, <4>1, <4>2, <4>3, <4>4, Zenon
    <3> QED BY <3>1, <3>2
  <2>2. g = [i \in 0..last |-> g[i]]
    BY <1>7, Zenon
  <2>3. h = [i \in 0..last |-> h[i]]
    BY Zenon
  <2>4. g = h
    <3> HIDE DEF h
    <3> QED BY <2>1, <2>2, <2>3, Zenon
  <2> QED BY <2>4
<1>9. Rec(u)
  BY <1>8, Zenon
<1>10. ASSUME NEW i \in 0..last
       PROVE u[i] = (col[i] + (IF i = 0 THEN 0 ELSE u[i - 1] \div Base)) % mod
  <2> HIDE DEF u
  <2> QED BY <1>9, Zenon
<1>11. Carried(col, last, mod) = u
  BY Zenon DEF Carried
<1>12. u = [i \in 0..last |-> u[i]]
  <2> HIDE DEF u
  <2> QED BY <1>9, Zenon
<1> HIDE DEF u, CC
<1> DEFINE Right(i) == /\ u[i] \in Nat
                       /\ u[i] = col[i] + (IF i = 0 THEN 0 ELSE u[i - 1] \div Base)
                       /\ i < last => u[i] \div Base \in 0..CC
                       /\ i = last => u[i] <= col[i] + CC
           S == {i \in 0..last : Right(i)}
<1>13. ASSUME NEW i \in 0..last, NEW c \in 0..CC, u[i] = (col[i] + c) % mod,
              c = IF i = 0 THEN 0 ELSE u[i - 1] \div Base
       PROVE  Right(i)
  <2> DEFINE y == col[i] + c
  <2>1. y \in Nat /\ y <= col[i] + CC /\ y < mod
    <3>1. CASE i = last
      BY <1>2, <3>1 DEF CC
    <3>2. CASE i # last
      <4>1. i \in 0..(last - 1)
        BY <3>2
      <4>2. col[i] \in 0..X
        BY <4>1
      <4>3. X + CC < mod
        BY DEF CC
      <4> QED BY <1>2, <4>2, <4>3
    <3> QED BY <3>1, <3>2
  <2>2. u[i] = y % mod
    BY <1>13
  <2>3. i < last => y \div Base \in 0..CC
    <3> SUFFICES ASSUME i < last PROVE y \div Base \in 0..CC
      OBVIOUS
    <3>1. col[i] \in 0..X
      OBVIOUS
    <3> QED BY <3>1, CarryBound DEF CC
  <2>5. y = col[i] + c
    OBVIOUS
  <2> HIDE DEF y
  <2>4. u[i] = y
    BY <2>1, <2>2, ModSmall
  <2>6. u[i] = col[i] + (IF i = 0 THEN 0 ELSE u[i - 1] \div Base)
    BY <1>13, <2>4, <2>5, Zenon
  <2> QED BY <2>1, <2>3, <2>4, <2>6
<1>14. S \subseteq 0..last /\ 0 \in S
  <2>1. u[0] = (col[0] + (IF 0 = 0 THEN 0 ELSE u[0 - 1] \div Base)) % mod
    BY <1>1, <1>10, Zenon
  <2>2. 0 \in 0..CC
    BY <1>2
  <2>3. u[0] = (col[0] + 0) % mod
    BY <2>1, Zenon
  <2>4. 0 = IF 0 = 0 THEN 0 ELSE u[0 - 1] \div Base
    BY Zenon
  <2> HIDE DEF Right
  <2>5. Right(0)
    BY <1>1, <1>13, <2>2, <2>3, <2>4
  <2> QED BY <1>1, <2>5
<1>15. ASSUME NEW i \in 0..(last - 1), i \in S PROVE i + 1 \in S
  <2>1. i + 1 \in 0..last /\ i + 1 # 0 /\ (i + 1) - 1 = i /\ i < last
    OBVIOUS
  <2> DEFINE c == u[i] \div Base
  <2>2. c \in 0..CC
    BY <1>15, <2>1
  <2>3. u[i + 1] = (col[i + 1] + (IF i + 1 = 0 THEN 0 ELSE u[(i + 1) - 1] \div Base)) % mod
    BY <1>10, <2>1, Zenon
  <2>4. u[i + 1] = (col[i + 1] + c) % mod
    BY <2>1, <2>3, Zenon
  <2>5. c = IF i + 1 = 0 THEN 0 ELSE u[(i + 1) - 1] \div Base
    BY <2>1, Zenon
  <2> HIDE DEF Right, c
  <2>6. Right(i + 1)
    BY <1>13, <2>1, <2>2, <2>4, <2>5
  <2> QED BY <2>1, <2>6
<1>16. \A i \in 0..last : Right(i)
  <2> HIDE DEF Right
  <2>1. S \subseteq 0..last /\ 0 \in S /\ (\A i \in 0..(last - 1) : i \in S => i + 1 \in S)
        /\ last \in Nat
    BY <1>14, <1>15
  <2>2. \A s : s \in S => Right(s)
    OBVIOUS
  <2> HIDE DEF S
  <2>3. \A i \in 0..last : i \in S
    BY <2>1, UpTo
  <2> QED BY <2>2, <2>3
<1>17. CarriedRight(col, last, u)
  <2>1. \A i \in 0..last : u[i] \in Nat
    BY <1>16
  <2>2. u[0] = col[0]
    <3>1. u[0] = col[0] + 0
      BY <1>1, <1>16
    <3> QED BY <1>2, <3>1
  <2>3. \A i \in 1..last : u[i] = col[i] + (u[i - 1] \div Base)
    BY <1>16
  <2> QED BY <2>1, <2>2, <2>3 DEF CarriedRight
<1>18. u[last] <= col[last] + CC
  BY <1>1, <1>16
<1>19. \A i \in 0..(last - 1) : u[i] \div Base \in 0..CC
  BY <1>16
<1> QED BY <1>2, <1>11, <1>12, <1>17, <1>18, <1>19 DEF CC

LEMMA CarriedNum ==
    ASSUME NEW last \in Nat \ {0}, last + 1 <= 2 * NWords,
           NEW col, NEW m, CarriedRight(col, last, m),
           NEW z, \A i \in 1..last : z[i] = col[i - 1], z[last + 1] = col[last],
           \A i \in 0..last : col[i] \in Nat,
           NEW y, \A i \in 1..last : y[i] = m[i - 1] % Base
    PROVE  /\ Digital(last, Base, y)
           /\ Worth(FP, last + 1, z) = Worth(FP, last, y) + m[last] * FP[last]
<1> DEFINE cy == [i \in 0..last |-> IF i = 0 THEN 0 ELSE m[i - 1] \div Base]
           b == Base
<1>1. b \in Nat \ {0} /\ last \in 0..last /\ last # 0 /\ last \in 1..last
      /\ last + 1 \in 0..(2 * NWords) /\ last <= 2 * NWords /\ 2 * NWords \in Nat
      /\ last \in 0..(2 * NWords) /\ PowerTable(b, 2 * NWords, FP)
  BY FieldNumbers, FieldTable
<1>2. /\ \A i \in 0..last : m[i] \in Nat
      /\ m[0] = col[0]
      /\ \A i \in 1..last : m[i] = col[i] + (m[i - 1] \div b)
  BY DEF CarriedRight
<1>3. \A i \in 1..last : z[i] \in Nat
  <2> SUFFICES ASSUME NEW i \in 1..last PROVE z[i] \in Nat
    OBVIOUS
  <2>1. i - 1 \in 0..last
    OBVIOUS
  <2> QED BY <2>1
<1> HIDE DEF b
<1>4. cy[0] = 0 /\ \A i \in 1..last : cy[i] = m[i - 1] \div b
  BY DEF b
<1>5. cy \in [0..last -> Nat]
  <2>1. ASSUME NEW i \in 0..last PROVE cy[i] \in Nat
    <3>1. CASE i = 0
      BY <1>4, <3>1
    <3>2. CASE i # 0
      <4>1. i - 1 \in 0..last /\ i \in 1..last
        BY <3>2
      <4> DEFINE a == m[i - 1]
      <4>2. a \in Nat /\ cy[i] = a \div b
        BY <1>2, <1>4, <4>1
      <4> HIDE DEF a, cy
      <4>3. a \div b \in Nat
        BY <1>1, <4>2
      <4> QED BY <4>2, <4>3
    <3> QED BY <3>1, <3>2
  <2>2. cy = [i \in 0..last |-> cy[i]]
    OBVIOUS
  <2> HIDE DEF cy
  <2> QED BY <2>1, <2>2
<1> HIDE DEF cy
<1>6. ASSUME NEW i \in 1..last PROVE z[i] + cy[i - 1] = m[i - 1]
  <2>1. CASE i = 1
    <3>1. cy[i - 1] = 0 /\ z[i] = m[i - 1] /\ m[i - 1] \in Nat
      <4>1. i - 1 = 0 /\ 0 \in 0..last
        BY <2>1
      <4> QED BY <1>2, <1>4, <4>1
    <3> QED BY <3>1
  <2>2. CASE i # 1
    <3>1. i - 1 \in 1..last
      BY <2>2
    <3>2. cy[i - 1] = m[(i - 1) - 1] \div b /\ m[i - 1] = col[i - 1] + (m[(i - 1) - 1] \div b)
      BY <1>2, <1>4, <3>1
    <3>3. z[i] = col[i - 1]
      OBVIOUS
    <3> QED BY <3>2, <3>3
  <2> QED BY <2>1, <2>2
<1>7. CarriedUp(last, b, z, cy, y)
  <2>1. ASSUME NEW i \in 1..last
        PROVE  cy[i] = (z[i] + cy[i - 1]) \div b /\ y[i] = (z[i] + cy[i - 1]) % b
    <3>1. cy[i] = m[i - 1] \div b /\ y[i] = m[i - 1] % b
      BY <1>4 DEF b
    <3> QED BY <1>6, <3>1
  <2> QED BY <1>4, <1>5, <2>1 DEF CarriedUp
<1>8. /\ Digital(last, b, y) /\ cy[last] \in Nat
      /\ Worth(FP, last, z) = Worth(FP, last, y) + cy[last] * FP[last]
  BY <1>1, <1>3, <1>7, WorthCarries
<1>9. Whole(last + 1, z) /\ Weights(last + 1, FP)
  <2>1. \A i \in 1..(last + 1) : z[i] \in Int
    <3> SUFFICES ASSUME NEW i \in 1..(last + 1) PROVE z[i] \in Int
      OBVIOUS
    <3>1. CASE i = last + 1
      <4>1. col[last] \in Nat
        BY <1>1
      <4> QED BY <3>1, <4>1
    <3>2. CASE i # last + 1
      <4>1. i \in 1..last
        BY <3>2
      <4> QED BY <1>3, <4>1
    <3> QED BY <3>1, <3>2
  <2>2. Weights(last + 1, FP)
    BY <1>1, FieldTable, WeightsFrom
  <2> QED BY <2>1, <2>2 DEF Whole
<1> DEFINE p == FP[last]
           a == col[last]
           c == cy[last]
           W == Worth(FP, last, z)
           D == Worth(FP, last, y)
<1>10. Worth(FP, last + 1, z) = W + a * p /\ W \in Int /\ p \in Nat \ {0}
  <2>1. Worth(FP, last + 1, z) = W + z[last + 1] * p /\ W \in Int /\ p \in Nat \ {0}
    BY <1>9, WorthNext
  <2> QED BY <2>1
<1>11. a \in Nat /\ c \in Nat /\ m[last] = a + c /\ D \in Int
  <2>1. a \in Nat
    BY <1>1
  <2>2. m[last] = a + (m[last - 1] \div b)
    BY <1>1, <1>2
  <2>3. cy[last] = m[last - 1] \div b
    BY <1>1, <1>4
  <2>4. Whole(last, y) /\ Weights(last, FP)
    <3>1. Whole(last, y)
      BY <1>1, <1>8, WorthBound
    <3> QED BY <1>1, <3>1, FieldTable, WeightsFrom
  <2>5. D \in Int
    BY <2>4, WorthNumeral
  <2> QED BY <1>8, <2>1, <2>2, <2>3, <2>5
<1>12. W = D + c * p
  BY <1>8
<1> HIDE DEF p, a, c, W, D
<1>13. (a + c) * p = a * p + c * p /\ a * p \in Int /\ c * p \in Int
  BY <1>10, <1>11
<1>14. Worth(FP, last + 1, z) = D + (a + c) * p
  BY <1>10, <1>11, <1>12, <1>13
<1> QED BY <1>8, <1>11, <1>14 DEF p, D, b

\* Every word but the top one is below the base.
Clean(r) == r \in [Words -> Nat] /\ \A i \in Words : i # Top => r[i] \in 0..(Base - 1)

LEMMA CleanNum ==
    ASSUME NEW r, Clean(r)
    PROVE  /\ WholeWords(r) /\ r[Top] \in Nat
           /\ \E A \in 0..(FP[Top] - 1) : Num(r) = A + r[Top] * FP[Top]
           /\ r[Top] < MSBBase => FieldWordy(r)
<1>1. Top \in Words /\ Top + 1 = NWords /\ Top \in Nat /\ Top <= 2 * NWords /\ Top \in 0..Top
  BY FieldNumbers
<1>2. WholeWords(r) /\ r[Top] \in Nat
  BY <1>1 DEF Clean, WholeWords
<1>3. Digital(Top, Base, Up(NWords, r))
  <2> SUFFICES ASSUME NEW i \in 1..Top PROVE Up(NWords, r)[i] \in 0..(Base - 1)
    BY DEF Digital
  <2>1. i - 1 \in Words /\ i - 1 # Top /\ i \in 1..NWords
    BY FieldNumbers
  <2>2. r[i - 1] \in 0..(Base - 1)
    BY <2>1 DEF Clean
  <2> QED BY <2>1, <2>2 DEF Up
<1> DEFINE A == Worth(FP, Top, Up(NWords, r))
<1>4. A \in 0..(FP[Top] - 1)
  BY <1>1, <1>3, FieldTable, WorthBound
<1>5. Num(r) = A + r[Top] * FP[Top]
  BY <1>1, <1>2, NumNext DEF Num
<1> HIDE DEF A
<1>6. r[Top] < MSBBase => FieldWordy(r)
  <2> SUFFICES ASSUME r[Top] < MSBBase PROVE FieldWordy(r)
    OBVIOUS
  <2>1. ASSUME NEW i \in Words PROVE r[i] \in 0..(WordBase(i) - 1)
    <3>1. CASE i = Top
      <4>1. MSBBase \in Nat /\ WordBase(i) = MSBBase
        BY <3>1, FieldNumbers DEF WordBase
      <4> QED BY <1>2, <3>1, <4>1
    <3>2. CASE i # Top
      <4>1. WordBase(i) = Base
        BY <3>2 DEF WordBase
      <4> QED BY <3>2, <4>1 DEF Clean
    <3> QED BY <3>1, <3>2
  <2>2. r \in [Words -> Nat]
    BY DEF Clean
  <2> QED BY <2>1, <2>2 DEF FieldWordy
<1> QED BY <1>2, <1>4, <1>5, <1>6

LEMMA MaskedIs ==
    ASSUME NEW col, \A i \in Words : col[i] \in Nat, NEW m, CarriedRight(col, Top, m)
    PROVE  Clean(Masked(m)) /\ Num(Masked(m)) = Num(col) /\ Masked(m)[Top] = m[Top]
<1> DEFINE r == Masked(m)
           z == Up(NWords, col)
           y == Up(NWords, r)
<1>1. /\ Words = 0..Top /\ Top \in Nat \ {0} /\ Top + 1 = NWords /\ Top \in Words
      /\ Top + 1 <= 2 * NWords /\ Base \in Nat \ {0} /\ Top \in 0..Top
  BY FieldNumbers
<1>2. \A i \in 0..Top : m[i] \in Nat
  BY DEF CarriedRight
<1>3. \A i \in Words : r[i] = IF i = Top THEN m[i] ELSE m[i] % Base
  BY DEF Masked
<1>4. ASSUME NEW i \in Words, i # Top PROVE r[i] \in 0..(Base - 1)
  <2> DEFINE a == m[i]
  <2>1. a \in Int /\ r[i] = a % Base
    BY <1>1, <1>2, <1>3, <1>4
  <2> HIDE DEF a, r
  <2> QED BY <1>1, <2>1, DivMod
<1>5. r \in [Words -> Nat]
  <2>1. ASSUME NEW i \in Words PROVE r[i] \in Nat
    <3>1. CASE i = Top
      BY <1>1, <1>2, <1>3, <3>1
    <3>2. CASE i # Top
      <4>1. r[i] \in 0..(Base - 1)
        BY <1>4, <3>2
      <4> QED BY <1>1, <4>1
    <3> QED BY <3>1, <3>2
  <2>2. r = [i \in Words |-> r[i]]
    BY DEF Masked
  <2> HIDE DEF r
  <2> QED BY <2>1, <2>2
<1> HIDE DEF r
<1>6. Clean(r)
  BY <1>4, <1>5 DEF Clean
<1>7. \A i \in 1..Top : z[i] = col[i - 1] /\ y[i] = m[i - 1] % Base
  <2> SUFFICES ASSUME NEW i \in 1..Top PROVE z[i] = col[i - 1] /\ y[i] = m[i - 1] % Base
    OBVIOUS
  <2>1. i - 1 \in Words /\ i - 1 # Top /\ i \in 1..NWords
    BY <1>1
  <2>2. r[i - 1] = m[i - 1] % Base
    BY <1>3, <2>1
  <2> QED BY <2>1, <2>2 DEF Up
<1>8. z[Top + 1] = col[Top]
  <2>1. Top + 1 \in 1..NWords /\ (Top + 1) - 1 = Top
    BY <1>1
  <2> QED BY <2>1 DEF Up
<1> HIDE DEF z, y
<1>9. Worth(FP, Top + 1, z) = Worth(FP, Top, y) + m[Top] * FP[Top]
  <2>1. /\ Top \in Nat \ {0} /\ Top + 1 <= 2 * NWords /\ CarriedRight(col, Top, m)
        /\ z[Top + 1] = col[Top]
    BY <1>1, <1>8
  <2>2. \A i \in 0..Top : col[i] \in Nat
    BY <1>1
  <2> QED BY <1>7, <2>1, <2>2, CarriedNum
<1>10. Num(r) = Worth(FP, Top, y) + r[Top] * FP[Top]
  BY <1>1, <1>6, CleanNum, NumNext DEF Num, y
<1>11. r[Top] = m[Top]
  BY <1>1, <1>3
<1>12. Num(col) = Worth(FP, Top + 1, z)
  BY <1>1 DEF Num, z
<1> QED BY <1>6, <1>9, <1>10, <1>11, <1>12 DEF r

-----------------------------------------------------------------------------
(* How far words are filled.                                               *)

\* The slack of a word: only the third one has any.
Slack(i) == IF i = 2 THEN CarrySlack ELSE 0
Within(w, mag) ==
    w \in [Words -> Nat] /\ \A i \in Words : w[i] <= mag * (WordBase(i) - 1 + Slack(i))

Fill == CallerMax * WordMax

LEMMA FieldRoom ==
    /\ CallerMax \in Nat /\ MulMax \in 2..CallerMax /\ NegateMax \in 1..(CallerMax - 1)
    /\ CarrySlack \in Nat /\ C0 <= CarrySlack /\ C1 <= CarrySlack
    /\ WordMax \in Nat /\ WordMax = Base - 1 + CarrySlack
    /\ Base >= 4 /\ WordMod \in Nat \ {0} /\ DoubleMod \in Nat \ {0}
    /\ NegateMax * CarrySlack < Base
    /\ (NegateMax + 1) * C0 < Base /\ (NegateMax + 1) * C1 < Base
    /\ Fill \in Nat /\ CarryOf(Fill) \in Nat /\ Fill + CarryOf(Fill) < WordMod
    /\ 2 * CarryOf(Fill) <= MSBBase /\ Fill >= 2 * WordMax
<1>1. /\ CallerMax \in Nat /\ MulMax \in 2..CallerMax /\ NegateMax \in 1..(CallerMax - 1)
      /\ C0 \in 1..(Base - 1) /\ C1 \in 0..(Base - 2)
  BY FieldAssumption
<1>2. /\ CarrySlack \in Nat /\ C0 <= CarrySlack /\ C1 <= CarrySlack
      /\ Fill + CarryOf(Fill) < WordMod /\ 2 * CarryOf(Fill) <= MSBBase
      /\ NegateMax * CarrySlack < Base
      /\ (NegateMax + 1) * C0 < Base /\ (NegateMax + 1) * C1 < Base
  BY RoomAssumption DEF Fill
<1>3. Base \in Nat /\ Base > 1 /\ Base % 2 = 0 /\ WordMod \in Nat \ {0} /\ DoubleMod \in Nat \ {0}
  BY FieldNumbers, FieldPowerAssumption, Zenon
<1>4. Base >= 4
  <2> DEFINE b == Base
             n == NegateMax + 1
  <2>1. b \in Nat /\ b > 1 /\ b % 2 = 0 /\ n \in Nat /\ n >= 2 /\ n * C0 < b /\ C0 \in Nat /\ C0 >= 1
    BY <1>1, <1>2, <1>3
  <2> HIDE DEF b, n
  <2>2. n * C0 >= n
    BY <2>1
  <2>3. b > 2
    BY <2>1, <2>2
  <2>4. b # 3
    BY <2>1
  <2>5. b >= 4
    BY <2>1, <2>3, <2>4
  <2> QED BY <2>5 DEF b
<1>5. WordMax \in Nat /\ WordMax = Base - 1 + CarrySlack
  BY <1>2, <1>3 DEF WordMax
<1>6. Fill \in Nat /\ Fill >= 2 * WordMax
  <2> DEFINE c == CallerMax
             w == WordMax
  <2>1. c \in Nat /\ c >= 2 /\ w \in Nat
    BY <1>1, <1>5
  <2> HIDE DEF c, w
  <2>2. c * w >= 2 * w /\ c * w \in Nat
    BY <2>1
  <2> QED BY <2>2 DEF c, w, Fill
<1>7. CarryOf(Fill) \in Nat
  <2> DEFINE e == Base - 1
  <2>1. e \in Nat \ {0}
    BY FieldNumbers
  <2> HIDE DEF e
  <2>2. Fill \div e \in Nat
    BY <1>6, <2>1
  <2> QED BY <2>2 DEF e, CarryOf
<1> QED BY <1>1, <1>2, <1>3, <1>4, <1>5, <1>6, <1>7

LEMMA WithinIs ==
    ASSUME NEW mag \in 0..CallerMax, NEW w, Within(w, mag)
    PROVE  /\ WholeWords(w)
           /\ \A i \in Words : /\ w[i] \in Nat /\ w[i] <= Fill /\ w[i] < WordMod
                               /\ WordBase(i) - 1 + Slack(i) \in 0..WordMax
<1>1. w \in [Words -> Nat] /\ \A i \in Words : w[i] <= mag * (WordBase(i) - 1 + Slack(i))
  BY DEF Within
<1>2. ASSUME NEW i \in Words
      PROVE  /\ w[i] \in Nat /\ w[i] <= Fill /\ w[i] < WordMod
             /\ WordBase(i) - 1 + Slack(i) \in 0..WordMax
  <2> DEFINE d == WordBase(i) - 1 + Slack(i)
             c == CallerMax
             e == WordMax
             a == w[i]
  <2>1. d \in 0..e
    BY FieldNumbers, FieldRoom DEF WordBase, Slack
  <2>2. e \in Nat /\ mag \in 0..c /\ c \in Nat /\ a \in Nat /\ a <= mag * d /\ Fill = c * e
    BY <1>1, FieldRoom DEF Fill
  <2>3. Fill < WordMod /\ Fill \in Nat /\ WordMod \in Nat
    BY FieldRoom
  <2> HIDE DEF d, c, e, a
  <2>4. mag * d <= mag * e /\ mag * e <= c * e /\ mag * d \in Int /\ mag * e \in Int /\ c * e \in Int
    BY <2>1, <2>2
  <2>5. a <= Fill
    BY <2>2, <2>4
  <2>6. a < WordMod
    BY <2>2, <2>3, <2>5
  <2> QED BY <2>1, <2>2, <2>5, <2>6 DEF a, d, e
<1>3. WholeWords(w)
  BY <1>2 DEF WholeWords
<1> QED BY <1>2, <1>3

-----------------------------------------------------------------------------
(* One pass of a reduction.                                                *)

Pass(w, k) == Masked(FoldIn(w, k))

\* A pass adds its multiples of what 2^bits exceeds the prime by.
LEMMA PassIs ==
    ASSUME NEW w \in [Words -> Nat], NEW k \in Nat, \A i \in Words : w[i] <= Fill,
           w[0] + k * C0 <= Fill, w[1] + k * C1 <= Fill
    PROVE  /\ Clean(Pass(w, k)) /\ Num(Pass(w, k)) = Num(w) + k * PMinus
           /\ Pass(w, k)[Top] \in 0..(w[Top] + CarryOf(Fill))
<1> DEFINE a == k * C0
           c == k * C1
           mid == [i \in Words |-> IF i = 0 THEN w[i] + a ELSE w[i]]
           col == [w EXCEPT ![0] = @ + k * C0, ![1] = @ + k * C1]
           m == Carried(col, Top, WordMod)
<1>1. /\ Words = 0..Top /\ Top \in Nat \ {0} /\ Top > 1 /\ 0 \in Words /\ 1 \in Words /\ Top \in Words
      /\ C0 \in Nat /\ C1 \in Nat /\ Base \in Nat
  BY FieldNumbers
<1>2. a \in Nat /\ c \in Nat
  BY <1>1
<1>3. \A i \in Words : w[i] \in Nat
  OBVIOUS
<1>4. col = [i \in Words |-> IF i = 1 THEN w[1] + c ELSE IF i = 0 THEN w[0] + a ELSE w[i]]
  BY <1>1
<1>5. \A i \in Words : col[i] = IF i = 1 THEN w[1] + c ELSE IF i = 0 THEN w[0] + a ELSE w[i]
  BY <1>4, Zenon
<1>6. \A i \in Words : mid[i] = IF i = 0 THEN w[i] + a ELSE w[i]
  BY Zenon
<1> HIDE DEF col, mid
<1>7. w[0] + a <= Fill /\ w[1] + c <= Fill
  OBVIOUS
<1> HIDE DEF a, c
<1>8. \A i \in Words : col[i] = IF i = 1 THEN mid[i] + c ELSE mid[i]
  <2> SUFFICES ASSUME NEW i \in Words PROVE col[i] = IF i = 1 THEN mid[i] + c ELSE mid[i]
    OBVIOUS
  <2>1. mid[i] = IF i = 0 THEN w[i] + a ELSE w[i]
    BY <1>6
  <2>2. col[i] = IF i = 1 THEN w[1] + c ELSE IF i = 0 THEN w[0] + a ELSE w[i]
    BY <1>5
  <2> QED BY <2>1, <2>2
<1>9. Num(col) = Num(w) + k * PMinus /\ WholeWords(col)
  <2>1. WholeWords(w)
    BY <1>3 DEF WholeWords
  <2>a. a \in Int /\ c \in Int /\ 0 \in Words /\ 1 \in Words
    BY <1>1, <1>2
  <2>2. WholeWords(mid) /\ Num(mid) = Num(w) + a * FP[0]
    BY <1>6, <2>a, <2>1, NumAdded, Zenon
  <2>3. WholeWords(col) /\ Num(col) = Num(mid) + c * FP[1]
    BY <1>8, <2>a, <2>2, NumAdded, Zenon
  <2>4. FP[0] = 1 /\ FP[1] = Base /\ Num(w) \in Int
    BY <2>1, FieldTable, SmallPowers, UpWhole
  <2>5. a * 1 = a
    BY <1>2
  <2> DEFINE b == Base
             o == k * (C1 * b + C0)
  <2>6. c * b + a = o /\ o \in Int /\ c * b \in Int
    <3>1. b \in Nat
      BY <1>1
    <3> HIDE DEF b
    <3>2. C1 * b \in Int /\ (k * C1) * b = k * (C1 * b)
      BY <1>1, <3>1, Ring
    <3>3. k * (C1 * b + C0) = k * (C1 * b) + k * C0
      BY <1>1, <3>2, Ring
    <3>4. k * (C1 * b) \in Int /\ k * C0 \in Int
      BY <1>1, <3>2
    <3> QED BY <3>2, <3>3, <3>4 DEF a, c
  <2>7. o = k * PMinus
    BY DEF PMinus
  <2> HIDE DEF b, o
  <2>8. Num(col) = (Num(w) + a) + c * b
    BY <2>2, <2>3, <2>4, <2>5 DEF b
  <2>9. Num(col) = Num(w) + o
    BY <1>2, <2>4, <2>6, <2>8
  <2> QED BY <2>3, <2>7, <2>9
<1>10. \A i \in Words : col[i] \in 0..Fill
  <2> SUFFICES ASSUME NEW i \in Words PROVE col[i] \in 0..Fill
    OBVIOUS
  <2>1. w[i] \in 0..Fill /\ Fill \in Nat /\ w[0] \in Nat /\ w[1] \in Nat
    BY <1>1, FieldRoom
  <2>2. col[i] = IF i = 1 THEN w[1] + c ELSE IF i = 0 THEN w[0] + a ELSE w[i]
    BY <1>5
  <2> QED BY <1>2, <1>7, <2>1, <2>2
<1>11. FoldIn(w, k) = m
  BY DEF FoldIn, col
<1>12. col[Top] = w[Top]
  <2>1. Top # 1 /\ Top # 0
    BY <1>1
  <2> QED BY <1>1, <1>5, <2>1
<1>13. CarriedRight(col, Top, m) /\ m[Top] <= col[Top] + CarryOf(Fill)
  <2> DEFINE X == Fill
             M == WordMod
  <2>1. Top \in Nat \ {0} /\ M \in Nat \ {0} /\ X \in Nat /\ X + CarryOf(X) < M /\ CarryOf(X) \in Nat
    BY <1>1, FieldRoom
  <2>2. (\A i \in 0..(Top - 1) : col[i] \in 0..X) /\ col[Top] \in Nat /\ col[Top] <= X
    <3>1. \A i \in 0..(Top - 1) : i \in Words
      BY <1>1
    <3> QED BY <1>1, <1>10, <3>1, <2>1
  <2>3. col[Top] + CarryOf(X) < M
    BY <2>1, <2>2
  <2> HIDE DEF X, M
  <2>4. CarriedRight(col, Top, Carried(col, Top, M)) /\ Carried(col, Top, M)[Top] <= col[Top] + CarryOf(X)
    BY <2>1, <2>2, <2>3, CarriedIs
  <2> QED BY <2>4 DEF X, M
<1> HIDE DEF m
<1>14. \A i \in Words : col[i] \in Nat
  BY <1>10
<1>15. Clean(Masked(m)) /\ Num(Masked(m)) = Num(col) /\ Masked(m)[Top] = m[Top]
  BY <1>13, <1>14, MaskedIs
<1>16. Pass(w, k) = Masked(m)
  BY <1>11 DEF Pass
<1>17. m[Top] \in Nat /\ Top \in 0..Top
  <2>1. Top \in 0..Top
    BY <1>1
  <2> QED BY <1>13, <2>1 DEF CarriedRight
<1>18. w[Top] \in Nat /\ CarryOf(Fill) \in Nat
  BY <1>1, FieldRoom
<1>19. m[Top] \in 0..(w[Top] + CarryOf(Fill))
  BY <1>12, <1>13, <1>17, <1>18
<1> QED BY <1>9, <1>15, <1>16, <1>19

\* The top word, cut down to its bits: what is cut off counts in multiples of
\* Limit.
Cut(w) == [w EXCEPT ![Top] = @ % MSBBase]

LEMMA CutIs ==
    ASSUME NEW w \in [Words -> Nat]
    PROVE  /\ Cut(w) \in [Words -> Nat] /\ Cut(w)[Top] \in 0..(MSBBase - 1)
           /\ \A i \in Words : i # Top => Cut(w)[i] = w[i]
           /\ w[Top] \div MSBBase \in Nat
           /\ w[Top] = (w[Top] \div MSBBase) * MSBBase + Cut(w)[Top]
           /\ Num(w) = Num(Cut(w)) + (w[Top] \div MSBBase) * Limit
<1> DEFINE u == Cut(w)
           t == w[Top]
           m == MSBBase
           q == t \div m
           s == t % m
           p == FP[Top]
           a == q * m
<1>1. /\ Top \in Words /\ m \in Nat \ {0} /\ t \in Nat /\ t \in Int /\ p \in Nat \ {0} /\ p \in Int
      /\ Limit = p * m
  <2>1. Top \in Words /\ m \in Nat \ {0}
    BY FieldNumbers
  <2>2. Top \in 0..(2 * NWords)
    BY FieldNumbers
  <2>3. p \in Nat \ {0} /\ Limit = p * m
    BY <2>2, FieldTable DEF Weights
  <2> QED BY <2>1, <2>3
<1>2. s \in 0..(m - 1) /\ t = q * m + s
  <2> HIDE DEF t
  <2> QED BY <1>1, DivMod, Zenon
<1>3. q \in Nat
  <2>1. t \in Nat /\ m \in Nat \ {0}
    BY <1>1
  <2> HIDE DEF t, m
  <2> QED BY <2>1
<1>4. \A i \in Words : u[i] = IF i = Top THEN s ELSE w[i]
  BY DEF Cut
<1>5. u = [i \in Words |-> u[i]]
  BY DEF Cut
<1> HIDE DEF u, t, q, s, m, p
<1>6. a \in Int
  BY <1>1, <1>3
<1>7. \A i \in Words : u[i] \in Nat
  BY <1>2, <1>4, <1>1
<1>8. u \in [Words -> Nat]
  BY <1>5, <1>7
<1>9. WholeWords(u)
  BY <1>7 DEF WholeWords
<1>10. \A i \in Words : w[i] = IF i = Top THEN u[i] + a ELSE u[i]
  <2> SUFFICES ASSUME NEW i \in Words PROVE w[i] = IF i = Top THEN u[i] + a ELSE u[i]
    OBVIOUS
  <2>1. CASE i = Top
    <3>1. u[i] = s /\ w[i] = t
      BY <1>4, <2>1 DEF t
    <3>2. t = s + a
      BY <1>1, <1>2, <1>6
    <3> QED BY <2>1, <3>1, <3>2
  <2>2. CASE i # Top
    BY <1>4, <2>2
  <2> QED BY <2>1, <2>2
<1> HIDE DEF a
<1>11. Num(w) = Num(u) + a * p
  BY <1>1, <1>6, <1>9, <1>10, NumAdded DEF p
<1>12. a * p = q * Limit
  <2>1. q \in Int /\ m \in Int
    BY <1>1, <1>3
  <2>2. (q * m) * p = q * (m * p) /\ m * p = p * m
    BY <1>1, <2>1, Ring
  <2> QED BY <1>1, <2>2 DEF a
<1>13. u[Top] = s
  BY <1>1, <1>4
<1>14. \A i \in Words : i # Top => u[i] = w[i]
  BY <1>4
<1> QED BY <1>2, <1>3, <1>8, <1>11, <1>12, <1>13, <1>14 DEF u, t, q, m

LEMMA LargePrime == 4 * PMinus <= Limit /\ 3 * Limit <= 4 * P
<1> DEFINE b == Base
           k == FP[2]
<1>1. b \in Nat /\ b >= 4 /\ k \in Nat \ {0} /\ Limit >= k * b /\ PMinus \in Nat /\ PMinus < k
      /\ P + PMinus = Limit /\ P \in Nat /\ Limit \in Nat
  <2>1. b \in Nat /\ b >= 4
    BY FieldNumbers, FieldRoom, Zenon
  <2>2. k \in Nat \ {0} /\ Limit >= k * b
    BY SmallPowers, Zenon
  <2>3. PMinus \in Nat /\ PMinus < k /\ P + PMinus = Limit /\ P \in Nat /\ Limit \in Nat
    <3>1. PMinus \in Nat \ {0} /\ PMinus < k /\ P + PMinus = Limit /\ P \in Nat \ {0} /\ Limit \in Nat
      BY PrimeBounds, Zenon
    <3> HIDE DEF k
    <3> QED BY <3>1
  <2> QED BY <2>1, <2>2, <2>3, Zenon
<1> HIDE DEF b, k
<1>2. k * b >= 4 * k /\ k * b \in Int
  BY <1>1
<1>3. 4 * PMinus <= Limit
  BY <1>1, <1>2
<1> QED BY <1>1, <1>3

LEMMA ReachesPrimeIs ==
    ASSUME NEW r, Clean(r), r[Top] < 2 * MSBBase
    PROVE  ReachesPrime(r) <=> Num(r) >= P
<1> DEFINE m == MSBBase
           t == r[Top]
<1>1. /\ Top \in Words /\ 0 \in Words /\ 1 \in Words /\ Top # 0 /\ Top # 1 /\ 0 # 1
      /\ m \in Nat \ {0} /\ t \in Nat /\ t < 2 * m
  <2>1. Top \in Words /\ 0 \in Words /\ 1 \in Words /\ Top # 0 /\ Top # 1 /\ m \in Nat \ {0}
    BY FieldNumbers
  <2>2. t \in Nat
    BY CleanNum
  <2> QED BY <2>1, <2>2
<1>2. CASE t >= m
  <2>1. t \div m = 1
    <3> HIDE DEF t, m
    <3> DEFINE s == t - m
    <3>1. s \in 0..(m - 1) /\ t = 1 * m + s
      BY <1>1, <1>2
    <3> HIDE DEF s
    <3> QED BY <1>1, <3>1, DivIs
  <2>2. ReachesPrime(r)
    BY <2>1 DEF ReachesPrime
  <2>3. Num(r) >= P
    <3> DEFINE p == FP[Top]
               n == Num(r)
    <3>1. PICK A \in 0..(p - 1) : n = A + t * p
      BY CleanNum
    <3>2. p \in Nat \ {0} /\ Limit = p * m
      <4>1. Top \in 0..(2 * NWords)
        BY FieldNumbers
      <4> QED BY <4>1, FieldTable DEF Weights
    <3>3. P < Limit /\ P \in Nat /\ Limit \in Nat
      BY PrimeBounds
    <3> HIDE DEF p, n, t, m
    <3>4. t * p >= m * p /\ m * p = p * m /\ t * p \in Int /\ p * m \in Int
      BY <1>1, <1>2, <3>2
    <3>5. n >= Limit
      BY <3>1, <3>2, <3>4
    <3>6. n >= P
      <4>1. n \in Int
        BY <3>1, <3>2, <3>4
      <4> QED BY <3>3, <3>5, <4>1
    <3> QED BY <3>6 DEF n
  <2> QED BY <2>2, <2>3
<1>3. CASE t < m
  <2>1. FieldWordy(r)
    BY <1>3, CleanNum
  <2>2. Num(r) >= P <=> (HighPrime(r) /\ LowPrime(r))
    BY <2>1, PrimeCompare
  <2>3. t \div m # 1
    <3> HIDE DEF t, m
    <3>1. t \in 0..(m - 1)
      BY <1>1, <1>3
    <3>2. t = 0 * m + t /\ 0 \in Int
      BY <1>1
    <3>3. t \div m = 0
      BY <1>1, <3>1, <3>2, DivIs
    <3> QED BY <3>3
  <2> DEFINE b == Base
             x == r[0]
             y == r[1]
             high == r[Top] = m - 1 /\ \A i \in Words \ {0, 1, Top} : r[i] = b - 1
             low == y + C1 + ((x + C0) \div b) > b - 1
  <2>4. HighPrime(r) <=> high
    <3>1. PrimeWord(Top) = m - 1
      BY <1>1 DEF PrimeWord
    <3>2. \A i \in Words \ {0, 1, Top} : PrimeWord(i) = b - 1
      BY DEF PrimeWord
    <3> HIDE DEF m, b
    <3> QED BY <1>1, <3>1, <3>2 DEF HighPrime
  <2>5. LowPrime(r) <=> low
    <3>1. PrimeWord(0) = b - C0 /\ PrimeWord(1) = b - 1 - C1
      BY <1>1 DEF PrimeWord
    <3>2. /\ b \in Nat \ {0} /\ C0 \in 1..(b - 1) /\ C1 \in 0..(b - 2)
          /\ x \in 0..(b - 1) /\ y \in 0..(b - 1)
      <4>1. x \in 0..(b - 1) /\ y \in 0..(b - 1)
        BY <1>1 DEF Clean
      <4> QED BY <4>1, FieldNumbers
    <3>3. LowPrime(r) <=> (y > b - 1 - C1 \/ (y = b - 1 - C1 /\ x >= b - C0))
      BY <3>1 DEF LowPrime
    <3> DEFINE v == x + C0
               c == v \div b
    <3> HIDE DEF b, x, y
    <3>4. CASE x >= b - C0
      <4> DEFINE s == v - b
      <4>1. s \in 0..(b - 1) /\ v = 1 * b + s
        BY <3>2, <3>4
      <4> HIDE DEF s, v
      <4>2. c = 1
        BY <3>2, <4>1, DivIs
      <4>3. low <=> y + C1 + 1 > b - 1
        BY <4>2 DEF c, v
      <4> HIDE DEF low, c
      <4> QED BY <3>2, <3>3, <3>4, <4>3
    <3>5. CASE x < b - C0
      <4>1. v \in 0..(b - 1) /\ v = 0 * b + v /\ 0 \in Int
        BY <3>2, <3>5
      <4> HIDE DEF v
      <4>2. c = 0
        BY <3>2, <4>1, DivIs
      <4>3. low <=> y + C1 + 0 > b - 1
        BY <4>2 DEF c, v
      <4> HIDE DEF low, c
      <4> QED BY <3>2, <3>3, <3>5, <4>3
    <3>6. x \in Int /\ b - C0 \in Int
      BY <3>2
    <3> QED BY <3>4, <3>5, <3>6
  <2>6. ReachesPrime(r) <=> (high /\ low)
    <3> HIDE DEF high, low
    <3>1. ReachesPrime(r) <=> ((high /\ low) \/ t \div m = 1)
      BY DEF ReachesPrime, high, low
    <3> QED BY <2>3, <3>1
  <2> HIDE DEF high, low
  <2> QED BY <2>2, <2>4, <2>5, <2>6
<1>4. t \in Int /\ m \in Int
  BY <1>1
<1> QED BY <1>2, <1>3, <1>4

\* A number below twice the prime: what is left of it.
LEMMA BelowTwice ==
    ASSUME NEW n \in Nat, n < 2 * P
    PROVE  n % P = IF n < P THEN n ELSE n - P
<1>1. P \in Nat \ {0}
  BY PrimeBounds, Zenon
<1>2. CASE n < P
  <2>1. n \in 0..(P - 1)
    BY <1>1, <1>2
  <2>2. n % P = n
    BY <1>1, <2>1, ModSmall
  <2> QED BY <1>2, <2>2
<1>3. CASE ~(n < P)
  <2> DEFINE r == n - P
  <2>1. r \in 0..(P - 1) /\ n = 1 * P + r /\ 1 \in Int
    BY <1>1, <1>3
  <2> HIDE DEF r
  <2>2. n % P = r
    BY <1>1, <2>1, DivIs
  <2> QED BY <1>3, <2>2 DEF r
<1> QED BY <1>2, <1>3

\* The first pass: what is left is the number, less some multiples of the
\* prime, and less than one and a half times 2^bits.
LEMMA FirstPass ==
    ASSUME NEW mag \in 1..CallerMax, NEW w, Within(w, mag)
    PROVE  /\ Clean(Pass(Cut(w), w[Top] \div MSBBase))
           /\ Pass(Cut(w), w[Top] \div MSBBase)[Top] < 2 * MSBBase
           /\ Pass(Cut(w), w[Top] \div MSBBase)[Top] + CarryOf(Fill) < 2 * MSBBase
           /\ Num(Pass(Cut(w), w[Top] \div MSBBase)) \in 0..(2 * P - 1)
           /\ Num(Pass(Cut(w), w[Top] \div MSBBase)) % P = Num(w) % P
<1> DEFINE u == Cut(w)
           m == MSBBase
           t == w[Top]
           q == w[Top] \div MSBBase
           r == Pass(u, q)
           CC == CarryOf(Fill)
           b == Base
<1>1. /\ mag \in 0..CallerMax /\ w \in [Words -> Nat] /\ WholeWords(w)
      /\ \A i \in Words : w[i] <= mag * (WordBase(i) - 1 + Slack(i)) /\ w[i] <= Fill /\ w[i] \in Nat
  <2>1. mag \in 0..CallerMax
    OBVIOUS
  <2> QED BY <2>1, WithinIs DEF Within
<1>2. /\ u \in [Words -> Nat] /\ u[Top] \in 0..(m - 1)
      /\ \A i \in Words : i # Top => u[i] = w[i]
      /\ q \in Nat /\ t = q * m + u[Top] /\ Num(w) = Num(u) + q * Limit
  BY <1>1, CutIs
<1>3. /\ Top \in Words /\ 0 \in Words /\ 1 \in Words /\ Top # 0 /\ Top # 1 /\ Top # 2 /\ 0 # 2 /\ 1 # 2
      /\ m \in Nat \ {0} /\ b \in Nat /\ b > 1 /\ C0 \in Nat /\ C1 \in Nat /\ m <= b
  BY FieldNumbers
<1>4. /\ CallerMax \in Nat /\ CarrySlack \in Nat /\ C0 <= CarrySlack /\ C1 <= CarrySlack
      /\ Fill = CallerMax * WordMax /\ WordMax = b - 1 + CarrySlack /\ WordMax \in Nat /\ Fill \in Nat
  BY FieldRoom DEF Fill
<1>5. CC \in Nat /\ 2 * CC <= m /\ Fill >= 2 * WordMax
  BY FieldRoom
<1>6. t <= mag * (m - 1) /\ w[0] <= mag * (b - 1) /\ w[1] <= mag * (b - 1)
  <2>1. WordBase(Top) = m /\ WordBase(0) = b /\ WordBase(1) = b
        /\ Slack(Top) = 0 /\ Slack(0) = 0 /\ Slack(1) = 0
    BY <1>3 DEF WordBase, Slack
  <2>2. t <= mag * (WordBase(Top) - 1 + Slack(Top)) /\ w[0] <= mag * (WordBase(0) - 1 + Slack(0))
        /\ w[1] <= mag * (WordBase(1) - 1 + Slack(1))
    BY <1>1, <1>3
  <2>3. m - 1 + 0 = m - 1 /\ b - 1 + 0 = b - 1
    BY <1>3
  <2> QED BY <2>1, <2>2, <2>3
<1>7. w[0] \in Nat /\ w[1] \in Nat /\ t \in Nat /\ u[0] = w[0] /\ u[1] = w[1] /\ u[Top] \in Nat
      /\ u[Top] <= t
  <2>1. w[0] \in Nat /\ w[1] \in Nat /\ t \in Nat /\ u[0] = w[0] /\ u[1] = w[1] /\ u[Top] \in Nat
    BY <1>1, <1>2, <1>3
  <2> DEFINE v == u[Top]
  <2>2. v \in Nat /\ t = q * m + v /\ q \in Nat /\ m \in Nat
    BY <1>2, <1>3, <2>1
  <2> HIDE DEF v, q, m, t
  <2>3. q * m \in Nat
    BY <2>2
  <2>4. v <= t
    BY <2>2, <2>3
  <2> QED BY <2>1, <2>4 DEF v, t
<1>8. q <= mag
  <2> DEFINE v == u[Top]
  <2>1. v \in Nat /\ t = q * m + v /\ q \in Nat /\ m \in Nat \ {0} /\ mag \in Nat /\ t <= mag * (m - 1)
    BY <1>2, <1>3, <1>4, <1>6, <1>7
  <2> HIDE DEF v, q, m, t
  <2> SUFFICES ASSUME q > mag PROVE FALSE
    BY <2>1
  <2>2. q * m >= (mag + 1) * m /\ (mag + 1) * m = mag * m + m /\ mag * (m - 1) = mag * m - mag
        /\ mag * m \in Int /\ q * m \in Int
    BY <2>1
  <2> QED BY <2>1, <2>2
<1>9. ASSUME NEW y \in Nat, y <= mag * (b - 1), NEW c \in Nat, c <= CarrySlack
      PROVE  y + q * c <= Fill
  <2>1. /\ q \in Nat /\ mag \in Nat /\ b \in Nat /\ b > 1 /\ q <= mag /\ mag <= CallerMax
        /\ CallerMax \in Nat /\ CarrySlack \in Nat
        /\ Fill = CallerMax * (b - 1 + CarrySlack)
    BY <1>2, <1>3, <1>4, <1>8
  <2> HIDE DEF q, b
  <2>2. q * c <= CallerMax * c /\ CallerMax * c <= CallerMax * CarrySlack
        /\ mag * (b - 1) <= CallerMax * (b - 1)
        /\ q * c \in Int /\ CallerMax * c \in Int /\ CallerMax * CarrySlack \in Int
        /\ mag * (b - 1) \in Int /\ CallerMax * (b - 1) \in Int
    <3>1. b - 1 \in Nat /\ q <= CallerMax
      BY <2>1
    <3> DEFINE e == b - 1
    <3> HIDE DEF e
    <3>2. e \in Nat
      BY <3>1 DEF e
    <3>3. mag * e <= CallerMax * e /\ mag * e \in Int /\ CallerMax * e \in Int
      BY <2>1, <3>2
    <3>4. q * c <= CallerMax * c /\ CallerMax * c <= CallerMax * CarrySlack
          /\ q * c \in Int /\ CallerMax * c \in Int /\ CallerMax * CarrySlack \in Int
      BY <2>1, <3>1, <1>9
    <3> QED BY <3>3, <3>4 DEF e
  <2>3. CallerMax * (b - 1 + CarrySlack) = CallerMax * (b - 1) + CallerMax * CarrySlack
    <3>1. b - 1 \in Int
      BY <2>1
    <3> DEFINE e == b - 1
    <3> HIDE DEF e
    <3>2. e \in Int
      BY <3>1 DEF e
    <3>3. CallerMax * (e + CarrySlack) = CallerMax * e + CallerMax * CarrySlack
      BY <2>1, <3>2
    <3> QED BY <3>3 DEF e
  <2> QED BY <1>9, <2>1, <2>2, <2>3
<1>10. \A i \in Words : u[i] <= Fill
  <2> SUFFICES ASSUME NEW i \in Words PROVE u[i] <= Fill
    OBVIOUS
  <2>1. CASE i = Top
    <3>1. t <= Fill
      BY <1>1, <1>3
    <3> QED BY <1>4, <1>7, <2>1, <3>1
  <2>2. CASE i # Top
    BY <1>1, <1>2, <2>2
  <2> QED BY <2>1, <2>2
<1>11. u[0] + q * C0 <= Fill /\ u[1] + q * C1 <= Fill
  BY <1>3, <1>4, <1>6, <1>7, <1>9
<1> HIDE DEF u, m, t, q, r, CC, b
<1>12. Clean(r) /\ Num(r) = Num(u) + q * PMinus /\ r[Top] \in 0..(u[Top] + CC)
  BY <1>2, <1>10, <1>11, PassIs DEF r, CC
<1>13. r[Top] \in Nat /\ 2 * r[Top] + 2 <= 3 * m /\ r[Top] < 2 * m /\ r[Top] + CC < 2 * m
  BY <1>2, <1>3, <1>5, <1>12
<1> DEFINE p == FP[Top]
           n == Num(r)
           h == r[Top]
<1>14. PICK A \in 0..(p - 1) : n = A + h * p
  BY <1>12, CleanNum
<1>15. p \in Nat \ {0} /\ Limit = p * m /\ Limit \in Nat
  <2>1. Top \in 0..(2 * NWords)
    BY FieldNumbers
  <2> QED BY <2>1, FieldTable DEF Weights, m
<1>16. P \in Nat \ {0} /\ 3 * Limit <= 4 * P /\ P + PMinus = Limit /\ PMinus \in Int
  <2>1. P \in Nat \ {0} /\ P + PMinus = Limit /\ PMinus \in Nat \ {0}
    BY PrimeBounds, Zenon
  <2> QED BY <2>1, LargePrime
<1> HIDE DEF p, n, h
<1>17. n \in Nat /\ n < 2 * P
  <2>1. h \in Nat /\ 2 * h + 2 <= 3 * m /\ m \in Nat
    BY <1>3, <1>13 DEF h
  <2>2. h * p \in Nat
    BY <1>15, <2>1
  <2>3. (2 * h + 2) * p <= (3 * m) * p /\ (2 * h + 2) * p = 2 * (h * p) + 2 * p
        /\ (3 * m) * p = 3 * (p * m) /\ p * m \in Int
    <3> DEFINE x == 2 * h + 2
               y == 3 * m
    <3>1. x \in Nat /\ y \in Nat /\ x <= y /\ p \in Nat
      BY <1>15, <2>1
    <3> HIDE DEF x, y
    <3>2. x * p <= y * p
      BY <3>1
    <3>3. (2 * h + 2) * p = 2 * (h * p) + 2 * p /\ (3 * m) * p = 3 * (p * m) /\ p * m \in Int
      BY <1>15, <2>1
    <3> QED BY <3>2, <3>3 DEF x, y
  <2>4. 2 * n < 3 * Limit
    BY <1>14, <1>15, <2>2, <2>3
  <2> QED BY <1>14, <1>15, <1>16, <2>2, <2>4
<1>18. n % P = Num(w) % P
  <2>1. Num(w) \in Int /\ Num(u) \in Int /\ q \in Int /\ Limit \in Int
    <3>1. WholeWords(u)
      BY <1>2 DEF WholeWords
    <3> QED BY <1>1, <1>2, <1>15, <3>1, UpWhole DEF q
  <2>2. Num(w) = Num(u) + q * Limit
    BY <1>2 DEF q
  <2>3. n = Num(u) + q * PMinus
    BY <1>12 DEF n
  <2>4. q * Limit = q * P + q * PMinus /\ q * P \in Int /\ q * PMinus \in Int
    <3>1. q * (P + PMinus) = q * P + q * PMinus /\ q * P \in Int /\ q * PMinus \in Int
      BY <1>16, <2>1
    <3> QED BY <1>16, <3>1
  <2>5. Num(w) = n + q * P
    BY <2>1, <2>2, <2>3, <2>4
  <2>6. Cong(P, Num(w), n)
    BY <2>1, <2>5 DEF Cong
  <2>7. Num(w) % P = n % P
    <3>1. P \in Nat \ {0} /\ Num(w) \in Int /\ n \in Int
      BY <1>16, <1>17, <2>1
    <3> QED BY <2>6, <3>1, CongIff
  <2> QED BY <2>7
<1>19. n \in 0..(2 * P - 1)
  BY <1>16, <1>17
<1> QED BY <1>12, <1>13, <1>18, <1>19 DEF r, m, q, u, CC, n

\* Whatever words the magnitude allows, Normalize leaves the
\* words of the number, reduced.
LEMMA NormalizeIs ==
    ASSUME NEW mag \in 1..CallerMax, NEW w, Within(w, mag)
    PROVE  Normalize(w) = Packed(Num(w) % P)
<1> DEFINE u == Cut(w)
           q == w[Top] \div MSBBase
           r == Pass(u, q)
           k == IF ReachesPrime(r) THEN 1 ELSE 0
           s == Pass(r, k)
           z == Cut(s)
           m == MSBBase
           n == Num(r)
           e == s[Top] \div MSBBase
<1>1. /\ Clean(r) /\ r[Top] < 2 * m /\ r[Top] + CarryOf(Fill) < 2 * m
      /\ n \in 0..(2 * P - 1) /\ n % P = Num(w) % P
  BY FirstPass
<1>2. Normalize(w) = z
  BY DEF Normalize, Cut, Pass
<1> HIDE DEF u, q, r
<1>3. ReachesPrime(r) <=> n >= P
  BY <1>1, ReachesPrimeIs
<1>4. k = (IF n >= P THEN 1 ELSE 0) /\ k \in 0..1
  BY <1>3
<1> HIDE DEF k
<1>5. /\ Top \in Words /\ 0 \in Words /\ 1 \in Words /\ Top # 0 /\ Top # 1
      /\ m \in Nat \ {0} /\ C0 \in Nat /\ C1 \in Nat /\ Base \in Nat /\ m <= Base
  BY FieldNumbers
<1>6. C0 <= CarrySlack /\ C1 <= CarrySlack /\ Fill >= 2 * WordMax /\ WordMax = Base - 1 + CarrySlack
      /\ CarrySlack \in Nat /\ WordMax \in Nat /\ Fill \in Nat /\ CarryOf(Fill) \in Nat
  BY FieldRoom
<1>7. r \in [Words -> Nat] /\ \A i \in Words : i # Top => r[i] \in 0..(Base - 1)
  BY <1>1 DEF Clean
<1>8. \A i \in Words : r[i] <= Fill
  <2> SUFFICES ASSUME NEW i \in Words PROVE r[i] <= Fill
    OBVIOUS
  <2>1. CASE i = Top
    <3>1. r[Top] \in Nat
      BY <1>5, <1>7
    <3>2. r[Top] <= 2 * WordMax
      BY <1>1, <1>5, <1>6, <3>1, FieldNumbers
    <3> QED BY <1>6, <2>1, <3>1, <3>2
  <2>2. CASE i # Top
    <3>1. r[i] \in 0..(Base - 1)
      BY <1>7, <2>2
    <3> QED BY <1>5, <1>6, <3>1
  <2> QED BY <2>1, <2>2
<1>9. r[0] + k * C0 <= Fill /\ r[1] + k * C1 <= Fill /\ k \in Nat
  <2>1. r[0] \in 0..(Base - 1) /\ r[1] \in 0..(Base - 1)
    BY <1>5, <1>7
  <2>2. k = 0 \/ k = 1
    BY <1>4
  <2>3. k * C0 <= C0 /\ k * C1 <= C1 /\ k * C0 \in Int /\ k * C1 \in Int /\ k \in Nat
    BY <1>5, <2>2
  <2> QED BY <1>5, <1>6, <2>1, <2>3
<1>10. Clean(s) /\ Num(s) = n + k * PMinus /\ s[Top] \in 0..(r[Top] + CarryOf(Fill))
  BY <1>7, <1>8, <1>9, PassIs
<1> HIDE DEF s
<1>11. s \in [Words -> Nat] /\ \A i \in Words : i # Top => s[i] \in 0..(Base - 1)
  BY <1>10 DEF Clean
<1>12. /\ z \in [Words -> Nat] /\ z[Top] \in 0..(m - 1) /\ \A i \in Words : i # Top => z[i] = s[i]
       /\ e \in Nat /\ Num(s) = Num(z) + e * Limit
  BY <1>11, CutIs
<1> HIDE DEF z, e
<1>13. FieldWordy(z)
  <2>1. ASSUME NEW i \in Words PROVE z[i] \in 0..(WordBase(i) - 1)
    BY <1>11, <1>12 DEF WordBase, m
  <2> QED BY <1>12, <2>1 DEF FieldWordy
<1>14. Num(z) \in 0..(Limit - 1) /\ z = Packed(Num(z))
  BY <1>13, WordyIs
<1>15. /\ P \in Nat \ {0} /\ P + PMinus = Limit /\ PMinus \in Nat \ {0} /\ Limit \in Nat \ {0}
       /\ P < Limit
  BY PrimeBounds, FieldTable, Zenon
<1> HIDE DEF n
<1> DEFINE d == n % P
           v == Num(z)
<1>16. n \in Nat /\ n < 2 * P /\ d = IF n < P THEN n ELSE n - P
  <2>1. n \in Nat /\ n < 2 * P
    BY <1>1, <1>15
  <2> QED BY <2>1, BelowTwice
<1> HIDE DEF d, v
<1>17. d \in 0..(Limit - 1)
  BY <1>15, <1>16
<1>18. Cong(Limit, v, d)
  <2>1. v \in Int /\ e \in Int /\ v = n + k * PMinus - e * Limit
    <3>1. v \in Int /\ e \in Int
      BY <1>12, <1>14, <1>15 DEF v
    <3>2. Num(s) = v + e * Limit /\ Num(s) = n + k * PMinus
      BY <1>10, <1>12 DEF v
    <3>3. e * Limit \in Int /\ k * PMinus \in Int /\ n \in Int
      BY <1>9, <1>15, <1>16, <3>1
    <3> DEFINE x == e * Limit
               y == k * PMinus
               t == Num(s)
    <3>4. x \in Int /\ y \in Int /\ n \in Int /\ v \in Int /\ t = v + x /\ t = n + y
      BY <3>1, <3>2, <3>3
    <3> HIDE DEF x, y, t
    <3>5. v = n + y - x
      BY <3>4
    <3> QED BY <3>1, <3>5 DEF x, y
  <2>2. CASE n < P
    <3>1. k = 0 /\ d = n
      BY <1>4, <1>15, <1>16, <2>2
    <3>2. v = d + (-e) * Limit /\ -e \in Int
      BY <1>15, <1>16, <2>1, <3>1
    <3> QED BY <3>2 DEF Cong
  <2>3. CASE ~(n < P)
    <3>1. k = 1 /\ d = n - P
      BY <1>4, <1>15, <1>16, <2>3
    <3>2. v = d + (1 - e) * Limit /\ 1 - e \in Int
      <4>1. (1 - e) * Limit = Limit - e * Limit /\ e * Limit \in Int
        BY <1>15, <2>1
      <4>2. 1 * PMinus = PMinus
        BY <1>15
      <4> QED BY <1>15, <1>16, <2>1, <3>1, <4>1, <4>2
    <3> QED BY <3>2 DEF Cong
  <2> QED BY <2>2, <2>3
<1>19. v = d
  <2>1. v \in 0..(Limit - 1)
    BY <1>14 DEF v
  <2> QED BY <1>15, <1>17, <1>18, <2>1, CongSmall
<1>20. d = Num(w) % P
  BY <1>1 DEF d, n
<1> QED BY <1>2, <1>14, <1>19, <1>20 DEF v

-----------------------------------------------------------------------------
(* Negations, sums and multiples: no word overflows or goes below zero.    *)

LEMMA ExactWords ==
    ASSUME NEW mag \in 0..CallerMax, NEW z, Within(z, mag)
    PROVE  [i \in Words |-> z[i] % WordMod] = z /\ \A i \in Words : z[i] % WordMod = z[i]
<1>1. z \in [Words -> Nat]
  BY DEF Within
<1>2. WordMod \in Nat \ {0}
  BY FieldRoom
<1> DEFINE M == WordMod
<1>3. ASSUME NEW i \in Words PROVE z[i] % M = z[i]
  <2> DEFINE a == z[i]
  <2>1. a \in Nat /\ a < M
    BY WithinIs
  <2> HIDE DEF a, M
  <2>2. a \in 0..(M - 1)
    BY <1>2, <2>1 DEF M
  <2>3. a % M = a
    BY <1>2, <2>2, ModSmall DEF M
  <2> QED BY <2>3 DEF a
<1> HIDE DEF M
<1> DEFINE r == [i \in Words |-> z[i] % M]
<1>4. \A i \in Words : r[i] = z[i]
  BY <1>3
<1>5. r = [i \in Words |-> r[i]] /\ z = [i \in Words |-> z[i]]
  BY <1>1
<1> HIDE DEF r
<1>6. r = z
  BY <1>4, <1>5, Zenon
<1> QED BY <1>3, <1>6 DEF r, M

LEMMA Add2Is ==
    ASSUME NEW a \in 1..CallerMax, NEW c \in 1..CallerMax, a + c <= CallerMax,
           NEW v, Within(v, a), NEW w, Within(w, c)
    PROVE  Within(Add2(v, w), a + c) /\ Num(Add2(v, w)) = Num(v) + Num(w)
<1> DEFINE z == [i \in Words |-> v[i] + w[i]]
<1>1. v \in [Words -> Nat] /\ w \in [Words -> Nat] /\ CallerMax \in Nat
  BY FieldRoom DEF Within
<1>2. \A i \in Words : z[i] = v[i] + w[i]
  BY Zenon
<1>3. z = [i \in Words |-> z[i]]
  BY Zenon
<1> HIDE DEF z
<1>4. ASSUME NEW i \in Words
      PROVE  z[i] \in Nat /\ z[i] <= (a + c) * (WordBase(i) - 1 + Slack(i))
  <2> DEFINE d == WordBase(i) - 1 + Slack(i)
             x == v[i]
             y == w[i]
  <2>1. d \in 0..WordMax /\ WordMax \in Nat
    <3>1. a \in 0..CallerMax
      BY <1>1
    <3> QED BY <3>1, WithinIs, FieldRoom
  <2>2. x \in Nat /\ y \in Nat /\ x <= a * d /\ y <= c * d /\ z[i] = x + y
    BY <1>1, <1>2 DEF Within
  <2> HIDE DEF d, x, y
  <2>3. (a + c) * d = a * d + c * d /\ a * d \in Int /\ c * d \in Int
    BY <2>1
  <2>4. z[i] \in Nat /\ z[i] <= (a + c) * d
    BY <2>2, <2>3
  <2> QED BY <2>4 DEF d
<1>5. Within(z, a + c)
  <2>1. z \in [Words -> Nat]
    BY <1>3, <1>4
  <2> QED BY <1>4, <2>1 DEF Within
<1>6. WholeWords(v) /\ WholeWords(w)
  <2>1. (\A i \in Words : v[i] \in Int) /\ (\A i \in Words : w[i] \in Int)
    BY <1>1
  <2> QED BY <2>1 DEF WholeWords
<1>7. Num(z) = Num(v) + Num(w)
  BY <1>2, <1>6, NumPlus
<1>8. Add2(v, w) = z
  <2>1. a + c \in 0..CallerMax
    BY <1>1
  <2>2. \A i \in Words : z[i] % WordMod = z[i]
    BY <1>5, <2>1, ExactWords
  <2> DEFINE r == Add2(v, w)
             M == WordMod
  <2>3. r = [i \in Words |-> (v[i] + w[i]) % M]
    BY DEF Add2
  <2>4. (\A i \in Words : r[i] = (v[i] + w[i]) % M) /\ r = [i \in Words |-> r[i]]
    BY <2>3, Zenon
  <2> HIDE DEF r, M
  <2>5. \A i \in Words : r[i] = z[i]
    BY <1>2, <2>2, <2>4, Zenon DEF M
  <2>6. r = z
    BY <1>3, <2>4, <2>5, Zenon
  <2> QED BY <2>6 DEF r
<1> QED BY <1>5, <1>7, <1>8

LEMMA AddIntIs ==
    ASSUME NEW a \in 1..CallerMax, a + 1 <= CallerMax, NEW w, Within(w, a),
           NEW ui \in 0..(Base - 1)
    PROVE  Within(AddInt(w, ui), a + 1) /\ Num(AddInt(w, ui)) = Num(w) + ui
<1> DEFINE z == [i \in Words |-> IF i = 0 THEN w[i] + ui ELSE w[i]]
<1>1. w \in [Words -> Nat] /\ CallerMax \in Nat /\ 0 \in Words /\ 0 # Top /\ Base \in Nat
  BY FieldRoom, FieldNumbers DEF Within
<1>2. \A i \in Words : z[i] = IF i = 0 THEN w[i] + ui ELSE w[i]
  BY Zenon
<1>3. z = [i \in Words |-> z[i]]
  BY Zenon
<1> HIDE DEF z
<1>4. ASSUME NEW i \in Words
      PROVE  z[i] \in Nat /\ z[i] <= (a + 1) * (WordBase(i) - 1 + Slack(i))
  <2> DEFINE d == WordBase(i) - 1 + Slack(i)
             x == w[i]
  <2>1. d \in 0..WordMax /\ WordMax \in Nat
    <3>1. a \in 0..CallerMax
      BY <1>1
    <3> QED BY <3>1, WithinIs, FieldRoom
  <2>2. x \in Nat /\ x <= a * d
    BY <1>1 DEF Within
  <2>3. i = 0 => d = Base - 1
    BY <1>1 DEF WordBase, Slack
  <2>4. z[i] = IF i = 0 THEN x + ui ELSE x
    BY <1>2
  <2> HIDE DEF d, x
  <2>5. (a + 1) * d = a * d + d /\ a * d \in Int
    BY <2>1
  <2>6. z[i] \in Nat /\ z[i] <= (a + 1) * d
    BY <1>1, <2>1, <2>2, <2>3, <2>4, <2>5
  <2> QED BY <2>6 DEF d
<1>5. Within(z, a + 1)
  <2>1. z \in [Words -> Nat]
    BY <1>3, <1>4
  <2> QED BY <1>4, <2>1 DEF Within
<1>6. Num(z) = Num(w) + ui
  <2>1. WholeWords(w) /\ ui \in Int
    BY <1>1 DEF WholeWords
  <2>2. Num(z) = Num(w) + ui * FP[0]
    BY <1>1, <1>2, <2>1, NumAdded
  <2>3. FP[0] = 1
    BY FieldTable
  <2> QED BY <2>1, <2>2, <2>3
<1>7. AddInt(w, ui) = z
  <2>1. a + 1 \in 0..CallerMax
    BY <1>1
  <2>2. \A i \in Words : z[i] % WordMod = z[i]
    BY <1>5, <2>1, ExactWords
  <2> DEFINE r == AddInt(w, ui)
             M == WordMod
  <2>3. (\A i \in Words : r[i] = IF i = 0 THEN (w[0] + ui) % M ELSE w[i]) /\ r = [i \in Words |-> r[i]]
    BY <1>1 DEF AddInt
  <2> HIDE DEF r, M
  <2>4. ASSUME NEW i \in Words PROVE r[i] = z[i]
    <3>1. CASE i = 0
      <4>1. z[0] = w[0] + ui /\ r[0] = (w[0] + ui) % M /\ z[0] % M = z[0]
        BY <1>1, <1>2, <2>2, <2>3 DEF M
      <4> QED BY <3>1, <4>1
    <3>2. CASE i # 0
      BY <1>2, <2>3, <3>2
    <3> QED BY <3>1, <3>2
  <2>5. r = z
    BY <1>3, <2>3, <2>4, Zenon
  <2> QED BY <2>5 DEF r
<1> QED BY <1>5, <1>6, <1>7

LEMMA MulIntIs ==
    ASSUME NEW a \in 1..CallerMax, NEW ui \in Nat \ {0}, a * ui <= CallerMax,
           NEW w, Within(w, a)
    PROVE  Within(MulInt(w, ui), a * ui) /\ Num(MulInt(w, ui)) = ui * Num(w)
<1> DEFINE z == [i \in Words |-> ui * w[i]]
<1>1. w \in [Words -> Nat] /\ CallerMax \in Nat
  BY FieldRoom DEF Within
<1>2. \A i \in Words : z[i] = ui * w[i]
  BY Zenon
<1>3. z = [i \in Words |-> z[i]]
  BY Zenon
<1> HIDE DEF z
<1>4. ASSUME NEW i \in Words
      PROVE  z[i] \in Nat /\ z[i] <= (a * ui) * (WordBase(i) - 1 + Slack(i))
             /\ w[i] * ui = z[i]
  <2> DEFINE d == WordBase(i) - 1 + Slack(i)
             x == w[i]
  <2>1. d \in 0..WordMax /\ WordMax \in Nat
    <3>1. a \in 0..CallerMax
      BY <1>1
    <3> QED BY <3>1, WithinIs, FieldRoom
  <2>2. x \in Nat /\ x <= a * d /\ z[i] = ui * x
    BY <1>1, <1>2 DEF Within
  <2> HIDE DEF d, x
  <2>3. (a * ui) * d = ui * (a * d) /\ a * d \in Nat
    BY <2>1
  <2> DEFINE y == a * d
  <2>4. y \in Nat /\ x <= y
    BY <2>2, <2>3
  <2> HIDE DEF y
  <2>5. ui * x <= ui * y /\ ui * x \in Nat /\ x * ui = ui * x
    BY <2>2, <2>4
  <2>6. z[i] \in Nat /\ z[i] <= (a * ui) * d /\ x * ui = z[i]
    BY <2>2, <2>3, <2>5 DEF y
  <2> QED BY <2>6 DEF d, x
<1>5. Within(z, a * ui)
  <2>1. z \in [Words -> Nat]
    BY <1>3, <1>4
  <2> QED BY <1>4, <2>1 DEF Within
<1>6. Num(z) = ui * Num(w)
  <2>1. WholeWords(w) /\ ui \in Int
    BY <1>1 DEF WholeWords
  <2> QED BY <1>2, <2>1, NumScale
<1>7. MulInt(w, ui) = z
  <2>1. a * ui \in 0..CallerMax
    <3>1. a * ui \in Nat
      OBVIOUS
    <3> QED BY <1>1, <3>1
  <2>2. \A i \in Words : z[i] % WordMod = z[i]
    BY <1>5, <2>1, ExactWords
  <2> DEFINE r == MulInt(w, ui)
             M == WordMod
  <2>3. r = [i \in Words |-> (w[i] * ui) % M]
    BY DEF MulInt
  <2>4. (\A i \in Words : r[i] = (w[i] * ui) % M) /\ r = [i \in Words |-> r[i]]
    BY <2>3, Zenon
  <2> HIDE DEF r, M
  <2>5. \A i \in Words : r[i] = z[i]
    BY <1>4, <2>2, <2>4, Zenon DEF M
  <2>6. r = z
    BY <1>3, <2>4, <2>5, Zenon
  <2> QED BY <2>6 DEF r
<1> QED BY <1>5, <1>6, <1>7

\* A negation takes each word from as many times the prime's: the prime's words
\* are large enough, whatever the third word holds too much.
LEMMA NegateRoom ==
    ASSUME NEW mag \in 1..NegateMax, NEW i \in Words
    PROVE  /\ mag * (WordBase(i) - 1 + Slack(i)) <= (mag + 1) * PrimeWord(i)
           /\ PrimeWord(i) \in Nat /\ PrimeWord(i) <= WordBase(i) - 1 + Slack(i)
           /\ WordBase(i) - 1 + Slack(i) \in Nat
<1> DEFINE x == WordBase(i) - 1
           s == Slack(i)
           p == PrimeWord(i)
           d == x - p
           n == NegateMax + 1
<1>1. /\ Top \in Nat /\ Top > 2 /\ i \in Nat /\ i <= Top /\ Base \in Nat /\ Base > 1
      /\ C0 \in 1..(Base - 1) /\ C1 \in 0..(Base - 2) /\ MSBBase \in Nat \ {0}
  BY FieldNumbers
<1>2. CarrySlack \in Nat /\ NegateMax \in Nat /\ NegateMax * CarrySlack < Base
      /\ n * C0 < Base /\ n * C1 < Base
  BY FieldRoom
<1>3. x \in Nat /\ s \in Nat /\ p \in Nat /\ d \in Nat /\ mag * s + (mag + 1) * d <= x
  <2> HIDE DEF n
  <2>1. n \in Nat /\ mag \in Nat /\ mag <= NegateMax /\ mag + 1 <= n
    BY <1>2 DEF n
  <2>2. /\ (mag + 1) * C0 <= n * C0 /\ (mag + 1) * C1 <= n * C1
        /\ mag * CarrySlack <= NegateMax * CarrySlack
        /\ (mag + 1) * C0 \in Nat /\ (mag + 1) * C1 \in Nat /\ mag * CarrySlack \in Nat
        /\ n * C0 \in Nat /\ n * C1 \in Nat /\ NegateMax * CarrySlack \in Nat
    BY <1>1, <1>2, <2>1
  <2>3. CASE i = 0
    <3>1. x = Base - 1 /\ s = 0 /\ p = Base - C0
      BY <1>1, <2>3 DEF WordBase, Slack, PrimeWord
    <3>2. d = C0 - 1
      BY <1>1, <3>1
    <3> HIDE DEF x, s, p, d
    <3>3. (mag + 1) * (C0 - 1) = (mag + 1) * C0 - (mag + 1) /\ mag * 0 = 0
      BY <1>1, <2>1
    <3> QED BY <1>1, <1>2, <2>1, <2>2, <3>1, <3>2, <3>3
  <2>4. CASE i = 1
    <3>1. x = Base - 1 /\ s = 0 /\ p = Base - 1 - C1
      BY <1>1, <2>4 DEF WordBase, Slack, PrimeWord
    <3>2. d = C1
      BY <1>1, <3>1
    <3> HIDE DEF x, s, p, d
    <3>3. mag * 0 = 0
      BY <2>1
    <3> QED BY <1>1, <1>2, <2>1, <2>2, <3>1, <3>2, <3>3
  <2>5. CASE i = 2
    <3>1. x = Base - 1 /\ s = CarrySlack /\ p = Base - 1
      BY <1>1, <2>5 DEF WordBase, Slack, PrimeWord
    <3>2. d = 0
      BY <1>1, <3>1
    <3> HIDE DEF x, s, p, d
    <3>3. (mag + 1) * 0 = 0
      BY <2>1
    <3> QED BY <1>1, <1>2, <2>1, <2>2, <3>1, <3>2, <3>3
  <2>6. CASE i \notin {0, 1, 2}
    <3>1. x \in Nat /\ s = 0 /\ p = x
      BY <1>1, <2>6 DEF WordBase, Slack, PrimeWord
    <3>2. d = 0
      BY <3>1
    <3> HIDE DEF x, s, p, d
    <3>3. (mag + 1) * 0 = 0 /\ mag * 0 = 0
      BY <2>1
    <3> QED BY <2>1, <3>1, <3>2, <3>3
  <2> QED BY <2>3, <2>4, <2>5, <2>6
<1>4. x - p = d
  OBVIOUS
<1> HIDE DEF x, s, p, d, n
<1>5. mag * (x + s) = mag * x + mag * s /\ (mag + 1) * (x - d) = mag * x + x - (mag + 1) * d
      /\ mag * x \in Int /\ mag * s \in Int /\ (mag + 1) * d \in Int
  BY <1>2, <1>3
<1>6. p = x - d
  BY <1>3, <1>4
<1>7. mag * (x + s) <= (mag + 1) * p /\ p \in Nat /\ p <= x + s /\ x + s \in Nat
  BY <1>3, <1>5, <1>6
<1> QED BY <1>7 DEF x, s, p

LEMMA NegateValIs ==
    ASSUME NEW mag \in 1..NegateMax, NEW w, Within(w, mag)
    PROVE  /\ Within(NegateVal(w, mag), mag + 1)
           /\ Num(NegateVal(w, mag)) = (mag + 1) * P - Num(w)
<1> DEFINE k == mag + 1
           neg == [i \in Words |-> (-1) * w[i]]
           z == [i \in Words |-> k * PrimeWord(i) - w[i]]
<1>1. w \in [Words -> Nat] /\ CallerMax \in Nat /\ NegateMax \in Nat /\ NegateMax < CallerMax
  BY FieldRoom DEF Within
<1>2. k \in Nat /\ k \in 0..CallerMax
  BY <1>1
<1>3. \A i \in Words : z[i] = k * PrimeWord(i) - w[i] /\ neg[i] = (-1) * w[i]
  BY Zenon
<1>4. z = [i \in Words |-> z[i]]
  BY Zenon
<1> HIDE DEF z, neg
<1>5. ASSUME NEW i \in Words
      PROVE  z[i] \in Nat /\ z[i] <= k * (WordBase(i) - 1 + Slack(i))
  <2> DEFINE d == WordBase(i) - 1 + Slack(i)
             p == PrimeWord(i)
             x == w[i]
  <2>1. mag * d <= k * p /\ p \in Nat /\ p <= d /\ d \in Nat
    BY NegateRoom
  <2>2. x \in Nat /\ x <= mag * d /\ z[i] = k * p - x
    BY <1>1, <1>3 DEF Within
  <2> HIDE DEF d, p, x, k
  <2>3. k * p <= k * d /\ mag * d \in Int /\ k * p \in Int /\ k * d \in Int
    BY <1>2, <2>1
  <2>4. z[i] \in Nat /\ z[i] <= k * d
    BY <2>2, <2>1, <2>3
  <2> QED BY <2>4 DEF d
<1> HIDE DEF k
<1>6. Within(z, k)
  <2>1. z \in [Words -> Nat]
    BY <1>4, <1>5
  <2> QED BY <1>5, <2>1 DEF Within
<1>7. Num(z) = k * P - Num(w)
  <2> DEFINE up == [i \in Words |-> k * Prime[i]]
  <2>1. WholeWords(Prime) /\ Num(Prime) = P /\ P \in Int
    <3>1. FieldWordy(Prime) /\ Num(Prime) = P /\ P \in Nat \ {0}
      BY PrimeIs, PrimeBounds
    <3> QED BY <3>1, WordyUp
  <2>2. WholeWords(w)
    BY <1>1 DEF WholeWords
  <2>3. \A i \in Words : up[i] = k * Prime[i]
    BY Zenon
  <2>4. \A i \in Words : Prime[i] = PrimeWord(i) /\ Prime[i] \in Int
    BY <2>1 DEF Prime, WholeWords
  <2> HIDE DEF up
  <2>5. WholeWords(up) /\ Num(up) = k * P
    <3>1. k \in Int
      BY <1>2
    <3> QED BY <2>1, <2>3, <3>1, NumScale
  <2>6. WholeWords(neg) /\ Num(neg) = (-1) * Num(w)
    <3>1. -1 \in Int
      OBVIOUS
    <3> QED BY <1>3, <2>2, <3>1, NumScale
  <2>7. \A i \in Words : z[i] = up[i] + neg[i]
    <3> SUFFICES ASSUME NEW i \in Words PROVE z[i] = up[i] + neg[i]
      OBVIOUS
    <3> DEFINE a == k * Prime[i]
               x == w[i]
    <3>1. z[i] = a - x /\ up[i] = a /\ neg[i] = (-1) * x /\ x \in Nat
      BY <1>1, <1>3, <2>3, <2>4
    <3>2. a \in Int
      <4>1. k \in Int /\ Prime[i] \in Int
        BY <1>2, <2>4
      <4> QED BY <4>1
    <3> HIDE DEF a, x
    <3> QED BY <3>1, <3>2
  <2>8. Num(z) = Num(up) + Num(neg)
    BY <2>5, <2>6, <2>7, NumPlus
  <2>9. Num(w) \in Int /\ k * P \in Int
    <3>1. k \in Int
      BY <1>2
    <3> QED BY <2>1, <2>2, <3>1, UpWhole
  <2> QED BY <2>5, <2>6, <2>8, <2>9
<1>8. NegateVal(w, mag) = z
  <2>1. \A i \in Words : z[i] % WordMod = z[i]
    BY <1>2, <1>6, ExactWords
  <2> DEFINE r == NegateVal(w, mag)
             M == WordMod
  <2>2. r = [i \in Words |-> (k * PrimeWord(i) - w[i]) % M]
    BY DEF NegateVal, k
  <2>3. (\A i \in Words : r[i] = (k * PrimeWord(i) - w[i]) % M) /\ r = [i \in Words |-> r[i]]
    BY <2>2, Zenon
  <2> HIDE DEF r, M
  <2>4. \A i \in Words : r[i] = z[i]
    BY <1>3, <2>1, <2>3, Zenon DEF M
  <2>5. r = z
    BY <1>4, <2>3, <2>4, Zenon
  <2> QED BY <2>5 DEF r
<1> QED BY <1>6, <1>7, <1>8 DEF k

-----------------------------------------------------------------------------
(* The exact product, and sums of terms.                                   *)

\* The product that is built up digit by digit is the product.
LEMMA MulModIs ==
    ASSUME NEW x \in Nat, NEW n \in 0..(Limit - 1)
    PROVE  MulMod(x, n) = (x * n) % P
<1> DEFINE m == Bytes
           b == ByteBase
           d(i) == (n \div BytePower(m - i)) % b
           h(i) == n \div BytePower(m - i)
           g == [i \in 0..m |-> (x * h(i)) % P]
           Rec(u) == u = [i \in 0..m |-> IF i = 0 THEN 0
                                          ELSE (u[i - 1] * b + x * d(i)) % P]
           u == CHOOSE u : Rec(u)
<1>1. m \in Nat /\ b \in Nat \ {0} /\ P \in Nat \ {0}
  BY ByteTable, PrimeBounds
<1>2. h(0) = 0 /\ h(m) = n
  BY BytesLeft
<1>3. /\ \A i \in 0..m : h(i) \in Nat /\ d(i) \in Nat
      /\ \A i \in 1..m : h(i) = h(i - 1) * b + d(i)
  <2>1. /\ \A k \in 1..Bytes :
              n \div BytePower(Bytes - k)
                = (n \div BytePower(Bytes - (k - 1))) * ByteBase
                    + ((n \div BytePower(Bytes - k)) % ByteBase)
        /\ \A k \in 0..Bytes : n \div BytePower(Bytes - k) \in Nat
        /\ \A k \in 0..Bytes : (n \div BytePower(Bytes - k)) % ByteBase \in Nat
    BY BytesLeft
  <2> QED BY <2>1, Zenon
<1>4. MulMod(x, n) = u[m]
  BY Zenon DEF MulMod
<1> HIDE DEF m, b, d, h
<1>5. \A i \in 0..m : g[i] = (x * h(i)) % P
  BY Zenon
<1>6. g = [i \in 0..m |-> g[i]]
  BY Zenon
<1> HIDE DEF g
<1>7. g[0] = 0
  <2>1. g[0] = (x * 0) % P
    BY <1>1, <1>2, <1>5
  <2>2. x * 0 = 0
    OBVIOUS
  <2>3. 0 % P = 0
    BY <1>1
  <2> QED BY <2>1, <2>2, <2>3, Zenon
<1>8. ASSUME NEW i \in 1..m PROVE g[i] = (g[i - 1] * b + x * d(i)) % P
  <2>1. i \in 0..m /\ i - 1 \in 0..m
    BY <1>1
  <2> DEFINE c == h(i - 1)
             e == d(i)
             s == x * c
             y == x * h(i)
             r == s % P
             z == r * b + x * e
  <2>2. h(i) = c * b + e /\ c \in Nat /\ e \in Nat
    BY <1>3, <2>1
  <2>3. g[i] = y % P /\ g[i - 1] = r
    BY <1>5, <2>1
  <2> HIDE DEF c, e
  <2>4. s \in Int /\ x * e \in Int
    BY <2>2
  <2>5. y = s * b + x * e /\ y \in Int
    <3>1. x * (c * b + e) = (x * c) * b + x * e /\ x * (c * b + e) \in Int
      BY <1>1, <2>2
    <3> QED BY <2>2, <3>1
  <2> HIDE DEF s, y
  <2>6. r \in Int /\ Cong(P, s, r)
    <3>1. s % P \in Int
      BY <1>1, <2>4, DivMod
    <3> QED BY <1>1, <2>4, <3>1, CongMod
  <2> HIDE DEF r
  <2> DEFINE w == x * e
  <2>7. w \in Int
    BY <2>4
  <2> HIDE DEF w
  <2>8. Cong(P, s * b + w, r * b + w)
    <3>1. b \in Int /\ s * b \in Int /\ r * b \in Int
      BY <1>1, <2>4, <2>6
    <3>2. Cong(P, s * b, r * b)
      BY <1>1, <2>4, <2>6, <3>1, CongScale
    <3>3. Cong(P, w, w)
      BY <1>1, <2>7, CongRefl
    <3> QED BY <1>1, <2>7, <3>1, <3>2, <3>3, CongPlus
  <2>9. s * b + w \in Int /\ r * b + w \in Int
    BY <1>1, <2>4, <2>6, <2>7
  <2>10. (s * b + w) % P = (r * b + w) % P
    BY <1>1, <2>8, <2>9, CongIff
  <2>11. y = s * b + w
    BY <2>5 DEF w
  <2> QED BY <2>3, <2>10, <2>11, Zenon DEF e, w
<1>9. Rec(g)
  <2> DEFINE k == [i \in 0..m |-> IF i = 0 THEN 0 ELSE (g[i - 1] * b + x * d(i)) % P]
  <2>1. ASSUME NEW i \in 0..m PROVE g[i] = k[i]
    <3>1. CASE i = 0
      BY <1>1, <1>7, <3>1
    <3>2. CASE i # 0
      <4>1. i \in 1..m
        BY <1>1, <3>2
      <4>2. k[i] = (g[i - 1] * b + x * d(i)) % P
        BY <3>2, Zenon
      <4> HIDE DEF k
      <4> QED BY <1>8, <4>1, <4>2
    <3> QED BY <3>1, <3>2
  <2>2. k = [i \in 0..m |-> k[i]]
    BY Zenon
  <2>3. g = k
    <3> HIDE DEF k
    <3> QED BY <1>6, <2>1, <2>2, Zenon
  <2> QED BY <2>3
<1>10. Rec(u)
  BY <1>9, Zenon
<1>11. ASSUME NEW i \in 0..m
       PROVE  u[i] = IF i = 0 THEN 0 ELSE (u[i - 1] * b + x * d(i)) % P
  <2> HIDE DEF u
  <2> QED BY <1>10, Zenon
<1> HIDE DEF u
<1> DEFINE S == {i \in 0..m : u[i] = g[i]}
<1>12. S \subseteq 0..m /\ 0 \in S
  BY <1>1, <1>7, <1>11
<1>13. ASSUME NEW i \in 0..(m - 1), i \in S PROVE i + 1 \in S
  <2>1. i + 1 \in 0..m /\ i + 1 \in 1..m /\ i + 1 # 0 /\ (i + 1) - 1 = i
    BY <1>1
  <2>2. u[i + 1] = (u[(i + 1) - 1] * b + x * d(i + 1)) % P
    BY <1>11, <2>1, Zenon
  <2>3. g[i + 1] = (g[(i + 1) - 1] * b + x * d(i + 1)) % P
    BY <1>8, <2>1
  <2>4. u[i + 1] = g[i + 1]
    BY <1>13, <2>1, <2>2, <2>3, Zenon
  <2> QED BY <2>1, <2>4
<1> HIDE DEF S
<1>14. \A i \in 0..m : i \in S
  BY <1>1, <1>12, <1>13, UpTo
<1>15. m \in 0..m
  BY <1>1
<1>16. u[m] = g[m]
  BY <1>14, <1>15 DEF S
<1>17. g[m] = (x * n) % P
  BY <1>2, <1>5, <1>15
<1> QED BY <1>4, <1>16, <1>17

LEMMA TotalIs ==
    ASSUME NEW x, WholeWords(x)
    PROVE  Total(x) = Tot(NWords, Up(NWords, x)) /\ Whole(NWords, Up(NWords, x))
<1> DEFINE n == NWords
           X == Up(n, x)
           g == [i \in 0..n |-> Tot(i, X)]
           Rec(u) == u = [i \in 0..n |-> IF i = 0 THEN 0 ELSE u[i - 1] + x[i - 1]]
           u == CHOOSE u : Rec(u)
<1>1. n \in Nat
  BY FieldNumbers
<1>2. Whole(n, X)
  BY UpWhole
<1>3. Total(x) = u[n]
  BY Zenon DEF Total
<1>4. \A i \in 1..n : X[i] = x[i - 1]
  BY DEF Up
<1> HIDE DEF X, n
<1>5. \A i \in 0..n : g[i] = Tot(i, X)
  BY Zenon
<1>6. g = [i \in 0..n |-> g[i]]
  BY Zenon
<1> HIDE DEF g
<1>7. g[0] = 0
  BY <1>1, <1>5, TotNone
<1>8. ASSUME NEW i \in 1..n PROVE g[i] = g[i - 1] + x[i - 1]
  <2>1. i - 1 \in Nat /\ (i - 1) + 1 = i /\ i \in 0..n /\ i - 1 \in 0..n
    BY <1>1
  <2> DEFINE j == i - 1
  <2> HIDE DEF j
  <2>2. j \in Nat /\ j + 1 = i /\ i \in 0..n /\ j \in 0..n
    BY <2>1 DEF j
  <2>3. Whole(j + 1, X)
    <3>1. Whole(i, X)
      BY <1>1, <1>2, <2>2, WholeFrom
    <3> QED BY <2>2, <3>1
  <2>4. Tot(j + 1, X) = Tot(j, X) + X[j + 1]
    BY <2>2, <2>3, TotNext
  <2>5. X[i] = x[i - 1]
    BY <1>4
  <2>6. g[i] = Tot(i, X) /\ g[j] = Tot(j, X)
    BY <1>5, <2>2
  <2>7. g[i] = g[j] + x[i - 1]
    BY <2>2, <2>4, <2>5, <2>6
  <2> QED BY <2>7 DEF j
<1>9. Rec(g)
  <2> DEFINE k == [i \in 0..n |-> IF i = 0 THEN 0 ELSE g[i - 1] + x[i - 1]]
  <2>1. ASSUME NEW i \in 0..n PROVE g[i] = k[i]
    <3>1. CASE i = 0
      BY <1>1, <1>7, <3>1
    <3>2. CASE i # 0
      <4>1. i \in 1..n
        BY <1>1, <3>2
      <4>2. k[i] = g[i - 1] + x[i - 1]
        BY <3>2, Zenon
      <4> HIDE DEF k
      <4> QED BY <1>8, <4>1, <4>2
    <3> QED BY <3>1, <3>2
  <2>2. k = [i \in 0..n |-> k[i]]
    BY Zenon
  <2>3. g = k
    <3> HIDE DEF k
    <3> QED BY <1>6, <2>1, <2>2, Zenon
  <2> QED BY <2>3
<1>10. Rec(u)
  BY <1>9, Zenon
<1>11. ASSUME NEW i \in 0..n PROVE u[i] = IF i = 0 THEN 0 ELSE u[i - 1] + x[i - 1]
  <2> HIDE DEF u
  <2> QED BY <1>10, Zenon
<1> HIDE DEF u
<1> DEFINE S == {i \in 0..n : u[i] = g[i]}
<1>12. S \subseteq 0..n /\ 0 \in S
  BY <1>1, <1>7, <1>11
<1>13. ASSUME NEW i \in 0..(n - 1), i \in S PROVE i + 1 \in S
  <2>1. i + 1 \in 0..n /\ i + 1 \in 1..n /\ i + 1 # 0 /\ (i + 1) - 1 = i
    BY <1>1
  <2>2. u[i + 1] = u[(i + 1) - 1] + x[(i + 1) - 1]
    BY <1>11, <2>1, Zenon
  <2>3. g[i + 1] = g[(i + 1) - 1] + x[(i + 1) - 1]
    BY <1>8, <2>1
  <2>4. u[i + 1] = g[i + 1]
    BY <1>13, <2>1, <2>2, <2>3, Zenon
  <2> QED BY <2>1, <2>4
<1> HIDE DEF S
<1>14. \A i \in 0..n : i \in S
  BY <1>1, <1>12, <1>13, UpTo
<1>15. n \in 0..n
  BY <1>1
<1>16. u[n] = g[n]
  BY <1>14, <1>15 DEF S
<1>17. g[n] = Tot(n, X)
  BY <1>5, <1>15
<1> QED BY <1>2, <1>3, <1>16, <1>17 DEF n, X

LEMMA TotBound ==
    ASSUME NEW n \in Nat, NEW y \in Nat, NEW x, \A i \in 1..n : x[i] \in 0..y
    PROVE  Whole(n, x) /\ Tot(n, x) \in 0..(n * y)
<1> DEFINE S == {i \in 0..n : Tot(i, x) \in 0..(i * y)}
<1>1. Whole(n, x)
  BY DEF Whole
<1>2. S \subseteq 0..n /\ 0 \in S
  <2>1. Tot(0, x) = 0 /\ 0 * y = 0
    BY TotNone
  <2> QED BY <2>1
<1>3. ASSUME NEW i \in 0..(n - 1), i \in S PROVE i + 1 \in S
  <2>1. i + 1 \in 0..n /\ i + 1 \in 1..n /\ i \in Nat
    OBVIOUS
  <2>2. Whole(i + 1, x)
    BY <1>1, <2>1, WholeFrom
  <2>3. Tot(i + 1, x) = Tot(i, x) + x[i + 1]
    BY <2>1, <2>2, TotNext
  <2>4. x[i + 1] \in 0..y /\ Tot(i, x) \in 0..(i * y)
    BY <1>3, <2>1
  <2>5. (i + 1) * y = i * y + y /\ i * y \in Int /\ (i + 1) * y \in Int
    BY <2>1
  <2>6. Tot(i + 1, x) \in 0..((i + 1) * y)
    BY <2>3, <2>4, <2>5
  <2> QED BY <2>1, <2>6
<1> HIDE DEF S
<1>4. \A i \in 0..n : i \in S
  BY <1>2, <1>3, UpTo
<1>5. n \in S
  BY <1>4
<1> QED BY <1>1, <1>5 DEF S

\* When only the last two terms are not 0.
LEMMA TotTwo ==
    ASSUME NEW n \in Nat, NEW x, Whole(n + 2, x), \A i \in 1..n : x[i] = 0
    PROVE  Tot(n + 2, x) = x[n + 1] + x[n + 2] /\ x[n + 1] \in Int /\ x[n + 2] \in Int
<1>1. Tot(n, x) = 0
  <2>1. Weights(n, Ones)
    BY OnesAre
  <2> QED BY <2>1, WorthZero DEF Tot
<1>2. n + 1 \in Nat /\ (n + 1) + 1 = n + 2 /\ n + 1 \in 0..(n + 2) /\ n + 2 \in Nat
  OBVIOUS
<1>3. Whole(n + 1, x) /\ Whole((n + 1) + 1, x)
  BY <1>2, WholeFrom
<1>4. Tot(n + 1, x) = Tot(n, x) + x[n + 1] /\ x[n + 1] \in Int
  BY <1>3, TotNext
<1>5. Tot((n + 1) + 1, x) = Tot(n + 1, x) + x[(n + 1) + 1] /\ x[(n + 1) + 1] \in Int
  BY <1>2, <1>3, TotNext
<1> QED BY <1>1, <1>2, <1>4, <1>5

-----------------------------------------------------------------------------
(* The columns of a product.                                               *)

FactorMax == MulMax * WordMax

Factor(w) ==
    /\ w \in [Words -> Nat] /\ \A i \in Words : w[i] <= FactorMax
    /\ w[Top] <= TopFactor

LEMMA FactorRoom ==
    /\ FactorMax \in Nat /\ TopFactor \in Nat /\ 2 * FactorMax * FactorMax \in Nat
    /\ ColumnMax = NWords * (2 * FactorMax * FactorMax) /\ ColumnMax \in Nat
    /\ CarryOf(ColumnMax) \in Nat /\ ColumnMax + CarryOf(ColumnMax) < DoubleMod
<1>1. MulMax \in Nat /\ WordMax \in Nat /\ MSBBase - 1 \in Nat /\ NWords \in Nat
      /\ Base - 1 \in Nat \ {0}
  BY FieldRoom, FieldNumbers
<1>2. FactorMax \in Nat /\ TopFactor \in Nat
  <2> DEFINE e == MSBBase - 1
             w == WordMax
  <2>1. e \in Nat /\ w \in Nat /\ MulMax \in Nat
    BY <1>1
  <2> HIDE DEF e, w
  <2>2. MulMax * w \in Nat /\ MulMax * e \in Nat
    BY <2>1
  <2> QED BY <2>2 DEF FactorMax, TopFactor, e, w
<1>3. ColumnMax = 2 * NWords * FactorMax * FactorMax
  BY DEF ColumnMax, FactorMax
<1>4. /\ 2 * FactorMax * FactorMax \in Nat
      /\ 2 * NWords * FactorMax * FactorMax = NWords * (2 * FactorMax * FactorMax)
      /\ 2 * NWords * FactorMax * FactorMax \in Nat
  <2> DEFINE x == FactorMax
             y == x * x
  <2>1. x \in Nat /\ NWords \in Nat
    BY <1>1, <1>2
  <2> HIDE DEF x
  <2>2. y \in Nat /\ 2 * x * x = 2 * y /\ 2 * NWords * x * x = NWords * (2 * y)
    BY <2>1
  <2> HIDE DEF y
  <2>3. 2 * y \in Nat /\ NWords * (2 * y) \in Nat
    BY <2>1, <2>2
  <2>4. 2 * x * x \in Nat /\ 2 * NWords * x * x = NWords * (2 * x * x) /\ 2 * NWords * x * x \in Nat
    BY <2>2, <2>3
  <2> QED BY <2>4 DEF x
<1>5. CarryOf(ColumnMax) \in Nat
  <2> DEFINE e == Base - 1
             c == ColumnMax
  <2>1. e \in Nat \ {0} /\ c \in Nat
    BY <1>1, <1>3, <1>4
  <2> HIDE DEF e, c
  <2>2. c \div e \in Nat
    BY <2>1
  <2> QED BY <2>2 DEF e, c, CarryOf
<1>6. ColumnMax + CarryOf(ColumnMax) < DoubleMod
  BY RoomAssumption
<1> QED BY <1>2, <1>3, <1>4, <1>5, <1>6

LEMMA FactorIs ==
    ASSUME NEW mag \in 1..MulMax, NEW w, Within(w, mag)
    PROVE  Factor(w) /\ WholeWords(w)
<1>1. MulMax \in Nat /\ CallerMax \in Nat /\ mag \in 0..CallerMax
  BY FieldRoom
<1>2. w \in [Words -> Nat] /\ WholeWords(w)
  BY <1>1, WithinIs DEF Within
<1>3. ASSUME NEW i \in Words PROVE w[i] <= FactorMax
  <2> DEFINE d == WordBase(i) - 1 + Slack(i)
             a == w[i]
             e == WordMax
  <2>1. d \in 0..e /\ e \in Nat
    BY <1>1, WithinIs, FieldRoom
  <2>2. a \in Nat /\ a <= mag * d /\ mag \in Nat /\ mag <= MulMax
    BY <1>1, <1>2 DEF Within
  <2> HIDE DEF d, a, e
  <2>3. mag * d <= mag * e /\ mag * e <= MulMax * e /\ mag * d \in Int /\ mag * e \in Int
        /\ MulMax * e \in Int
    BY <1>1, <2>1, <2>2
  <2>4. a <= MulMax * e
    BY <2>2, <2>3
  <2> QED BY <2>4 DEF a, e, FactorMax
<1>4. w[Top] <= TopFactor
  <2> DEFINE d == MSBBase - 1
             a == w[Top]
  <2>1. Top \in Words /\ Top # 2 /\ d \in Nat
    BY FieldNumbers
  <2>2. WordBase(Top) - 1 + Slack(Top) = d + 0
    BY <2>1 DEF WordBase, Slack
  <2>3. a \in Nat /\ a <= mag * (d + 0)
    BY <1>2, <2>1, <2>2 DEF Within
  <2> HIDE DEF d, a
  <2>4. mag * (d + 0) <= MulMax * d /\ mag * (d + 0) \in Int /\ MulMax * d \in Int
    BY <1>1, <2>1
  <2>5. a <= MulMax * d
    BY <2>3, <2>4
  <2> QED BY <2>5 DEF a, d, TopFactor
<1> QED BY <1>2, <1>3, <1>4 DEF Factor

\* What the carries of the columns of a product for x need to know of them.
ColumnsOf(col, x) ==
    /\ \A k \in 0..(2 * Top) : col[k] \in 0..ColumnMax
    /\ col[2 * Top] <= TopFactor * TopFactor
    /\ col[2 * Top - 1] <= 2 * TopFactor * FactorMax
    /\ Worth(FP, 2 * Top + 1, Up(2 * Top + 1, col)) = x

\* A table of the terms of the columns.
SmallTerms(T) ==
    /\ \A k \in 0..(2 * Top) : \A i \in Words : T[k][i] \in 0..(2 * FactorMax * FactorMax)
    /\ \A i \in Words : i # Top => T[2 * Top][i] = 0
    /\ T[2 * Top][Top] <= TopFactor * TopFactor
    /\ \A i \in Words : i # Top /\ i # Top - 1 => T[2 * Top - 1][i] = 0
    /\ T[2 * Top - 1][Top - 1] + T[2 * Top - 1][Top] <= 2 * TopFactor * FactorMax

LEMMA ColumnsFrom ==
    ASSUME NEW T, SmallTerms(T), NEW col, \A k \in 0..(2 * Top) : col[k] = Total(T[k])
    PROVE  /\ \A k \in 0..(2 * Top) : /\ col[k] \in 0..ColumnMax
                                      /\ col[k] = Tot(NWords, Up(NWords, T[k]))
                                      /\ Whole(NWords, Up(NWords, T[k]))
           /\ col[2 * Top] <= TopFactor * TopFactor
           /\ col[2 * Top - 1] <= 2 * TopFactor * FactorMax
<1> DEFINE y == 2 * FactorMax * FactorMax
           X(k) == Up(NWords, T[k])
<1>1. /\ Words = 0..Top /\ Top \in Nat /\ Top > 2 /\ NWords = Top + 1 /\ NWords \in Nat
      /\ 2 * Top \in 0..(2 * Top) /\ 2 * Top - 1 \in 0..(2 * Top)
  BY FieldNumbers
<1>2. y \in Nat /\ ColumnMax = NWords * y
  BY FactorRoom
<1>3. ASSUME NEW k \in 0..(2 * Top), NEW i \in Words PROVE T[k][i] \in 0..y
  BY DEF SmallTerms
<1> HIDE DEF y
<1>4. ASSUME NEW k \in 0..(2 * Top)
      PROVE  /\ col[k] \in 0..ColumnMax /\ col[k] = Tot(NWords, X(k)) /\ Whole(NWords, X(k))
             /\ \A j \in 1..NWords : X(k)[j] = T[k][j - 1]
  <2>1. WholeWords(T[k])
    BY <1>2, <1>3 DEF WholeWords
  <2>2. Total(T[k]) = Tot(NWords, X(k))
    BY <2>1, TotalIs
  <2>3. \A j \in 1..NWords : X(k)[j] = T[k][j - 1]
    BY DEF Up
  <2>4. \A j \in 1..NWords : X(k)[j] \in 0..y
    <3> SUFFICES ASSUME NEW j \in 1..NWords PROVE X(k)[j] \in 0..y
      OBVIOUS
    <3>1. j - 1 \in Words
      BY <1>1
    <3>2. T[k][j - 1] \in 0..y
      BY <1>3, <3>1
    <3>3. X(k)[j] = T[k][j - 1]
      BY <2>3
    <3> QED BY <3>2, <3>3
  <2> DEFINE x == X(k)
  <2> HIDE DEF x
  <2>5. \A j \in 1..NWords : x[j] \in 0..y
    BY <2>4 DEF x
  <2>6. Whole(NWords, x) /\ Tot(NWords, x) \in 0..(NWords * y)
    BY <1>1, <1>2, <2>5, TotBound
  <2>7. col[k] = Total(T[k])
    OBVIOUS
  <2> QED BY <1>2, <2>2, <2>3, <2>6, <2>7 DEF x
<1>5. ASSUME NEW k \in 0..(2 * Top), \A i \in Words : i # Top /\ i # Top - 1 => T[k][i] = 0
      PROVE  /\ col[k] = T[k][Top - 1] + T[k][Top]
             /\ T[k][Top - 1] \in Int /\ T[k][Top] \in Int
  <2> DEFINE x == X(k)
             n == Top - 1
  <2>1. n \in Nat /\ n + 2 = NWords /\ n + 1 = Top /\ n + 1 \in 1..NWords /\ n + 2 \in 1..NWords
        /\ (n + 2) - 1 = Top /\ (n + 1) - 1 = Top - 1
    BY <1>1
  <2>2. Whole(NWords, x) /\ col[k] = Tot(NWords, x) /\ \A j \in 1..NWords : x[j] = T[k][j - 1]
    BY <1>4
  <2> HIDE DEF x, X
  <2>3. \A j \in 1..n : x[j] = 0
    <3> SUFFICES ASSUME NEW j \in 1..n PROVE x[j] = 0
      OBVIOUS
    <3>1. j \in 1..NWords /\ j - 1 \in Words /\ j - 1 # Top /\ j - 1 # Top - 1
      BY <1>1, <2>1
    <3>2. T[k][j - 1] = 0
      BY <1>5, <3>1
    <3> QED BY <2>2, <3>1, <3>2
  <2>4. x[n + 1] = T[k][Top - 1] /\ x[n + 2] = T[k][Top]
    <3>1. x[n + 1] = T[k][(n + 1) - 1] /\ x[n + 2] = T[k][(n + 2) - 1]
      BY <2>1, <2>2, Zenon
    <3> QED BY <2>1, <3>1
  <2> HIDE DEF n
  <2>5. Whole(n + 2, x) /\ col[k] = Tot(n + 2, x)
    BY <2>1, <2>2
  <2>6. Tot(n + 2, x) = x[n + 1] + x[n + 2] /\ x[n + 1] \in Int /\ x[n + 2] \in Int
    BY <2>1, <2>3, <2>5, TotTwo
  <2> QED BY <2>4, <2>5, <2>6
<1>6. col[2 * Top] <= TopFactor * TopFactor
  <2> DEFINE k == 2 * Top
             d == TopFactor * TopFactor
  <2>1. /\ k \in 0..(2 * Top) /\ Top - 1 \in Words /\ Top - 1 # Top /\ Top \in Int
        /\ \A i \in Words : i # Top => T[k][i] = 0
        /\ T[k][Top] <= d
    BY <1>1 DEF SmallTerms
  <2> HIDE DEF k, d
  <2>2. \A i \in Words : i # Top /\ i # Top - 1 => T[k][i] = 0
    BY <2>1
  <2>3. col[k] = T[k][Top - 1] + T[k][Top] /\ T[k][Top] \in Int
    BY <1>5, <2>1, <2>2
  <2>4. T[k][Top - 1] = 0
    BY <2>1
  <2>5. d \in Int
    <3>1. TopFactor \in Nat
      BY FactorRoom
    <3> DEFINE z == TopFactor
    <3> HIDE DEF z
    <3>2. z \in Nat
      BY <3>1 DEF z
    <3>3. z * z \in Int
      BY <3>2
    <3> QED BY <3>3 DEF z, d
  <2>6. col[k] <= d
    BY <2>1, <2>3, <2>4, <2>5
  <2> QED BY <2>6 DEF k, d
<1>7. col[2 * Top - 1] <= 2 * TopFactor * FactorMax
  <2> DEFINE k == 2 * Top - 1
             d == 2 * TopFactor * FactorMax
  <2>1. /\ k \in 0..(2 * Top)
        /\ \A i \in Words : i # Top /\ i # Top - 1 => T[k][i] = 0
        /\ T[k][Top - 1] + T[k][Top] <= d
    BY <1>1 DEF SmallTerms
  <2> HIDE DEF k, d
  <2>2. col[k] = T[k][Top - 1] + T[k][Top]
    BY <1>5, <2>1
  <2>3. col[k] <= d
    BY <2>1, <2>2
  <2> QED BY <2>3 DEF k, d
<1> QED BY <1>4, <1>6, <1>7

\* The columns of a product stand for it.
LEMMA ColumnsAre ==
    ASSUME NEW v, Factor(v), NEW w, Factor(w)
    PROVE  ColumnsOf(Columns(v, w), Num(v) * Num(w))
<1> DEFINE col == Columns(v, w)
           term(k, i) == IF k - i \in Words THEN v[i] * w[k - i] ELSE 0
           T == [k \in 0..(2 * Top) |-> [i \in Words |-> term(k, i)]]
           F == FactorMax
           G == TopFactor
<1>1. /\ Words = 0..Top /\ Top \in Nat /\ Top > 2 /\ NWords = Top + 1 /\ NWords \in Nat
      /\ 2 * Top \in 0..(2 * Top) /\ 2 * Top - 1 \in 0..(2 * Top) /\ Top \in Words
      /\ Top - 1 \in Words
  BY FieldNumbers
<1>2. F \in Nat /\ G \in Nat
  BY FactorRoom
<1>3. /\ \A i \in Words : v[i] \in Nat /\ v[i] <= F /\ w[i] \in Nat /\ w[i] <= F
      /\ v[Top] <= G /\ w[Top] <= G
  BY DEF Factor
<1>4. \A k \in 0..(2 * Top) : \A i \in Words : T[k][i] = term(k, i)
  BY Zenon
<1>5. \A k \in 0..(2 * Top) : col[k] = Total(T[k])
  BY Zenon DEF Columns
<1> HIDE DEF col, T, F, G
<1>6. ASSUME NEW x \in Nat, NEW y \in Nat, NEW a \in Nat, NEW b \in Nat, x <= a, y <= b
      PROVE  x * y \in Nat /\ x * y <= a * b /\ a * b \in Nat
  <2>1. x * y <= a * y /\ a * y <= a * b /\ x * y \in Nat /\ a * y \in Nat /\ a * b \in Nat
    BY <1>6
  <2> QED BY <2>1
<1>7. SmallTerms(T)
  <2>1. ASSUME NEW k \in 0..(2 * Top), NEW i \in Words
        PROVE  T[k][i] \in 0..(2 * F * F)
    <3>1. F * F \in Nat /\ 2 * F * F = 2 * (F * F)
      BY <1>2
    <3>2. CASE k - i \in Words
      <4> DEFINE x == v[i]
                 y == w[k - i]
      <4>1. x \in Nat /\ x <= F /\ y \in Nat /\ y <= F
        BY <1>3, <3>2
      <4>2. T[k][i] = x * y
        BY <1>4, <3>2
      <4> HIDE DEF x, y
      <4>3. x * y \in Nat /\ x * y <= F * F
        BY <1>2, <1>6, <4>1
      <4> QED BY <3>1, <4>2, <4>3
    <3>3. CASE k - i \notin Words
      <4>1. T[k][i] = 0
        BY <1>4, <3>3
      <4> QED BY <3>1, <4>1
    <3> QED BY <3>2, <3>3
  <2>2. ASSUME NEW i \in Words, i # Top PROVE T[2 * Top][i] = 0
    <3>1. 2 * Top - i \notin Words
      BY <1>1, <2>2
    <3> QED BY <1>1, <1>4, <3>1
  <2>3. T[2 * Top][Top] <= G * G
    <3>1. 2 * Top - Top = Top
      BY <1>1
    <3>2. T[2 * Top][Top] = v[Top] * w[Top]
      BY <1>1, <1>4, <3>1
    <3>3. v[Top] * w[Top] <= G * G
      BY <1>1, <1>2, <1>3, <1>6
    <3> QED BY <3>2, <3>3
  <2>4. ASSUME NEW i \in Words, i # Top, i # Top - 1 PROVE T[2 * Top - 1][i] = 0
    <3>1. 2 * Top - 1 - i \notin Words
      BY <1>1, <2>4
    <3> QED BY <1>1, <1>4, <3>1
  <2>5. T[2 * Top - 1][Top - 1] + T[2 * Top - 1][Top] <= 2 * G * F
    <3>1. (2 * Top - 1) - (Top - 1) = Top /\ (2 * Top - 1) - Top = Top - 1
      BY <1>1
    <3>2. T[2 * Top - 1][Top - 1] = v[Top - 1] * w[Top]
      BY <1>1, <1>4, <3>1
    <3>3. T[2 * Top - 1][Top] = v[Top] * w[Top - 1]
      BY <1>1, <1>4, <3>1
    <3> DEFINE a == v[Top - 1]
               b == w[Top]
               c == v[Top]
               d == w[Top - 1]
    <3>4. a \in Nat /\ a <= F /\ b \in Nat /\ b <= G /\ c \in Nat /\ c <= G /\ d \in Nat /\ d <= F
      BY <1>1, <1>3
    <3> HIDE DEF a, b, c, d
    <3>5. a * b \in Nat /\ a * b <= F * G /\ c * d \in Nat /\ c * d <= G * F /\ G * F \in Nat
      BY <1>2, <1>6, <3>4
    <3>6. F * G = G * F /\ 2 * G * F = 2 * (G * F)
      BY <1>2
    <3>7. a * b + c * d <= 2 * G * F
      BY <3>5, <3>6
    <3> QED BY <3>2, <3>3, <3>7 DEF a, b, c, d
  <2>6. \A k \in 0..(2 * Top) : \A i \in Words : T[k][i] \in 0..(2 * FactorMax * FactorMax)
    BY <2>1 DEF F
  <2>7. T[2 * Top][Top] <= TopFactor * TopFactor
    BY <2>3 DEF G
  <2>8. T[2 * Top - 1][Top - 1] + T[2 * Top - 1][Top] <= 2 * TopFactor * FactorMax
    BY <2>5 DEF F, G
  <2> QED BY <2>2, <2>4, <2>6, <2>7, <2>8, Zenon DEF SmallTerms
<1>8. /\ \A k \in 0..(2 * Top) : /\ col[k] \in 0..ColumnMax
                                 /\ col[k] = Tot(NWords, Up(NWords, T[k]))
                                 /\ Whole(NWords, Up(NWords, T[k]))
      /\ col[2 * Top] <= TopFactor * TopFactor
      /\ col[2 * Top - 1] <= 2 * TopFactor * FactorMax
  BY <1>5, <1>7, ColumnsFrom
<1>9. WholeWords(v) /\ WholeWords(w)
  BY <1>3 DEF WholeWords
<1> DEFINE last == 2 * Top + 1
           X == Up(NWords, v)
           Y == Up(NWords, w)
           value == [k \in 1..last |-> Up(NWords, T[k - 1])]
<1>10. \A k \in 1..last : value[k] = Up(NWords, T[k - 1])
  BY Zenon
<1>11. Whole(NWords, X) /\ Whole(NWords, Y)
  BY <1>9, UpWhole
<1>12. /\ last \in Nat /\ NWords + NWords <= last + 1 /\ last <= 2 * NWords /\ NWords <= 2 * NWords
       /\ last \in 0..(2 * NWords) /\ 2 * NWords \in Nat
       /\ \A k \in 1..last : k - 1 \in 0..(2 * Top)
  BY <1>1
<1>13. \A i \in 1..NWords : X[i] = v[i - 1] /\ Y[i] = w[i - 1] /\ i - 1 \in Words
  <2>1. \A i \in 1..NWords : X[i] = v[i - 1] /\ Y[i] = w[i - 1]
    BY DEF Up
  <2>2. \A i \in 1..NWords : i - 1 \in Words
    BY <1>1
  <2> QED BY <2>1, <2>2
<1> HIDE DEF value, X, Y, term
<1>14. Terms(value, last, NWords, NWords, X, Y)
  <2> SUFFICES ASSUME NEW k \in 1..last, NEW i \in 1..NWords
               PROVE  value[k][i] = IF k - i + 1 \in 1..NWords THEN X[i] * Y[k - i + 1] ELSE 0
    BY DEF Terms
  <2>1. k - 1 \in 0..(2 * Top) /\ i - 1 \in Words
    BY <1>12, <1>13
  <2>2. value[k][i] = T[k - 1][i - 1]
    <3>1. value[k] = Up(NWords, T[k - 1])
      BY <1>10
    <3>2. Up(NWords, T[k - 1])[i] = T[k - 1][i - 1]
      BY DEF Up
    <3> QED BY <3>1, <3>2
  <2>3. T[k - 1][i - 1] = term(k - 1, i - 1)
    BY <1>4, <2>1
  <2>4. (k - 1) - (i - 1) = k - i /\ (k - i + 1) - 1 = k - i /\ (k - i \in Words <=> k - i + 1 \in 1..NWords)
    BY <1>1
  <2>5. term(k - 1, i - 1) = IF k - i \in Words THEN v[i - 1] * w[k - i] ELSE 0
    <3>1. term(k - 1, i - 1) = IF (k - 1) - (i - 1) \in Words
                               THEN v[i - 1] * w[(k - 1) - (i - 1)] ELSE 0
      BY DEF term
    <3>2. (k - 1) - (i - 1) = k - i
      BY <2>4
    <3> QED BY <3>1, <3>2, Zenon
  <2>6. X[i] = v[i - 1]
    BY <1>13
  <2>7. CASE k - i \in Words
    <3>1. Y[k - i + 1] = w[(k - i + 1) - 1]
      BY <1>13, <2>4, <2>7
    <3> QED BY <2>2, <2>3, <2>4, <2>5, <2>6, <2>7, <3>1
  <2>8. CASE k - i \notin Words
    BY <2>2, <2>3, <2>4, <2>5, <2>8
  <2> QED BY <2>7, <2>8
<1>15. /\ Whole(last, ColumnTotals(value, NWords, last))
       /\ Worth(FP, last, ColumnTotals(value, NWords, last)) = Worth(FP, NWords, X) * Worth(FP, NWords, Y)
  <2> DEFINE M == 2 * NWords
  <2>1. PowerTable(Base, M, FP)
    BY FieldTable
  <2>2. /\ NWords \in Nat /\ last \in Nat /\ NWords + NWords <= last + 1 /\ last <= M /\ NWords <= M
        /\ Whole(NWords, X) /\ Whole(NWords, Y) /\ Terms(value, last, NWords, NWords, X, Y)
    BY <1>1, <1>11, <1>12, <1>14
  <2> HIDE DEF M, last
  <2> QED BY <2>1, <2>2, WorthProduct
<1>16. \A k \in 1..last : Up(last, col)[k] = ColumnTotals(value, NWords, last)[k]
  <2> SUFFICES ASSUME NEW k \in 1..last
               PROVE  Up(last, col)[k] = ColumnTotals(value, NWords, last)[k]
    OBVIOUS
  <2>1. Up(last, col)[k] = col[k - 1]
    BY DEF Up
  <2>2. ColumnTotals(value, NWords, last)[k] = Tot(NWords, value[k])
    BY DEF ColumnTotals
  <2>3. col[k - 1] = Tot(NWords, Up(NWords, T[k - 1]))
    BY <1>8, <1>12
  <2> QED BY <1>10, <2>1, <2>2, <2>3, Zenon
<1>17. Worth(FP, last, Up(last, col)) = Num(v) * Num(w)
  <2>1. Weights(last, FP)
    BY <1>12, FieldTable, WeightsFrom
  <2>2. Worth(FP, last, ColumnTotals(value, NWords, last)) = Worth(FP, last, Up(last, col))
    <3> DEFINE c == ColumnTotals(value, NWords, last)
               d == Up(last, col)
    <3>1. Whole(last, c) /\ (\A k \in 1..last : d[k] = c[k]) /\ last \in Nat
      BY <1>12, <1>15, <1>16
    <3> HIDE DEF c, d, last
    <3>2. Worth(FP, last, c) = Worth(FP, last, d)
      BY <2>1, <3>1, WorthSame
    <3> QED BY <3>2 DEF c, d
  <2> QED BY <1>15, <2>2 DEF Num, X, Y
<1>18. ColumnsOf(col, Num(v) * Num(w))
  BY <1>8, <1>17 DEF ColumnsOf
<1> QED BY <1>18 DEF col

\* The first i words of a number, at their places.
Low(w, i) == [j \in 1..NWords |-> IF j \in 1..i THEN w[j] ELSE 0]

LEMMA LowIs ==
    ASSUME NEW x, Whole(NWords, x), NEW i \in 0..NWords
    PROVE  Whole(NWords, Low(x, i)) /\ Worth(FP, NWords, Low(x, i)) = Worth(FP, i, x)
           /\ Worth(FP, i, x) \in Int
<1> DEFINE M == 2 * NWords
           z == Low(x, i)
<1>1. PowerTable(Base, M, FP) /\ Weights(M, FP)
  BY FieldTable
<1>2. NWords \in Nat /\ i \in Nat /\ i <= NWords /\ NWords <= M /\ i \in 0..M /\ M \in Nat
  BY FieldNumbers
<1>3. Whole(i, x) /\ Weights(i, FP)
  BY <1>1, <1>2, WholeFrom, WeightsFrom
<1>4. Padding(z, NWords, i, x)
  BY DEF Padding, Low
<1> HIDE DEF M, z
<1>5. Whole(NWords, z) /\ Worth(FP, NWords, z) = Worth(FP, i, x)
  BY <1>1, <1>2, <1>3, <1>4, WorthPad
<1>6. Worth(FP, i, x) \in Int
  BY <1>2, <1>3, WorthNumeral
<1> QED BY <1>5, <1>6 DEF z

\* A row of the square: a word with itself, and twice with the words above.
LEMMA SquareRow ==
    ASSUME NEW x, Whole(NWords, x), NEW i \in 0..Top,
           NEW z, \A k \in 1..(2 * Top + 1) :
                     z[k] = IF k - i \in 1..NWords
                            THEN (IF k - i <= i THEN 0
                                  ELSE IF k - i = i + 1 THEN x[i + 1] * x[i + 1]
                                  ELSE 2 * x[i + 1] * x[k - i])
                            ELSE 0
    PROVE  LET W == Worth(FP, NWords, x)
               a == Worth(FP, i, x)
               b == Worth(FP, i + 1, x)
           IN  /\ Worth(FP, 2 * Top + 1, z) = b * (2 * W - b) - a * (2 * W - a)
               /\ a \in Int /\ b \in Int /\ W \in Int
<1> DEFINE last == 2 * Top + 1
           W == Worth(FP, NWords, x)
           a == Worth(FP, i, x)
           b == Worth(FP, i + 1, x)
           p == Low(x, i)
           q == Low(x, i + 1)
           lo == [j \in 1..NWords |-> p[j] + q[j]]
           neg == [j \in 1..NWords |-> (-1) * lo[j]]
           two == [j \in 1..NWords |-> 2 * x[j]]
           u == [j \in 1..NWords |-> two[j] + neg[j]]
           xi == x[i + 1]
           y == [j \in 1..NWords |-> xi * u[j]]
<1>1. /\ Top \in Nat /\ NWords = Top + 1 /\ NWords \in Nat /\ i \in Nat /\ i \in 0..NWords
      /\ i + 1 \in 0..NWords /\ i + 1 \in 1..NWords /\ last \in Nat /\ i + NWords <= last
      /\ last <= 2 * NWords /\ NWords \in 0..(2 * NWords) /\ 2 * NWords \in Nat
      /\ i + 1 <= 2 * NWords /\ i + 1 \in 0..(2 * NWords)
  BY FieldNumbers
<1>2. Weights(NWords, FP) /\ PowerTable(Base, 2 * NWords, FP)
  BY <1>1, FieldTable, WeightsFrom
<1>3. Whole(NWords, p) /\ Worth(FP, NWords, p) = a /\ a \in Int
  BY <1>1, LowIs
<1>4. Whole(NWords, q) /\ Worth(FP, NWords, q) = b /\ b \in Int
  BY <1>1, LowIs
<1>5. W \in Int
  BY <1>1, <1>2, WorthNumeral
<1>6. xi \in Int /\ \A j \in 1..NWords : x[j] \in Int
  BY <1>1 DEF Whole
<1>7. \A j \in 1..NWords :
         /\ p[j] = (IF j \in 1..i THEN x[j] ELSE 0)
         /\ q[j] = (IF j \in 1..(i + 1) THEN x[j] ELSE 0)
  BY DEF Low
<1>8. \A j \in 1..NWords : /\ lo[j] = p[j] + q[j] /\ neg[j] = (-1) * lo[j]
                           /\ two[j] = 2 * x[j] /\ u[j] = two[j] + neg[j] /\ y[j] = xi * u[j]
  BY Zenon
<1> HIDE DEF last, W, a, b, p, q, lo, neg, two, u, y, xi
<1>9. Whole(NWords, lo) /\ Worth(FP, NWords, lo) = a + b
  <2>1. NWords \in Nat /\ \A j \in 1..NWords : lo[j] = p[j] + q[j]
    BY <1>1, <1>8
  <2> QED BY <1>2, <1>3, <1>4, <2>1, WorthPlus
<1>10. Whole(NWords, neg) /\ Worth(FP, NWords, neg) = (-1) * (a + b)
  <2>1. NWords \in Nat /\ -1 \in Int /\ \A j \in 1..NWords : neg[j] = (-1) * lo[j]
    BY <1>1, <1>8
  <2> QED BY <1>2, <1>9, <2>1, WorthScale
<1>11. Whole(NWords, two) /\ Worth(FP, NWords, two) = 2 * W
  <2>1. NWords \in Nat /\ 2 \in Int /\ \A j \in 1..NWords : two[j] = 2 * x[j]
    BY <1>1, <1>8
  <2> QED BY <1>2, <2>1, WorthScale DEF W
<1>12. Whole(NWords, u) /\ Worth(FP, NWords, u) = 2 * W + (-1) * (a + b)
  <2>1. NWords \in Nat /\ \A j \in 1..NWords : u[j] = two[j] + neg[j]
    BY <1>1, <1>8
  <2> QED BY <1>2, <1>10, <1>11, <2>1, WorthPlus
<1>13. Whole(NWords, y) /\ Worth(FP, NWords, y) = xi * (2 * W + (-1) * (a + b))
  <2>1. NWords \in Nat /\ \A j \in 1..NWords : y[j] = xi * u[j]
    BY <1>1, <1>8
  <2> QED BY <1>2, <1>6, <1>12, <2>1, WorthScale
<1>14. \A j \in 1..NWords :
          y[j] = IF j <= i THEN 0 ELSE IF j = i + 1 THEN xi * xi ELSE 2 * xi * x[j]
  <2> SUFFICES ASSUME NEW j \in 1..NWords
               PROVE y[j] = IF j <= i THEN 0 ELSE IF j = i + 1 THEN xi * xi ELSE 2 * xi * x[j]
    OBVIOUS
  <2> DEFINE t == x[j]
  <2>1. t \in Int /\ xi \in Int
    BY <1>6
  <2>2. /\ lo[j] = p[j] + q[j] /\ neg[j] = (-1) * lo[j] /\ two[j] = 2 * t
        /\ u[j] = two[j] + neg[j] /\ y[j] = xi * u[j]
    BY <1>8
  <2>3. p[j] = (IF j \in 1..i THEN t ELSE 0) /\ q[j] = (IF j \in 1..(i + 1) THEN t ELSE 0)
    BY <1>7
  <2> HIDE DEF t
  <2>4. CASE j <= i
    <3>1. j \in 1..i /\ j \in 1..(i + 1)
      BY <1>1, <2>4
    <3>2. u[j] = 0
      BY <2>1, <2>2, <2>3, <3>1
    <3> QED BY <2>1, <2>2, <2>4, <3>2
  <2>5. CASE j = i + 1
    <3>1. j \notin 1..i /\ j \in 1..(i + 1) /\ ~(j <= i)
      BY <1>1, <2>5
    <3>2. u[j] = t
      BY <2>1, <2>2, <2>3, <3>1
    <3>3. t = xi
      BY <2>5 DEF t, xi
    <3> QED BY <2>2, <2>5, <3>1, <3>2, <3>3
  <2>6. CASE j > i + 1
    <3>1. j \notin 1..i /\ j \notin 1..(i + 1) /\ ~(j <= i) /\ j # i + 1
      BY <1>1, <2>6
    <3>2. u[j] = 2 * t
      BY <2>1, <2>2, <2>3, <3>1
    <3>3. xi * (2 * t) = 2 * xi * t
      BY <2>1
    <3> QED BY <2>2, <3>1, <3>2, <3>3 DEF t
  <2> QED BY <1>1, <2>4, <2>5, <2>6
<1>15. \A k \in 1..last : z[k] = IF k - i \in 1..NWords THEN y[k - i] ELSE 0
  <2> SUFFICES ASSUME NEW k \in 1..last
               PROVE z[k] = IF k - i \in 1..NWords THEN y[k - i] ELSE 0
    OBVIOUS
  <2>1. z[k] = IF k - i \in 1..NWords
               THEN (IF k - i <= i THEN 0
                     ELSE IF k - i = i + 1 THEN xi * xi ELSE 2 * xi * x[k - i])
               ELSE 0
    BY DEF xi, last
  <2> DEFINE j == k - i
  <2>2. j \in 1..NWords => y[j] = IF j <= i THEN 0 ELSE IF j = i + 1 THEN xi * xi ELSE 2 * xi * x[j]
    BY <1>14
  <2>3. z[k] = IF j \in 1..NWords
               THEN (IF j <= i THEN 0 ELSE IF j = i + 1 THEN xi * xi ELSE 2 * xi * x[j])
               ELSE 0
    BY <2>1
  <2> HIDE DEF j
  <2>4. z[k] = IF j \in 1..NWords THEN y[j] ELSE 0
    BY <2>2, <2>3, Zenon
  <2> QED BY <2>4 DEF j
<1>16. Worth(FP, last, z) = FP[i] * Worth(FP, NWords, y)
  <2> DEFINE M == 2 * NWords
  <2>1. /\ PowerTable(Base, M, FP) /\ i \in Nat /\ NWords \in Nat /\ last \in Nat
        /\ i + NWords <= last /\ last <= M /\ Whole(NWords, y)
    BY <1>1, <1>2, <1>13
  <2> HIDE DEF M
  <2> QED BY <1>15, <2>1, WorthShift
<1>17. b = a + xi * FP[i] /\ FP[i] \in Int
  <2>1. Whole(i + 1, x) /\ Weights(i + 1, FP)
    <3>1. i + 1 \in 0..NWords
      BY <1>1
    <3> QED BY <1>1, <1>2, <3>1, WholeFrom, WeightsFrom
  <2>2. /\ Worth(FP, i + 1, x) = Worth(FP, i, x) + x[i + 1] * FP[i] /\ FP[i] \in Nat \ {0}
    BY <1>1, <2>1, WorthNext
  <2> QED BY <2>2 DEF a, b, xi
<1> DEFINE s == xi * FP[i]
           e == 2 * W + (-1) * (a + b)
           f0 == FP[i]
<1>18. e \in Int /\ e = 2 * W - a - b /\ s \in Int
  BY <1>3, <1>4, <1>5, <1>6, <1>17
<1>19. Worth(FP, last, z) = s * e
  <2>1. Worth(FP, last, z) = f0 * (xi * e) /\ f0 \in Int
    BY <1>13, <1>16, <1>17
  <2> HIDE DEF e, f0
  <2>2. e \in Int
    BY <1>18
  <2>3. f0 * (xi * e) = (xi * f0) * e
    BY <1>6, <2>1, <2>2
  <2> QED BY <2>1, <2>3 DEF f0
<1> HIDE DEF s, e, f0
<1>20. s = b - a
  BY <1>3, <1>4, <1>17, <1>18 DEF s
<1>21. (b - a) * (2 * W - a - b) = b * (2 * W - b) - a * (2 * W - a)
  BY <1>3, <1>4, <1>5
<1>22. Worth(FP, last, z) = b * (2 * W - b) - a * (2 * W - a)
  BY <1>18, <1>19, <1>20, <1>21
<1> QED BY <1>3, <1>4, <1>5, <1>22 DEF last, a, b, W

\* The columns of a square stand for it.
LEMMA SquareColumnsAre ==
    ASSUME NEW w, Factor(w)
    PROVE  ColumnsOf(SquareColumns(w), Num(w) * Num(w))
<1> DEFINE col == SquareColumns(w)
           term(k, i) == CASE k - i \notin Words \/ k - i < i -> 0
                           [] k - i \in Words /\ k - i = i -> w[i] * w[i]
                           [] k - i \in Words /\ k - i > i -> 2 * w[i] * w[k - i]
           plain(k, i) == IF k - i \notin Words \/ k - i < i THEN 0
                          ELSE IF k - i = i THEN w[i] * w[i] ELSE 2 * w[i] * w[k - i]
           T == [k \in 0..(2 * Top) |-> [i \in Words |-> term(k, i)]]
           F == FactorMax
           G == TopFactor
<1>1. /\ Words = 0..Top /\ Top \in Nat /\ Top > 2 /\ NWords = Top + 1 /\ NWords \in Nat
      /\ 2 * Top \in 0..(2 * Top) /\ 2 * Top - 1 \in 0..(2 * Top) /\ Top \in Words
      /\ Top - 1 \in Words
  BY FieldNumbers
<1>2. F \in Nat /\ G \in Nat
  BY FactorRoom
<1>3. /\ \A i \in Words : w[i] \in Nat /\ w[i] <= F
      /\ w[Top] <= G
  BY DEF Factor
<1>4. ASSUME NEW k \in 0..(2 * Top), NEW i \in Words PROVE T[k][i] = plain(k, i)
  <2>1. T[k][i] = term(k, i)
    BY Zenon
  <2>2. term(k, i) = plain(k, i)
    <3> DEFINE j == k - i
               a == w[i] * w[i]
               b == 2 * w[i] * w[k - i]
    <3>1. j \in Int /\ i \in Int
      BY <1>1
    <3>2. term(k, i) = CASE j \notin Words \/ j < i -> 0
                         [] j \in Words /\ j = i -> a
                         [] j \in Words /\ j > i -> b
      BY Zenon
    <3>3. plain(k, i) = IF j \notin Words \/ j < i THEN 0 ELSE IF j = i THEN a ELSE b
      BY Zenon
    <3> HIDE DEF term, plain, j, a, b
    <3>4. CASE j \notin Words \/ j < i
      <4>1. ~(j \in Words /\ j = i) /\ ~(j \in Words /\ j > i)
        BY <3>1, <3>4
      <4> QED BY <3>2, <3>3, <3>4, <4>1, Zenon
    <3>5. CASE j \in Words /\ j = i
      <4>1. ~(j \notin Words \/ j < i) /\ ~(j \in Words /\ j > i)
        BY <3>1, <3>5
      <4> QED BY <3>2, <3>3, <3>5, <4>1, Zenon
    <3>6. CASE j \in Words /\ j > i
      <4>1. ~(j \notin Words \/ j < i) /\ ~(j \in Words /\ j = i) /\ j # i
        BY <3>1, <3>6
      <4> QED BY <3>2, <3>3, <3>6, <4>1, Zenon
    <3> QED BY <3>1, <3>4, <3>5, <3>6
  <2> QED BY <2>1, <2>2
<1>5. \A k \in 0..(2 * Top) : col[k] = Total(T[k])
  BY Zenon DEF SquareColumns
<1> HIDE DEF col, T, F, G
<1>6. ASSUME NEW x \in Nat, NEW y \in Nat, NEW a \in Nat, NEW b \in Nat, x <= a, y <= b
      PROVE  x * y \in Nat /\ x * y <= a * b /\ a * b \in Nat
  <2>1. x * y <= a * y /\ a * y <= a * b /\ x * y \in Nat /\ a * y \in Nat /\ a * b \in Nat
    BY <1>6
  <2> QED BY <2>1
<1>7. SmallTerms(T)
  <2>1. ASSUME NEW k \in 0..(2 * Top), NEW i \in Words
        PROVE  T[k][i] \in 0..(2 * F * F)
    <3>0. T[k][i] = plain(k, i)
      BY <1>4
    <3>1. F * F \in Nat /\ 2 * F * F = 2 * (F * F)
      BY <1>2
    <3>2. CASE k - i \in Words /\ ~(k - i < i)
      <4> DEFINE x == w[i]
                 y == w[k - i]
      <4>1. x \in Nat /\ x <= F /\ y \in Nat /\ y <= F
        BY <1>3, <3>2
      <4>2. T[k][i] = IF k - i = i THEN x * x ELSE 2 * x * y
        BY <3>0, <3>2
      <4> HIDE DEF x, y, plain
      <4>3. x * y \in Nat /\ x * y <= F * F /\ x * x \in Nat /\ x * x <= F * F /\ 2 * x * y = 2 * (x * y)
        BY <1>2, <1>6, <4>1
      <4>4. 2 * x * y \in 0..(2 * F * F) /\ x * x \in 0..(2 * F * F)
        BY <3>1, <4>3
      <4> QED BY <4>2, <4>4
    <3>3. CASE k - i \notin Words \/ k - i < i
      <4>1. T[k][i] = 0
        BY <3>0, <3>3
      <4> QED BY <3>1, <4>1
    <3> QED BY <3>2, <3>3
  <2>2. ASSUME NEW i \in Words, i # Top PROVE T[2 * Top][i] = 0
    <3>1. 2 * Top - i \notin Words
      BY <1>1, <2>2
    <3>2. plain(2 * Top, i) = 0
      BY <3>1
    <3> QED BY <1>1, <1>4, <3>2
  <2>3. T[2 * Top][Top] <= G * G
    <3>1. 2 * Top - Top = Top /\ Top \in Words /\ ~(Top < Top)
      BY <1>1
    <3>2. plain(2 * Top, Top) = w[Top] * w[Top]
      BY <3>1
    <3>3. T[2 * Top][Top] = w[Top] * w[Top]
      BY <1>1, <1>4, <3>2
    <3>4. w[Top] * w[Top] <= G * G
      BY <1>1, <1>2, <1>3, <1>6
    <3> QED BY <3>3, <3>4
  <2>4. ASSUME NEW i \in Words, i # Top, i # Top - 1 PROVE T[2 * Top - 1][i] = 0
    <3>1. 2 * Top - 1 - i \notin Words
      BY <1>1, <2>4
    <3>2. plain(2 * Top - 1, i) = 0
      BY <3>1
    <3> QED BY <1>1, <1>4, <3>2
  <2>5. T[2 * Top - 1][Top - 1] + T[2 * Top - 1][Top] <= 2 * G * F
    <3>1. /\ (2 * Top - 1) - (Top - 1) = Top /\ (2 * Top - 1) - Top = Top - 1
          /\ Top - 1 < Top /\ ~(Top < Top - 1) /\ Top # Top - 1
      BY <1>1
    <3>2. T[2 * Top - 1][Top - 1] = 2 * w[Top - 1] * w[Top]
      <4>1. plain(2 * Top - 1, Top - 1) = 2 * w[Top - 1] * w[Top]
        BY <1>1, <3>1
      <4> QED BY <1>1, <1>4, <4>1
    <3>3. T[2 * Top - 1][Top] = 0
      <4>1. plain(2 * Top - 1, Top) = 0
        BY <1>1, <3>1
      <4> QED BY <1>1, <1>4, <4>1
    <3> DEFINE a == w[Top - 1]
               b == w[Top]
    <3>4. a \in Nat /\ a <= F /\ b \in Nat /\ b <= G
      BY <1>1, <1>3
    <3> HIDE DEF a, b
    <3>5. a * b \in Nat /\ a * b <= F * G /\ F * G \in Nat
      BY <1>2, <1>6, <3>4
    <3>6. F * G = G * F /\ 2 * G * F = 2 * (G * F) /\ 2 * a * b = 2 * (a * b)
      BY <1>2, <3>4
    <3>7. 2 * a * b + 0 <= 2 * G * F
      BY <3>5, <3>6
    <3> QED BY <3>2, <3>3, <3>7 DEF a, b
  <2>6. \A k \in 0..(2 * Top) : \A i \in Words : T[k][i] \in 0..(2 * FactorMax * FactorMax)
    BY <2>1 DEF F
  <2>7. T[2 * Top][Top] <= TopFactor * TopFactor
    BY <2>3 DEF G
  <2>8. T[2 * Top - 1][Top - 1] + T[2 * Top - 1][Top] <= 2 * TopFactor * FactorMax
    BY <2>5 DEF F, G
  <2> QED BY <2>2, <2>4, <2>6, <2>7, <2>8, Zenon DEF SmallTerms
<1>8. /\ \A k \in 0..(2 * Top) : /\ col[k] \in 0..ColumnMax
                                 /\ col[k] = Tot(NWords, Up(NWords, T[k]))
                                 /\ Whole(NWords, Up(NWords, T[k]))
      /\ col[2 * Top] <= TopFactor * TopFactor
      /\ col[2 * Top - 1] <= 2 * TopFactor * FactorMax
  BY <1>5, <1>7, ColumnsFrom
<1>9. WholeWords(w)
  BY <1>3 DEF WholeWords
<1> DEFINE last == 2 * Top + 1
           x == Up(NWords, w)
           value == [k \in 1..last |-> Up(NWords, T[k - 1])]
           W == Num(w)
           part(i) == Worth(FP, i, x)
           g == [i \in 0..NWords |-> part(i) * (2 * W - part(i))]
<1>10. \A k \in 1..last : value[k] = Up(NWords, T[k - 1])
  BY Zenon
<1>11. Whole(NWords, x) /\ W = part(NWords) /\ W \in Int
  BY <1>9, UpWhole DEF Num
<1>12. /\ last \in Nat /\ last \in 0..(2 * NWords)
       /\ \A k \in 1..last : k - 1 \in 0..(2 * Top)
  BY <1>1
<1>13. \A i \in 1..NWords : x[i] = w[i - 1] /\ i - 1 \in Words
  <2>1. \A i \in 1..NWords : x[i] = w[i - 1]
    BY DEF Up
  <2>2. \A i \in 1..NWords : i - 1 \in Words
    BY <1>1
  <2> QED BY <2>1, <2>2
<1>14. \A i \in 0..NWords : g[i] = part(i) * (2 * W - part(i))
  BY Zenon
<1> HIDE DEF value, x, term, W, g, plain
<1>15. ASSUME NEW i \in 0..(NWords - 1)
       PROVE  g[i + 1] = g[i] + Worth(FP, last, Row(value, i + 1, last))
  <2> DEFINE z == Row(value, i + 1, last)
             a == part(i)
             b == part(i + 1)
  <2>1. i \in Words /\ i + 1 \in 1..NWords /\ (i + 1) - 1 = i /\ i \in 0..Top
        /\ i \in 0..NWords /\ i + 1 \in 0..NWords
    BY <1>1
  <2>2. x[i + 1] = w[i]
    <3>1. x[i + 1] = w[(i + 1) - 1]
      BY <1>13, <2>1
    <3> QED BY <2>1, <3>1
  <2>3. ASSUME NEW k \in 1..last
        PROVE  z[k] = IF k - i \in 1..NWords
                      THEN (IF k - i <= i THEN 0
                            ELSE IF k - i = i + 1 THEN x[i + 1] * x[i + 1]
                            ELSE 2 * x[i + 1] * x[k - i])
                      ELSE 0
    <3>1. k - 1 \in 0..(2 * Top) /\ k \in Int /\ i \in Int
      BY <1>1, <1>12
    <3>2. z[k] = T[k - 1][i]
      <4>1. z[k] = value[k][i + 1]
        BY DEF Row
      <4>2. value[k] = Up(NWords, T[k - 1])
        BY <1>10
      <4>3. Up(NWords, T[k - 1])[i + 1] = T[k - 1][(i + 1) - 1]
        BY <2>1 DEF Up
      <4> QED BY <2>1, <4>1, <4>2, <4>3
    <3>3. T[k - 1][i] = plain(k - 1, i)
      BY <1>4, <2>1, <3>1
    <3> DEFINE j == (k - 1) - i
    <3>4. plain(k - 1, i) = IF j \notin Words \/ j < i THEN 0
                            ELSE IF j = i THEN w[i] * w[i] ELSE 2 * w[i] * w[j]
      BY DEF plain
    <3>5. /\ j \in Words <=> k - i \in 1..NWords
          /\ j < i <=> k - i <= i
          /\ j = i <=> k - i = i + 1
          /\ (k - i) - 1 = j
      BY <1>1, <3>1
    <3> HIDE DEF j, z
    <3>6. k - i \in 1..NWords => x[k - i] = w[j]
      <4> SUFFICES ASSUME k - i \in 1..NWords PROVE x[k - i] = w[j]
        OBVIOUS
      <4>1. x[k - i] = w[(k - i) - 1]
        BY <1>13
      <4> QED BY <3>5, <4>1
    <3>7. z[k] = IF j \notin Words \/ j < i THEN 0
                 ELSE IF j = i THEN w[i] * w[i] ELSE 2 * w[i] * w[j]
      BY <3>2, <3>3, <3>4, Zenon
    <3>8. CASE k - i \notin 1..NWords
      BY <3>5, <3>7, <3>8
    <3>9. CASE k - i \in 1..NWords /\ k - i <= i
      BY <3>5, <3>7, <3>9
    <3>10. CASE k - i \in 1..NWords /\ ~(k - i <= i)
      <4>1. z[k] = IF k - i = i + 1 THEN w[i] * w[i] ELSE 2 * w[i] * w[j]
        BY <3>5, <3>7, <3>10, Zenon
      <4> QED BY <2>2, <3>6, <3>10, <4>1, Zenon
    <3> QED BY <3>8, <3>9, <3>10
  <2>4. g[i] = a * (2 * W - a) /\ g[i + 1] = b * (2 * W - b)
    BY <1>14, <2>1
  <2>5. /\ Worth(FP, last, z) = b * (2 * W - b) - a * (2 * W - a)
        /\ a \in Int /\ b \in Int
    <3>1. i \in 0..Top /\ Whole(NWords, x)
      BY <1>11, <2>1
    <3>2. \A k \in 1..(2 * Top + 1) :
                      z[k] = IF k - i \in 1..NWords
                      THEN (IF k - i <= i THEN 0
                            ELSE IF k - i = i + 1 THEN x[i + 1] * x[i + 1]
                            ELSE 2 * x[i + 1] * x[k - i])
                      ELSE 0
      BY <2>3
    <3> HIDE DEF z
    <3>3. LET V == Worth(FP, NWords, x)
              c == Worth(FP, i, x)
              d == Worth(FP, i + 1, x)
          IN  /\ Worth(FP, 2 * Top + 1, z) = d * (2 * V - d) - c * (2 * V - c)
              /\ c \in Int /\ d \in Int /\ V \in Int
      BY <3>1, <3>2, SquareRow
    <3> QED BY <1>11, <3>3
  <2> DEFINE r == a * (2 * W - a)
             s == b * (2 * W - b)
  <2>6. r \in Int /\ s \in Int
    BY <1>11, <2>5
  <2> HIDE DEF z, a, b, r, s
  <2>7. Worth(FP, last, z) = s - r /\ g[i] = r /\ g[i + 1] = s
    BY <2>4, <2>5 DEF r, s
  <2>8. g[i + 1] = g[i] + Worth(FP, last, z)
    BY <2>6, <2>7
  <2> QED BY <2>8 DEF z
<1>16. g[0] = 0 /\ g[NWords] = W * W
  <2>1. part(0) = 0
    <3>1. FP[0] \in Nat \ {0}
      BY FieldTable
    <3> QED BY <3>1, WorthNone
  <2>2. g[0] = part(0) * (2 * W - part(0)) /\ g[NWords] = part(NWords) * (2 * W - part(NWords))
    <3>1. 0 \in 0..NWords /\ NWords \in 0..NWords
      BY <1>1
    <3> QED BY <1>14, <3>1
  <2>3. 0 * (2 * W - 0) = 0 /\ 2 * W - W = W
    BY <1>11
  <2> QED BY <1>11, <2>1, <2>2, <2>3
<1>17. Table(value, last, NWords)
  <2> SUFFICES ASSUME NEW k \in 1..last PROVE Whole(NWords, value[k])
    BY DEF Table
  <2> QED BY <1>8, <1>10, <1>12
<1>18. Weights(last, FP)
  BY <1>12, FieldNumbers, FieldTable, WeightsFrom
<1>19. /\ Whole(last, ColumnTotals(value, NWords, last))
       /\ Worth(FP, last, ColumnTotals(value, NWords, last)) = W * W
  <2>1. NWords \in Nat /\ last \in Nat /\ g[0] = 0
        /\ \A i \in 0..(NWords - 1) : g[i + 1] = g[i] + Worth(FP, last, Row(value, i + 1, last))
    BY <1>1, <1>12, <1>15, <1>16
  <2> HIDE DEF last
  <2>2. /\ Whole(last, ColumnTotals(value, NWords, last))
        /\ Worth(FP, last, ColumnTotals(value, NWords, last)) = g[NWords]
    BY <1>17, <1>18, <2>1, WorthRows
  <2> QED BY <1>16, <2>2
<1>20. \A k \in 1..last : Up(last, col)[k] = ColumnTotals(value, NWords, last)[k]
  <2> SUFFICES ASSUME NEW k \in 1..last
               PROVE  Up(last, col)[k] = ColumnTotals(value, NWords, last)[k]
    OBVIOUS
  <2>1. Up(last, col)[k] = col[k - 1]
    BY DEF Up
  <2>2. ColumnTotals(value, NWords, last)[k] = Tot(NWords, value[k])
    BY DEF ColumnTotals
  <2>3. col[k - 1] = Tot(NWords, Up(NWords, T[k - 1]))
    BY <1>8, <1>12
  <2> QED BY <1>10, <2>1, <2>2, <2>3, Zenon
<1>21. Worth(FP, last, Up(last, col)) = W * W
  <2> DEFINE c == ColumnTotals(value, NWords, last)
             d == Up(last, col)
  <2>1. Whole(last, c) /\ (\A k \in 1..last : d[k] = c[k]) /\ last \in Nat
    BY <1>12, <1>19, <1>20
  <2> HIDE DEF c, d, last
  <2>2. Worth(FP, last, c) = Worth(FP, last, d)
    BY <1>18, <2>1, WorthSame
  <2> QED BY <1>19, <2>2 DEF c, d
<1>22. ColumnsOf(col, W * W)
  BY <1>8, <1>21 DEF ColumnsOf
<1> QED BY <1>22 DEF col, W

-----------------------------------------------------------------------------
(* The words of a product.                                                 *)

LEMMA DivMono ==
    ASSUME NEW n \in Nat \ {0}, NEW a \in Nat, NEW b \in Nat, a <= b
    PROVE  a \div n <= b \div n /\ a \div n \in Nat /\ b \div n \in Nat
<1> DEFINE q == a \div n
           r == a % n
           p == b \div n
           s == b % n
<1>1. q \in Nat /\ p \in Nat
  OBVIOUS
<1>2. r \in 0..(n - 1) /\ a = q * n + r /\ s \in 0..(n - 1) /\ b = p * n + s
  BY DivMod
<1> HIDE DEF q, r, p, s
<1>3. q <= p
  <2> SUFFICES ASSUME q >= p + 1 PROVE FALSE
    BY <1>1
  <2>1. q * n >= (p + 1) * n /\ (p + 1) * n = p * n + n /\ q * n \in Int /\ p * n \in Int
    BY <1>1
  <2> QED BY <1>2, <2>1
<1> QED BY <1>1, <1>3 DEF q, p

\* Words for the number x, twice as many; the last one is small.
DoubleWords(t, x) ==
    /\ \A k \in 0..(2 * Top) : t[k] \in 0..(Base - 1)
    /\ t[2 * Top + 1] \in 0..HighMax
    /\ Worth(FP, 2 * NWords, Up(2 * NWords, t)) = x
    /\ Whole(2 * NWords, Up(2 * NWords, t))

LEMMA HighRoom ==
    /\ 2 * TopFactor * FactorMax \in Nat /\ TopFactor * TopFactor \in Nat
    /\ HighMax = (TopFactor * TopFactor
                    + (2 * TopFactor * FactorMax + CarryOf(ColumnMax)) \div Base) \div Base
    /\ (2 * TopFactor * FactorMax + CarryOf(ColumnMax)) \div Base \in Nat
    /\ HighMax \in Nat
<1> DEFINE a == 2 * TopFactor * FactorMax
           b == TopFactor * TopFactor
           c == CarryOf(ColumnMax)
           q == (a + c) \div Base
<1>1. TopFactor \in Nat /\ FactorMax \in Nat /\ c \in Nat /\ Base \in Nat \ {0}
  BY FactorRoom, FieldNumbers
<1>2. HighMax = (b + q) \div Base
  BY DEF HighMax, FactorMax
<1>3. a \in Nat /\ b \in Nat
  <2> DEFINE x == TopFactor
             y == FactorMax
  <2>1. x \in Nat /\ y \in Nat
    BY <1>1
  <2> HIDE DEF x, y
  <2>2. x * y \in Nat /\ x * x \in Nat /\ 2 * x * y = 2 * (x * y)
    BY <2>1
  <2>3. 2 * x * y \in Nat /\ x * x \in Nat
    BY <2>2
  <2> QED BY <2>3 DEF x, y
<1> HIDE DEF a, b, c
<1> DEFINE d == a + c
           e == Base
<1>4. d \in Nat /\ e \in Nat \ {0}
  BY <1>1, <1>3
<1> HIDE DEF d, e
<1>5. d \div e \in Nat
  BY <1>4
<1>6. q \in Nat
  BY <1>5 DEF d, e
<1> HIDE DEF q
<1> DEFINE y == b + q
<1>7. y \in Nat
  BY <1>3, <1>6
<1> HIDE DEF y
<1>8. y \div e \in Nat
  BY <1>4, <1>7
<1>9. (b + q) \div Base \in Nat
  BY <1>8 DEF y, e
<1> QED BY <1>2, <1>3, <1>6, <1>9 DEF a, b, c, q

LEMMA ProductIs ==
    ASSUME NEW col, NEW x, ColumnsOf(col, x)
    PROVE  DoubleWords(Product(col), x)
<1> DEFINE last == 2 * Top
           m == Carried(col, last, DoubleMod)
           t == Product(col)
           b == Base
           CC == CarryOf(ColumnMax)
           z == Up(last + 1, col)
           y == Up(2 * NWords, t)
<1>1. /\ Top \in Nat /\ Top > 2 /\ NWords = Top + 1 /\ last \in Nat \ {0} /\ last + 1 <= 2 * NWords
      /\ last + 2 = 2 * NWords /\ last \in 0..last /\ last - 1 \in 0..(last - 1)
      /\ last - 1 \in 0..last /\ last \in 1..last /\ 2 * NWords \in Nat /\ last + 1 \in Nat
      /\ 0 \in 0..last /\ last \in Nat
  BY FieldNumbers
<1>2. b \in Nat \ {0}
  BY FieldNumbers
<1>3. /\ \A i \in 0..last : col[i] \in 0..ColumnMax
      /\ col[last] <= TopFactor * TopFactor
      /\ col[last - 1] <= 2 * TopFactor * FactorMax
      /\ Worth(FP, last + 1, z) = x
  BY DEF ColumnsOf
<1>4. ColumnMax \in Nat /\ CC \in Nat /\ ColumnMax + CC < DoubleMod /\ DoubleMod \in Nat \ {0}
  BY FactorRoom, FieldRoom
<1>5. \A k \in 0..(2 * NWords - 1) : t[k] = IF k <= last THEN m[k] % b ELSE m[last] \div b
  BY DEF Product
<1>6. \A i \in 1..(last + 1) : z[i] = col[i - 1]
  BY DEF Up
<1>7. \A i \in 1..(2 * NWords) : y[i] = t[i - 1]
  BY DEF Up
<1> HIDE DEF t, z, y, b, last
<1>8. /\ CarriedRight(col, last, m)
      /\ \A i \in 0..(last - 1) : m[i] \div Base \in 0..CC
  <2> DEFINE X == ColumnMax
             M == DoubleMod
  <2>1. /\ X \in Nat /\ M \in Nat \ {0} /\ X + CarryOf(X) < M /\ last \in Nat \ {0}
        /\ \A i \in 0..last : col[i] \in 0..X
    BY <1>1, <1>3, <1>4 DEF CC
  <2>2. /\ \A i \in 0..(last - 1) : col[i] \in 0..X
        /\ col[last] \in Nat /\ col[last] + CarryOf(X) < M
    <3>1. \A i \in 0..(last - 1) : i \in 0..last
      BY <1>1
    <3>2. col[last] \in 0..X
      BY <1>1, <2>1
    <3>3. CarryOf(X) \in Nat
      BY <1>4 DEF CC
    <3> QED BY <2>1, <3>1, <3>2, <3>3
  <2> HIDE DEF X, M, m
  <2>3. /\ CarriedRight(col, last, Carried(col, last, M))
        /\ \A i \in 0..(last - 1) : Carried(col, last, M)[i] \div Base \in 0..CarryOf(X)
    BY <2>1, <2>2, CarriedIs
  <2> QED BY <2>3 DEF X, M, m, CC
<1> HIDE DEF m, CC
<1>9. /\ \A i \in 0..last : m[i] \in Nat
      /\ \A i \in 1..last : m[i] = col[i] + (m[i - 1] \div b)
      /\ \A i \in 0..(last - 1) : m[i] \div b \in 0..CC
  BY <1>8 DEF CarriedRight, b
<1>10. ASSUME NEW k \in 0..last PROVE t[k] = m[k] % b /\ t[k] \in 0..(b - 1)
  <2>1. k \in 0..(2 * NWords - 1) /\ k <= last
    BY <1>1
  <2>2. t[k] = m[k] % b
    BY <1>5, <2>1
  <2> DEFINE a == m[k]
  <2>3. a \in Int
    BY <1>9
  <2> HIDE DEF a
  <2>4. a % b \in 0..(b - 1)
    BY <1>2, <2>3, DivMod
  <2> QED BY <2>2, <2>4 DEF a
<1>11. t[last + 1] = m[last] \div b
  <2>1. last + 1 \in 0..(2 * NWords - 1) /\ ~(last + 1 <= last)
    BY <1>1
  <2> QED BY <1>5, <2>1
\* The word past the last.
<1>12. t[last + 1] \in 0..HighMax
  <2> DEFINE F == 2 * TopFactor * FactorMax
             G == TopFactor * TopFactor
             d == m[last - 1]
             e == m[last - 1 - 1] \div b
             q == d \div b
             qm == (F + CC) \div b
             s == m[last]
  <2>1. /\ F \in Nat /\ G \in Nat /\ HighMax = (G + qm) \div b /\ qm \in Nat /\ HighMax \in Nat
    BY HighRoom DEF b, CC
  <2>2. e \in 0..CC /\ d = col[last - 1] + e /\ col[last - 1] \in Nat /\ col[last - 1] <= F
    <3>1. last - 1 \in 1..last /\ last - 1 - 1 \in 0..(last - 1)
      BY <1>1 DEF last
    <3>2. e \in 0..CC
      BY <1>9, <3>1
    <3>3. d = col[last - 1] + e
      BY <1>9, <3>1
    <3>4. col[last - 1] \in 0..ColumnMax
      BY <1>1, <1>3
    <3>5. col[last - 1] \in Nat
      BY <1>4, <3>4
    <3> QED BY <1>3, <3>2, <3>3, <3>5
  <2>3. s = col[last] + q /\ col[last] \in Nat /\ col[last] <= G
    <3>1. s = col[last] + q
      BY <1>1, <1>9
    <3>2. col[last] \in 0..ColumnMax
      BY <1>1, <1>3
    <3> QED BY <1>3, <1>4, <3>1, <3>2
  <2> HIDE DEF F, G, e, s
  <2>4. d \in Nat /\ d <= F + CC /\ F + CC \in Nat
    BY <1>4, <2>1, <2>2
  <2> HIDE DEF d
  <2>5. q <= qm /\ q \in Nat
    <3> DEFINE f2 == F + CC
    <3>1. f2 \in Nat /\ d <= f2
      BY <2>4
    <3> HIDE DEF f2
    <3>2. d \div b <= f2 \div b /\ d \div b \in Nat
      BY <1>2, <2>4, <3>1, DivMono
    <3> QED BY <3>2 DEF f2
  <2> HIDE DEF q, qm
  <2>6. s \in Nat /\ s <= G + qm /\ G + qm \in Nat
    BY <2>1, <2>3, <2>5
  <2>7. s \div b <= HighMax /\ s \div b \in Nat
    <3> DEFINE h2 == G + qm
    <3>1. h2 \in Nat /\ s <= h2
      BY <2>6
    <3> HIDE DEF h2
    <3>2. s \div b <= h2 \div b /\ s \div b \in Nat
      BY <1>2, <2>6, <3>1, DivMono
    <3>3. HighMax = h2 \div b
      BY <2>1 DEF h2
    <3> QED BY <3>2, <3>3
  <2>8. t[last + 1] = s \div b
    BY <1>11 DEF s
  <2> QED BY <2>1, <2>7, <2>8
\* What the words stand for.
<1>13. Whole(2 * NWords, y)
  <2> SUFFICES ASSUME NEW i \in 1..(2 * NWords) PROVE y[i] \in Int
    BY DEF Whole
  <2>1. y[i] = t[i - 1]
    BY <1>7
  <2>2. CASE i - 1 <= last
    <3>1. i - 1 \in 0..last
      BY <1>1, <2>2
    <3>2. t[i - 1] \in 0..(b - 1)
      BY <1>10, <3>1
    <3> QED BY <1>2, <2>1, <3>2
  <2>3. CASE ~(i - 1 <= last)
    <3>1. i - 1 = last + 1
      BY <1>1, <2>3
    <3>2. HighMax \in Nat
      BY HighRoom
    <3> QED BY <1>12, <2>1, <3>1, <3>2
  <2> QED BY <2>2, <2>3
<1>14. x = Worth(FP, last, y) + m[last] * FP[last]
  <2>1. \A i \in 1..last : z[i] = col[i - 1]
    BY <1>1, <1>6
  <2>2. z[last + 1] = col[last]
    <3>1. last + 1 \in 1..(last + 1) /\ (last + 1) - 1 = last
      BY <1>1
    <3>2. z[last + 1] = col[(last + 1) - 1]
      BY <1>6, <3>1
    <3> QED BY <3>1, <3>2
  <2>3. \A i \in 0..last : col[i] \in Nat
    BY <1>3, <1>4
  <2>4. \A i \in 1..last : y[i] = m[i - 1] % Base
    <3> SUFFICES ASSUME NEW i \in 1..last PROVE y[i] = m[i - 1] % Base
      OBVIOUS
    <3>1. i - 1 \in 0..last /\ i \in 1..(2 * NWords)
      BY <1>1
    <3>2. y[i] = t[i - 1] /\ t[i - 1] = m[i - 1] % b
      BY <1>7, <1>10, <3>1
    <3> QED BY <3>2 DEF b
  <2>5. last \in Nat \ {0} /\ last + 1 <= 2 * NWords
    BY <1>1
  <2>6. Worth(FP, last + 1, z) = Worth(FP, last, y) + m[last] * FP[last]
    BY <1>8, <2>1, <2>2, <2>3, <2>4, <2>5, CarriedNum
  <2> QED BY <1>3, <2>6
<1>15. PowerTable(b, 2 * NWords, FP) /\ Weights(2 * NWords, FP)
  BY FieldTable DEF b
<1> DEFINE p == FP[last]
           p1 == FP[last + 1]
           w0 == Worth(FP, last, y)
           w1 == Worth(FP, last + 1, y)
           w2 == Worth(FP, last + 2, y)
           a == m[last]
           s == a % b
           q == a \div b
<1>16. w1 = w0 + y[last + 1] * p /\ w0 \in Int /\ p \in Nat \ {0}
  <2>1. Whole(last + 1, y) /\ Weights(last + 1, FP)
    <3>1. last + 1 \in 0..(2 * NWords)
      BY <1>1
    <3> QED BY <1>1, <1>13, <1>15, <3>1, WholeFrom, WeightsFrom
  <2> QED BY <1>1, <2>1, WorthNext
<1>17. w2 = w1 + y[last + 2] * p1 /\ w1 \in Int
  <2>1. Whole((last + 1) + 1, y) /\ Weights((last + 1) + 1, FP) /\ (last + 1) + 1 = last + 2
    <3>1. (last + 1) + 1 = 2 * NWords
      BY <1>1
    <3> QED BY <1>1, <1>13, <1>15, <3>1
  <2>2. Worth(FP, (last + 1) + 1, y) = Worth(FP, last + 1, y) + y[(last + 1) + 1] * FP[last + 1]
        /\ Worth(FP, last + 1, y) \in Int
    BY <1>1, <2>1, WorthNext
  <2> QED BY <2>1, <2>2
<1>18. p1 = p * b
  <2>1. last \in Nat /\ last + 1 <= 2 * NWords
    BY <1>1
  <2> DEFINE M == 2 * NWords
  <2>2. PowerTable(b, M, FP) /\ last + 1 <= M
    BY <1>15, <2>1
  <2> HIDE DEF M
  <2> QED BY <2>1, <2>2, PowerNext
<1>19. y[last + 1] = s /\ y[last + 2] = q
  <2>1. last + 1 \in 1..(2 * NWords) /\ (last + 1) - 1 = last /\ last + 2 \in 1..(2 * NWords)
        /\ (last + 2) - 1 = last + 1
    BY <1>1
  <2>2. y[last + 1] = t[(last + 1) - 1] /\ y[last + 2] = t[(last + 2) - 1]
    BY <1>7, <2>1
  <2>3. t[last] = s
    BY <1>1, <1>10
  <2> QED BY <1>11, <2>1, <2>2, <2>3
<1>20. s \in Int /\ q \in Int /\ a = q * b + s /\ a \in Int
  <2>1. a \in Int
    BY <1>1, <1>9
  <2> HIDE DEF a
  <2> QED BY <1>2, <2>1, DivMod
<1>21. x = w0 + a * p
  BY <1>14
<1> HIDE DEF p, p1, w0, w1, w2, a, s, q
<1>22. w2 = x
  <2>1. (q * b + s) * p = q * (p * b) + s * p /\ q * (p * b) \in Int /\ s * p \in Int
    BY <1>2, <1>16, <1>20
  <2>2. w2 = (w0 + s * p) + q * (p * b)
    BY <1>16, <1>17, <1>18, <1>19
  <2>3. a * p = (q * b + s) * p
    BY <1>20
  <2> QED BY <1>16, <1>21, <2>1, <2>2, <2>3
<1>23. Worth(FP, 2 * NWords, y) = x
  BY <1>1, <1>22 DEF w2
<1> QED BY <1>10, <1>12, <1>13, <1>23 DEF DoubleWords, t, y, last, b

\* What is past the last word, folded back in.
High(t) == [k \in Words |-> t[NWords + k]]
Folded(t) ==
    [k \in Words |->
        t[k] + (IF k = 0 THEN 0 ELSE t[NWords + (k - 1)] * TopFold * C1)
             + (IF k = Top THEN t[NWords + Top] * TopFold * PMinus
                           ELSE t[NWords + k] * TopFold * C0)]

LEMMA FoldRoom ==
    /\ FoldMax \in Nat /\ TopMax \in Nat /\ CarryOf(FoldMax) \in Nat
    /\ FoldMax + CarryOf(FoldMax) < DoubleMod /\ TopMax < DoubleMod
    /\ FoldMax = (Base - 1) + (Base - 1) * (TopFold * C1) + (Base - 1) * (TopFold * C0)
    /\ TopMax = (Base - 1) + (Base - 1) * (TopFold * C1) + HighMax * (TopFold * PMinus)
                  + CarryOf(FoldMax)
<1> DEFINE e == Base - 1
           T == TopFold
           a == T * C1
           c == T * C0
           d == T * PMinus
           h == HighMax
<1>1. e \in Nat \ {0} /\ T \in Nat /\ C0 \in Nat /\ C1 \in Nat /\ PMinus \in Nat /\ h \in Nat
  <2>1. PMinus \in Nat \ {0} /\ h \in Nat
    BY PrimeBounds, HighRoom, Zenon
  <2>2. e \in Nat \ {0} /\ T \in Nat /\ C0 \in Nat /\ C1 \in Nat
    BY FieldNumbers
  <2> QED BY <2>1, <2>2
<1>2. FoldMax = e * (1 + T * (C0 + C1))
  BY DEF FoldMax
<1>3. TopMax = e * (1 + T * C1) + h * T * PMinus + CarryOf(FoldMax)
  BY DEF TopMax
<1> HIDE DEF e, T, h
<1>4. a \in Nat /\ c \in Nat /\ d \in Nat
  BY <1>1
<1>5. T * (C0 + C1) = c + a /\ h * T * PMinus = h * d
  <2>1. T * (C0 + C1) = T * C0 + T * C1
    BY <1>1
  <2>2. h * T * PMinus = h * (T * PMinus)
    BY <1>1
  <2> QED BY <2>1, <2>2
<1> HIDE DEF a, c, d
<1>6. e * (1 + (c + a)) = e + e * a + e * c /\ e * (1 + a) = e + e * a
      /\ e * a \in Nat /\ e * c \in Nat /\ h * d \in Nat
  BY <1>1, <1>4
<1>7. FoldMax = e + e * a + e * c /\ FoldMax \in Nat
  BY <1>1, <1>2, <1>5, <1>6
<1>8. CarryOf(FoldMax) \in Nat
  <2> DEFINE f0 == FoldMax
  <2>1. f0 \in Nat
    BY <1>7
  <2> HIDE DEF f0
  <2>2. f0 \div e \in Nat
    BY <1>1, <2>1
  <2> QED BY <2>2 DEF f0, e, CarryOf
<1>9. TopMax = e + e * a + h * d + CarryOf(FoldMax)
  <2>1. e * (1 + T * C1) = e + e * a
    BY <1>6 DEF a
  <2> QED BY <1>3, <1>5, <2>1
<1>10. TopMax \in Nat
  BY <1>1, <1>6, <1>8, <1>9
<1>11. FoldMax + CarryOf(FoldMax) < DoubleMod /\ TopMax < DoubleMod
  BY RoomAssumption
<1> QED BY <1>7, <1>8, <1>9, <1>10, <1>11 DEF e, T, a, c, d, h

LEMMA FoldedIs ==
    ASSUME NEW t, NEW x, DoubleWords(t, x)
    PROVE  /\ \A k \in 0..(Top - 1) : Folded(t)[k] \in 0..FoldMax
           /\ Folded(t)[Top] \in Nat /\ Folded(t)[Top] + CarryOf(FoldMax) <= TopMax
           /\ x \in Int /\ Num(Folded(t)) \in Int /\ Cong(P, x, Num(Folded(t)))
<1> DEFINE hi == High(t)
           col == Folded(t)
           b == Base
           c == TopFold * C0
           a == TopFold * C1
           d == TopFold * PMinus
           ht == hi[Top]
           p == FP[Top]
<1>1. /\ Words = 0..Top /\ Top \in Nat /\ Top > 2 /\ NWords = Top + 1 /\ NWords \in Nat
      /\ Top \in Words /\ 0 \in Words /\ b \in Nat /\ b > 1 /\ TopFold \in Nat \ {0}
      /\ C0 \in Nat /\ C1 \in Nat /\ NWords + Top = 2 * Top + 1
  BY FieldNumbers
<1>2. PMinus \in Nat /\ P \in Nat \ {0} /\ P + PMinus = Limit /\ Limit \in Nat \ {0}
  BY PrimeBounds, FieldTable
<1>3. c \in Nat /\ a \in Nat /\ d \in Nat
  <2> DEFINE T == TopFold
  <2>1. T \in Nat
    BY <1>1
  <2> HIDE DEF T
  <2>2. T * C0 \in Nat /\ T * C1 \in Nat /\ T * PMinus \in Nat
    BY <1>1, <1>2, <2>1
  <2> QED BY <2>2 DEF T
<1>4. \A k \in Words : hi[k] = t[NWords + k]
  BY DEF High
<1>5. /\ \A k \in Words : t[k] \in 0..(b - 1)
      /\ \A k \in Words : k # Top => hi[k] \in 0..(b - 1)
      /\ ht \in 0..HighMax /\ HighMax \in Nat
  <2>1. \A k \in 0..(2 * Top) : t[k] \in 0..(b - 1)
    BY DEF DoubleWords
  <2>2. \A k \in Words : k \in 0..(2 * Top) /\ (k # Top => NWords + k \in 0..(2 * Top))
    BY <1>1
  <2>3. ht = t[2 * Top + 1]
    BY <1>1, <1>4
  <2>4. t[2 * Top + 1] \in 0..HighMax /\ HighMax \in Nat
    BY HighRoom DEF DoubleWords
  <2> QED BY <1>4, <2>1, <2>2, <2>3, <2>4
<1>6. \A k \in Words : t[k] \in Nat /\ hi[k] \in Nat
  BY <1>1, <1>5
<1>7. ASSUME NEW k \in Words
      PROVE  col[k] = t[k] + (IF k = 0 THEN 0 ELSE hi[k - 1] * a)
                           + (IF k = Top THEN ht * d ELSE hi[k] * c)
  <2> DEFINE X == IF k = 0 THEN 0 ELSE t[NWords + (k - 1)] * TopFold * C1
             Y == IF k = Top THEN t[NWords + Top] * TopFold * PMinus ELSE t[NWords + k] * TopFold * C0
  <2>1. col[k] = t[k] + X + Y
    BY DEF Folded
  <2>2. X = IF k = 0 THEN 0 ELSE hi[k - 1] * a
    <3>1. CASE k = 0
      BY <3>1
    <3>2. CASE k # 0
      <4>1. k - 1 \in Words
        BY <1>1, <3>2
      <4> DEFINE y == hi[k - 1]
      <4>2. t[NWords + (k - 1)] = y /\ y \in Nat
        BY <1>4, <1>6, <4>1
      <4> HIDE DEF y, hi
      <4>3. y * TopFold * C1 = y * (TopFold * C1)
        BY <1>1, <4>2
      <4> QED BY <3>2, <4>2, <4>3 DEF y
    <3> QED BY <3>1, <3>2
  <2>3. Y = IF k = Top THEN ht * d ELSE hi[k] * c
    <3>1. CASE k = Top
      <4>1. t[NWords + Top] = ht /\ ht \in Nat
        BY <1>1, <1>4, <1>6
      <4> HIDE DEF ht
      <4>2. ht * TopFold * PMinus = ht * (TopFold * PMinus)
        BY <1>1, <1>2, <4>1
      <4> QED BY <3>1, <4>1, <4>2
    <3>2. CASE k # Top
      <4> DEFINE y == hi[k]
      <4>1. t[NWords + k] = y /\ y \in Nat
        BY <1>4, <1>6
      <4> HIDE DEF y, hi
      <4>2. y * TopFold * C0 = y * (TopFold * C0)
        BY <1>1, <4>1
      <4> QED BY <3>2, <4>1, <4>2 DEF y
    <3> QED BY <3>1, <3>2
  <2> HIDE DEF X, Y, col
  <2> QED BY <2>1, <2>2, <2>3
<1> HIDE DEF hi, col, b, c, a, d, ht
\* How large the columns are.
<1>8. ASSUME NEW y \in 0..(b - 1), NEW k \in Nat
      PROVE  y * k \in Nat /\ y * k <= (b - 1) * k /\ (b - 1) * k \in Nat
  <2> DEFINE e == b - 1
  <2>1. e \in Nat /\ y \in Nat /\ y <= e
    BY <1>1
  <2> HIDE DEF e
  <2>2. y * k \in Nat /\ y * k <= e * k /\ e * k \in Nat
    BY <2>1
  <2> QED BY <2>2 DEF e
<1> DEFINE A == (b - 1) * a
           CC == (b - 1) * c
<1>9. A \in Nat /\ CC \in Nat
  <2>1. 0 \in 0..(b - 1)
    BY <1>1
  <2> QED BY <1>3, <1>8, <2>1
<1>10. /\ FoldMax = (b - 1) + A + CC
       /\ TopMax = (b - 1) + A + HighMax * d + CarryOf(FoldMax)
       /\ FoldMax \in Nat /\ CarryOf(FoldMax) \in Nat
  BY FoldRoom DEF b, a, c, d
<1>11. ASSUME NEW k \in Words
       PROVE  (IF k = 0 THEN 0 ELSE hi[k - 1] * a) \in 0..A
  <2>1. CASE k = 0
    BY <1>9, <2>1
  <2>2. CASE k # 0
    <3>1. k - 1 \in Words /\ k - 1 # Top
      BY <1>1, <2>2
    <3> DEFINE y == hi[k - 1]
    <3>2. y \in 0..(b - 1)
      BY <1>5, <3>1 DEF b
    <3> HIDE DEF y
    <3>3. y * a \in Nat /\ y * a <= A
      BY <1>3, <1>8, <3>2
    <3>4. y * a \in 0..A
      BY <1>9, <3>3
    <3> QED BY <2>2, <3>4 DEF y
  <2> QED BY <2>1, <2>2
<1>12. ASSUME NEW k \in 0..(Top - 1) PROVE col[k] \in 0..FoldMax
  <2>1. k \in Words /\ k # Top
    BY <1>1
  <2> DEFINE X == IF k = 0 THEN 0 ELSE hi[k - 1] * a
             y == hi[k]
             w == t[k]
  <2>2. X \in 0..A
    BY <1>11, <2>1
  <2>3. y \in 0..(b - 1) /\ w \in 0..(b - 1)
    BY <1>5, <2>1 DEF b
  <2>4. col[k] = w + X + y * c
    BY <1>7, <2>1
  <2> HIDE DEF X, y, w
  <2>5. y * c \in Nat /\ y * c <= CC
    BY <1>3, <1>8, <2>3
  <2> HIDE DEF A, CC
  <2> QED BY <1>1, <1>9, <1>10, <2>2, <2>3, <2>4, <2>5
<1>13. col[Top] \in Nat /\ col[Top] + CarryOf(FoldMax) <= TopMax
  <2> DEFINE X == IF Top = 0 THEN 0 ELSE hi[Top - 1] * a
             w == t[Top]
             H == HighMax
             Z == H * d
  <2>1. X \in 0..A
    BY <1>1, <1>11
  <2>2. w \in 0..(b - 1) /\ ht \in 0..H /\ H \in Nat
    BY <1>1, <1>5 DEF b, ht
  <2>3. col[Top] = w + X + ht * d
    BY <1>1, <1>7
  <2>4. TopMax = (b - 1) + A + Z + CarryOf(FoldMax)
    BY <1>10
  <2> HIDE DEF X, w, H, A
  <2>5. ht * d \in Nat /\ ht * d <= Z /\ Z \in Nat
    BY <1>3, <2>2
  <2> HIDE DEF Z
  <2>6. A \in Nat /\ CarryOf(FoldMax) \in Nat /\ b \in Nat
    BY <1>1, <1>9, <1>10
  <2> DEFINE v == ht * d
  <2> HIDE DEF v
  <2>7. v \in Nat /\ v <= Z /\ Z \in Nat /\ col[Top] = w + X + v
    BY <2>3, <2>5 DEF v
  <2> QED BY <2>1, <2>2, <2>4, <2>6, <2>7
<1> HIDE DEF A, CC
\* What they stand for.
<1> DEFINE low == [k \in Words |-> t[k]]
           x1 == [k \in Words |-> IF k = Top THEN 0 ELSE hi[k]]
           x2 == [k \in Words |-> IF k = 0 THEN 0 ELSE hi[k - 1]]
           x3 == Single(Top, ht * d)
           y1 == [k \in Words |-> c * x1[k]]
           y2 == [k \in Words |-> a * x2[k]]
           s1 == [k \in Words |-> low[k] + y2[k]]
           s2 == [k \in Words |-> y1[k] + x3[k]]
           L == Num(low)
           H == Num(hi)
           G == Worth(FP, Top, Up(NWords, hi))
<1>14. /\ \A k \in Words : low[k] = t[k] /\ y1[k] = c * x1[k] /\ y2[k] = a * x2[k]
       /\ \A k \in Words : s1[k] = low[k] + y2[k] /\ s2[k] = y1[k] + x3[k]
  BY Zenon
<1>15. \A k \in Words : x1[k] = (IF k = Top THEN 0 ELSE hi[k]) /\ x2[k] = (IF k = 0 THEN 0 ELSE hi[k - 1])
  BY Zenon
<1>16. WholeWords(low) /\ WholeWords(hi)
  <2>1. \A k \in Words : low[k] \in Int /\ hi[k] \in Int
    BY <1>6 DEF hi
  <2> QED BY <2>1 DEF WholeWords
<1>17. H = G + ht * p /\ G \in Int /\ H \in Int /\ p \in Nat \ {0} /\ ht \in Nat
  <2>1. Top \in 0..Top
    BY <1>1
  <2>2. /\ Worth(FP, Top + 1, Up(NWords, hi)) = Worth(FP, Top, Up(NWords, hi)) + hi[Top] * FP[Top]
        /\ Worth(FP, Top, Up(NWords, hi)) \in Int /\ FP[Top] \in Nat \ {0}
    BY <1>16, <2>1, NumNext
  <2>3. H = Worth(FP, Top + 1, Up(NWords, hi)) /\ H \in Int
    BY <1>1, <1>16, UpWhole DEF Num
  <2>4. ht \in Nat
    BY <1>1, <1>6 DEF ht, hi
  <2> QED BY <2>2, <2>3, <2>4 DEF ht
<1> HIDE DEF low, x1, x2, x3, y1, y2, s1, s2, L, H, G, p
<1>18. WholeWords(x1) /\ Num(x1) = G
  <2>1. WholeWords(x1)
    <3>1. \A k \in Words : x1[k] \in Int
      BY <1>6, <1>15 DEF hi
    <3> QED BY <3>1 DEF WholeWords
  <2>2. \A k \in Words : hi[k] = IF k = Top THEN x1[k] + ht ELSE x1[k]
    BY <1>15, <1>17 DEF ht
  <2>3. ht \in Int
    BY <1>17
  <2>4. Num(hi) = Num(x1) + ht * FP[Top]
    BY <1>1, <2>1, <2>2, <2>3, NumAdded
  <2>5. Num(x1) \in Int
    BY <2>1, UpWhole
  <2> DEFINE v == ht * FP[Top]
             n == Num(x1)
  <2>6. v \in Int /\ H = n + v /\ H = G + v /\ n \in Int /\ G \in Int
    BY <1>17, <2>3, <2>4, <2>5 DEF H, p
  <2> HIDE DEF v, n
  <2>7. n = G
    BY <2>6
  <2> QED BY <2>1, <2>7 DEF n
<1>19. WholeWords(x2) /\ Num(x2) = b * G
  <2> DEFINE z == Up(NWords, x2)
             M == 2 * NWords
             h == Up(NWords, hi)
  <2>1. \A k \in 1..NWords : z[k] = x2[k - 1] /\ h[k] = hi[k - 1]
    BY DEF Up
  <2> HIDE DEF z, h
  <2>2. \A k \in 1..NWords : z[k] = IF k - 1 \in 1..Top THEN h[k - 1] ELSE 0
    <3> SUFFICES ASSUME NEW k \in 1..NWords
                 PROVE z[k] = IF k - 1 \in 1..Top THEN h[k - 1] ELSE 0
      OBVIOUS
    <3>1. k - 1 \in Words /\ z[k] = x2[k - 1]
      BY <1>1, <2>1
    <3>2. x2[k - 1] = IF k - 1 = 0 THEN 0 ELSE hi[(k - 1) - 1]
      BY <1>15, <3>1
    <3>3. CASE k - 1 = 0
      <4>1. k - 1 \notin 1..Top
        BY <3>3
      <4> QED BY <3>1, <3>2, <3>3, <4>1
    <3>4. CASE k - 1 # 0
      <4>1. k - 1 \in 1..Top /\ k - 1 \in 1..NWords
        BY <1>1, <3>4
      <4>2. h[k - 1] = hi[(k - 1) - 1]
        BY <2>1, <4>1
      <4> QED BY <3>1, <3>2, <3>4, <4>1, <4>2
    <3> QED BY <3>3, <3>4
  <2>3. Whole(Top, h)
    <3>1. Whole(NWords, h) /\ Top \in 0..NWords /\ NWords \in Nat
      BY <1>1, <1>16, UpWhole DEF h
    <3> QED BY <3>1, WholeFrom
  <2>4. /\ PowerTable(Base, M, FP) /\ 1 \in Nat /\ Top \in Nat /\ NWords \in Nat /\ 1 + Top <= NWords
        /\ NWords <= M
    BY <1>1, FieldTable
  <2> HIDE DEF M
  <2>5. Worth(FP, NWords, z) = FP[1] * Worth(FP, Top, h)
    BY <2>2, <2>3, <2>4, WorthShift
  <2>6. FP[1] = b
    BY SmallPowers DEF b
  <2>7. WholeWords(x2)
    <3> SUFFICES ASSUME NEW k \in Words PROVE x2[k] \in Int
      BY DEF WholeWords
    <3>1. CASE k = 0
      BY <1>15, <3>1
    <3>2. CASE k # 0
      <4>1. k - 1 \in Words
        BY <1>1, <3>2
      <4>2. x2[k] = hi[k - 1] /\ hi[k - 1] \in Int
        BY <1>6, <1>15, <3>2, <4>1 DEF hi
      <4> QED BY <4>2
    <3> QED BY <3>1, <3>2
  <2> QED BY <2>5, <2>6, <2>7 DEF Num, z, h, G
<1>20. WholeWords(x3) /\ Num(x3) = (ht * d) * p
  <2>1. ht * d \in Int
    BY <1>3, <1>17
  <2> QED BY <1>1, <2>1, NumSingle DEF x3, p
<1>21. WholeWords(y1) /\ Num(y1) = c * G
  <2>1. c \in Int /\ \A k \in Words : y1[k] = c * x1[k]
    BY <1>3, <1>14
  <2> QED BY <1>18, <2>1, NumScale
<1>22. WholeWords(y2) /\ Num(y2) = a * (b * G)
  <2>1. a \in Int /\ \A k \in Words : y2[k] = a * x2[k]
    BY <1>3, <1>14
  <2> QED BY <1>19, <2>1, NumScale
<1>23. WholeWords(s1) /\ Num(s1) = L + a * (b * G)
  <2>1. \A k \in Words : s1[k] = low[k] + y2[k]
    BY <1>14
  <2> QED BY <1>16, <1>22, <2>1, NumPlus DEF L
<1>24. WholeWords(s2) /\ Num(s2) = c * G + (ht * d) * p
  <2>1. \A k \in Words : s2[k] = y1[k] + x3[k]
    BY <1>14
  <2> QED BY <1>20, <1>21, <2>1, NumPlus
<1>25. WholeWords(col) /\ Num(col) = (L + a * (b * G)) + (c * G + (ht * d) * p)
  <2>1. \A k \in Words : col[k] = s1[k] + s2[k]
    <3> SUFFICES ASSUME NEW k \in Words PROVE col[k] = s1[k] + s2[k]
      OBVIOUS
    <3> DEFINE X == IF k = 0 THEN 0 ELSE hi[k - 1] * a
               v == ht * d
               w == t[k]
               u == hi[k]
    <3>1. col[k] = w + X + (IF k = Top THEN v ELSE u * c)
      BY <1>7
    <3>2. s1[k] = w + y2[k] /\ s2[k] = y1[k] + x3[k] /\ y2[k] = a * x2[k] /\ y1[k] = c * x1[k]
      BY <1>14
    <3>3. x1[k] = (IF k = Top THEN 0 ELSE u) /\ x2[k] = (IF k = 0 THEN 0 ELSE hi[k - 1])
      BY <1>15
    <3>4. x3[k] = IF k = Top THEN v ELSE 0
      BY DEF x3, Single
    <3>5. w \in Nat /\ u \in Nat /\ v \in Nat
      <4>1. w \in Nat /\ u \in Nat
        BY <1>6 DEF hi
      <4> QED BY <1>3, <1>17, <4>1
    <3>6. X = y2[k] /\ X \in Int
      <4>1. CASE k = 0
        BY <1>3, <3>2, <3>3, <4>1
      <4>2. CASE k # 0
        <5>1. k - 1 \in Words
          BY <1>1, <4>2
        <5> DEFINE y == hi[k - 1]
        <5>2. y \in Nat /\ X = y * a /\ y2[k] = a * y
          BY <1>6, <3>2, <3>3, <4>2, <5>1 DEF hi
        <5> HIDE DEF y, X
        <5>3. y * a = a * y /\ y * a \in Int
          BY <1>3, <5>2
        <5> QED BY <5>2, <5>3
      <4> QED BY <4>1, <4>2
    <3>7. s2[k] = (IF k = Top THEN v ELSE u * c) /\ s2[k] \in Int
      <4>1. CASE k = Top
        <5>1. y1[k] = c * 0 /\ x3[k] = v
          BY <3>2, <3>3, <3>4, <4>1
        <5>2. c * 0 = 0
          BY <1>3
        <5> HIDE DEF v
        <5> QED BY <3>2, <3>5, <4>1, <5>1, <5>2
      <4>2. CASE k # Top
        <5>1. y1[k] = c * u /\ x3[k] = 0
          BY <3>2, <3>3, <3>4, <4>2
        <5> HIDE DEF u
        <5>2. c * u = u * c /\ c * u \in Int
          BY <1>3, <3>5
        <5> QED BY <3>2, <4>2, <5>1, <5>2
      <4> QED BY <4>1, <4>2
    <3> HIDE DEF X, v, w, u
    <3> DEFINE R == IF k = Top THEN v ELSE u * c
    <3>8. col[k] = w + X + R /\ s2[k] = R /\ R \in Int
      BY <3>1, <3>7
    <3> HIDE DEF R
    <3> QED BY <3>2, <3>5, <3>6, <3>8
  <2> QED BY <1>23, <1>24, <2>1, NumPlus
<1>26. x = L + (Limit * TopFold) * H
  <2> DEFINE y == Up(2 * NWords, t)
             M == NWords + NWords
  <2>1. /\ Worth(FP, 2 * NWords, y) = x /\ Whole(2 * NWords, y)
    BY DEF DoubleWords
  <2>2. M = 2 * NWords /\ NWords \in Nat /\ 2 * NWords \in Nat
    BY <1>1
  <2>3. PowerTable(Base, 2 * NWords, FP) /\ Weights(2 * NWords, FP) /\ FP[0] = 1
        /\ FP[NWords] = Limit * TopFold
    BY FieldTable
  <2>4. Splits(FP, NWords, NWords)
    <3>1. NWords + NWords <= 2 * NWords
      BY <1>1
    <3> DEFINE N2 == 2 * NWords
    <3>2. PowerTable(Base, N2, FP) /\ NWords + NWords <= N2 /\ NWords \in Nat
      BY <2>2, <2>3, <3>1
    <3> HIDE DEF N2
    <3> QED BY <3>2, PowersSplit
  <2>5. From(y, NWords, NWords, Up(NWords, hi))
    <3> SUFFICES ASSUME NEW i \in 1..NWords PROVE Up(NWords, hi)[i] = y[NWords + i]
      BY DEF From
    <3>1. i - 1 \in Words /\ NWords + i \in 1..(2 * NWords) /\ (NWords + i) - 1 = NWords + (i - 1)
      BY <1>1
    <3>2. Up(NWords, hi)[i] = hi[i - 1]
      BY DEF Up
    <3>3. y[NWords + i] = t[(NWords + i) - 1]
      BY <3>1 DEF Up
    <3>4. hi[i - 1] = t[NWords + (i - 1)]
      BY <1>4, <3>1 DEF hi
    <3> QED BY <3>1, <3>2, <3>3, <3>4
  <2>6. Whole(M, y) /\ Weights(M, FP)
    BY <2>1, <2>2, <2>3
  <2>7. \A i \in 1..NWords : Up(NWords, low)[i] = y[i]
    <3> SUFFICES ASSUME NEW i \in 1..NWords PROVE Up(NWords, low)[i] = y[i]
      OBVIOUS
    <3>1. i \in 1..(2 * NWords) /\ i - 1 \in Words
      BY <1>1
    <3>2. y[i] = t[i - 1] /\ Up(NWords, low)[i] = low[i - 1]
      BY <3>1 DEF Up
    <3> QED BY <1>14, <3>1, <3>2
  <2> HIDE DEF y
  <2>8. /\ Worth(FP, M, y) = Worth(FP, NWords, y) + FP[NWords] * Worth(FP, NWords, Up(NWords, hi))
        /\ Whole(NWords, y)
    BY <2>2, <2>3, <2>4, <2>5, <2>6, WorthSplit
  <2>9. Worth(FP, NWords, y) = Worth(FP, NWords, Up(NWords, low))
    <3>1. Weights(NWords, FP)
      <4>1. NWords \in 0..(2 * NWords)
        BY <1>1
      <4> QED BY <2>2, <2>3, <4>1, WeightsFrom
    <3> DEFINE v == Up(NWords, low)
    <3>2. \A i \in 1..NWords : v[i] = y[i]
      BY <2>7
    <3> HIDE DEF v
    <3>3. Worth(FP, NWords, y) = Worth(FP, NWords, v)
      BY <2>2, <2>8, <3>1, <3>2, WorthSame
    <3> QED BY <3>3 DEF v
  <2> QED BY <2>1, <2>2, <2>3, <2>8, <2>9 DEF L, H, Num
<1>27. L \in Int
  BY <1>16, UpWhole DEF L
<1> DEFINE n == Num(col)
<1>28. n = L + (TopFold * PMinus) * H
  <2> DEFINE T == TopFold
             m == PMinus
  <2>1. T \in Int /\ m \in Int /\ C0 \in Int /\ C1 \in Int /\ b \in Int /\ ht \in Int /\ p \in Int
        /\ m = C1 * b + C0 /\ G \in Int
    BY <1>1, <1>2, <1>17 DEF PMinus, b
  <2>2. a = T * C1 /\ c = T * C0 /\ d = T * m
    BY DEF a, c, d
  <2> HIDE DEF T, m
  <2>3. a * (b * G) + c * G = d * G
    <3>1. a * (b * G) = (T * (C1 * b)) * G /\ c * G = (T * C0) * G
      BY <2>1, <2>2
    <3> DEFINE q == C1 * b
    <3>2. q \in Int
      BY <2>1
    <3> HIDE DEF q
    <3>3. (T * q) * G + (T * C0) * G = (T * (q + C0)) * G
      BY <2>1, <3>2
    <3> QED BY <2>1, <2>2, <3>1, <3>3 DEF q
  <2>4. (ht * d) * p = d * (ht * p) /\ d \in Int /\ ht * p \in Int
    BY <1>3, <2>1
  <2>5. d * (G + ht * p) = d * G + d * (ht * p) /\ d * G \in Int /\ d * (ht * p) \in Int
    BY <2>1, <2>4
  <2>6. n = (L + a * (b * G)) + (c * G + (ht * d) * p)
    BY <1>25
  <2>7. a * (b * G) \in Int /\ c * G \in Int
    BY <1>3, <2>1
  <2>8. d * H = d * G + d * (ht * p)
    BY <1>17, <2>5
  <2>9. n = L + d * H
    <3> DEFINE i1 == a * (b * G)
               i2 == c * G
               i3 == (ht * d) * p
               i4 == d * G
               i5 == d * H
    <3>1. /\ i1 \in Int /\ i2 \in Int /\ i3 \in Int /\ i4 \in Int /\ i1 + i2 = i4 /\ i5 = i4 + i3
          /\ n = (L + i1) + (i2 + i3)
      BY <2>3, <2>4, <2>5, <2>6, <2>7, <2>8
    <3> HIDE DEF i1, i2, i3, i4, i5, n
    <3>2. n = L + i5
      BY <1>27, <3>1
    <3> QED BY <3>2 DEF i5
  <2> QED BY <2>2, <2>9 DEF T, m
<1>29. n \in Int
  BY <1>25, UpWhole
<1> HIDE DEF n
<1>30. x \in Int /\ Cong(P, x, n)
  <2> DEFINE T == TopFold
             m == PMinus
             q == T * H
  <2>1. T \in Int /\ m \in Int /\ P \in Int /\ Limit = P + m /\ H \in Int
    BY <1>1, <1>2, <1>17
  <2>2. x = L + (Limit * T) * H /\ n = L + (T * m) * H
    BY <1>26, <1>28
  <2> HIDE DEF T, m
  <2>3. q \in Int /\ ((P + m) * T) * H = q * P + (T * m) * H /\ (T * m) * H \in Int /\ q * P \in Int
    <3>1. q \in Int
      BY <2>1
    <3>2. ((P + m) * T) * H = (P + m) * (T * H) /\ (T * m) * H = m * (T * H)
      BY <2>1
    <3> HIDE DEF q
    <3>3. (P + m) * q = q * P + m * q /\ m * q \in Int /\ q * P \in Int
      BY <2>1, <3>1
    <3> QED BY <3>1, <3>2, <3>3 DEF q
  <2>4. x = n + q * P
    BY <1>27, <2>1, <2>2, <2>3
  <2> QED BY <1>29, <2>3, <2>4 DEF Cong
<1> QED BY <1>12, <1>13, <1>29, <1>30 DEF col, n

\* What Reduce leaves: the words, none but the third with more than its bits,
\* of a number congruent to the product.
LEMMA ReduceIs ==
    ASSUME NEW t, NEW x, DoubleWords(t, x)
    PROVE  /\ Within(Reduce(t), 1)
           /\ x \in Int /\ Num(Reduce(t)) \in Int /\ Cong(P, x, Num(Reduce(t)))
<1> DEFINE col == Folded(t)
           m == Carried(col, Top, DoubleMod)
           b == Base
           B == MSBBase
           ex == m[Top] \div B
           mk == Masked(m)
           z == Cut(mk)
           lo == (m[0] % b) + ex * C0
           nx == (lo \div b) + (m[1] % b) + ex * C1
           th == nx \div b
           r == Reduce(t)
<1>1. /\ Words = 0..Top /\ Top \in Nat /\ Top > 2 /\ Top \in Nat \ {0} /\ Top \in Words
      /\ 0 \in Words /\ 1 \in Words /\ 2 \in Words /\ Top # 0 /\ Top # 1 /\ Top # 2
      /\ b \in Nat \ {0} /\ b > 1 /\ B \in Nat \ {0} /\ C0 \in Nat /\ C1 \in Nat /\ Top \in 0..Top
  BY FieldNumbers
<1>2. /\ PMinus \in Nat /\ P \in Nat \ {0} /\ P + PMinus = Limit /\ Limit \in Nat \ {0}
      /\ FP[0] = 1 /\ FP[1] = b /\ FP[2] = b * b
  BY PrimeBounds, FieldTable, SmallPowers
<1>3. /\ \A k \in 0..(Top - 1) : col[k] \in 0..FoldMax
      /\ col[Top] \in Nat /\ col[Top] + CarryOf(FoldMax) <= TopMax
      /\ x \in Int /\ Num(col) \in Int /\ Cong(P, x, Num(col))
  BY FoldedIs
<1>4. /\ FoldMax \in Nat /\ TopMax \in Nat /\ CarryOf(FoldMax) \in Nat
      /\ FoldMax + CarryOf(FoldMax) < DoubleMod /\ TopMax < DoubleMod /\ DoubleMod \in Nat \ {0}
  BY FoldRoom, FieldRoom
<1>5. r = [k \in Words |-> CASE k = 0   -> lo % b
                             [] k = 1   -> nx % b
                             [] k = 2   -> (th + (m[2] % b)) % WordMod
                             [] k = Top -> m[Top] % B
                             [] OTHER   -> m[k] % b]
  BY DEF Reduce, LastTerm, Folded
<1> HIDE DEF col, r
<1>6. CarriedRight(col, Top, m) /\ m[Top] <= TopMax
  <2> DEFINE X == FoldMax
             M == DoubleMod
  <2>1. /\ X \in Nat /\ M \in Nat \ {0} /\ X + CarryOf(X) < M /\ Top \in Nat \ {0}
        /\ \A i \in 0..(Top - 1) : col[i] \in 0..X
        /\ col[Top] \in Nat /\ col[Top] + CarryOf(X) < M /\ col[Top] + CarryOf(X) <= TopMax
        /\ CarryOf(X) \in Nat
    BY <1>1, <1>3, <1>4
  <2> HIDE DEF X, M, m
  <2>2. /\ CarriedRight(col, Top, Carried(col, Top, M))
        /\ Carried(col, Top, M)[Top] <= col[Top] + CarryOf(X)
    BY <2>1, CarriedIs
  <2>3. CarriedRight(col, Top, m) /\ m[Top] <= col[Top] + CarryOf(X)
    BY <2>2 DEF M, m
  <2>4. m[Top] \in Nat
    BY <1>1, <2>3 DEF CarriedRight
  <2> QED BY <1>4, <2>1, <2>3, <2>4
<1>7. \A i \in Words : m[i] \in Nat /\ col[i] \in Nat
  <2>1. \A i \in Words : m[i] \in Nat
    BY <1>1, <1>6 DEF CarriedRight
  <2>2. ASSUME NEW i \in Words PROVE col[i] \in Nat
    <3>1. CASE i = Top
      BY <1>3, <3>1
    <3>2. CASE i # Top
      <4>1. i \in 0..(Top - 1)
        BY <1>1, <3>2
      <4>2. col[i] \in 0..FoldMax
        BY <1>3, <4>1
      <4> QED BY <1>4, <4>2
    <3> QED BY <3>1, <3>2
  <2> QED BY <2>1, <2>2
<1> HIDE DEF m
<1>8. Clean(mk) /\ Num(mk) = Num(col) /\ mk[Top] = m[Top]
  BY <1>6, <1>7, MaskedIs
<1>9. mk \in [Words -> Nat] /\ \A i \in Words : mk[i] = IF i = Top THEN m[i] ELSE m[i] % b
  <2>1. \A i \in Words : mk[i] = IF i = Top THEN m[i] ELSE m[i] % b
    BY DEF Masked
  <2> QED BY <1>8, <2>1 DEF Clean
<1> HIDE DEF mk
<1>10. /\ z \in [Words -> Nat] /\ \A i \in Words : i # Top => z[i] = mk[i]
       /\ ex \in Nat /\ Num(mk) = Num(z) + ex * Limit /\ z[Top] \in 0..(B - 1)
  BY <1>8, <1>9, CutIs
<1>11. z[Top] = m[Top] % B
  BY <1>1, <1>8, <1>9 DEF Cut
<1> HIDE DEF z
<1>12. \A i \in Words : i # Top => z[i] = m[i] % b /\ z[i] \in 0..(b - 1)
  <2> SUFFICES ASSUME NEW i \in Words, i # Top PROVE z[i] = m[i] % b /\ z[i] \in 0..(b - 1)
    OBVIOUS
  <2>1. z[i] = m[i] % b
    BY <1>9, <1>10
  <2> DEFINE a == m[i]
  <2>2. a \in Int
    BY <1>7
  <2> HIDE DEF a
  <2>3. a % b \in 0..(b - 1)
    BY <1>1, <2>2, DivMod
  <2> QED BY <2>1, <2>3 DEF a
<1>13. WholeWords(z)
  <2>1. \A i \in Words : z[i] \in Int
    BY <1>10
  <2> QED BY <2>1 DEF WholeWords
\* The excess, folded in once more: how much reaches the third word.
<1>14. ex <= TopMax \div B /\ TopMax \div B \in Nat
  <2> DEFINE a == m[Top]
  <2>1. a \in Nat /\ a <= TopMax
    BY <1>1, <1>6, <1>7
  <2> HIDE DEF a, B
  <2>2. a \div B <= TopMax \div B /\ TopMax \div B \in Nat
    BY <1>1, <1>4, <2>1, DivMono
  <2> QED BY <2>2 DEF a
<1> HIDE DEF ex
<1>15. lo = z[0] + ex * C0 /\ nx = (lo \div b) + z[1] + ex * C1
  <2>1. z[0] = m[0] % b /\ z[1] = m[1] % b
    BY <1>1, <1>12
  <2> QED BY <2>1
<1> DEFINE l == lo \div b
           l0 == lo % b
           n0 == nx % b
           e0 == ex * C0
           e1 == ex * C1
<1>16. e0 \in Nat /\ e1 \in Nat /\ z[0] \in 0..(b - 1) /\ z[1] \in 0..(b - 1) /\ z[2] \in 0..(b - 1)
       /\ z[2] = m[2] % b
  <2>1. e0 \in Nat /\ e1 \in Nat
    BY <1>1, <1>10 DEF ex
  <2> QED BY <1>1, <1>12, <2>1
<1>17. lo = z[0] + e0 /\ lo \in Nat /\ l \in Nat /\ l0 \in 0..(b - 1) /\ lo = l * b + l0
  <2>1. lo = z[0] + e0
    BY <1>15
  <2>2. lo \in Nat
    BY <1>16, <2>1
  <2> HIDE DEF lo
  <2>3. l \in Nat
    BY <1>1, <2>2
  <2>4. l0 \in 0..(b - 1) /\ lo = l * b + l0
    <3>1. lo \in Int /\ b \in Nat \ {0}
      BY <1>1, <2>2
    <3> QED BY <3>1, DivMod, Zenon
  <2> QED BY <2>1, <2>2, <2>3, <2>4
<1>18. nx = l + z[1] + e1 /\ nx \in Nat /\ th \in Nat /\ n0 \in 0..(b - 1) /\ nx = th * b + n0
  <2>1. nx = l + z[1] + e1
    BY <1>15
  <2>2. nx \in Nat
    BY <1>16, <1>17, <2>1
  <2> HIDE DEF nx
  <2>3. th \in Nat
    BY <1>1, <2>2
  <2>4. n0 \in 0..(b - 1) /\ nx = th * b + n0
    <3>1. nx \in Int /\ b \in Nat \ {0}
      BY <1>1, <2>2
    <3> QED BY <3>1, DivMod, Zenon
  <2> QED BY <2>1, <2>2, <2>3, <2>4
<1> HIDE DEF lo, nx, th, l, l0, n0
<1>19. e1 * b + e0 = ex * PMinus /\ e1 * b \in Nat
  <2> DEFINE q == C1 * b
  <2>1. PMinus = q + C0 /\ q \in Nat /\ ex \in Nat
    BY <1>1, <1>10 DEF PMinus, ex
  <2>2. e1 * b = ex * q
    <3>1. (ex * C1) * b = ex * (C1 * b)
      BY <1>1, <2>1
    <3> QED BY <3>1
  <2> HIDE DEF q
  <2>3. ex * (q + C0) = ex * q + ex * C0 /\ ex * q \in Nat
    BY <1>1, <2>1
  <2> QED BY <2>1, <2>2, <2>3
<1> HIDE DEF e0, e1
<1>20. th <= CarrySlack /\ CarrySlack \in Nat
  <2> DEFINE s == b * b
             em == TopMax \div B
             Y == s - 1 + em * PMinus
  <2>1. CarrySlack \in Nat
    BY FieldRoom
  <2>2. Y \div s <= CarrySlack
    BY RoomAssumption DEF b, B
  <2>3. s \in Nat \ {0}
    <3> HIDE DEF b
    <3> QED BY <1>1
  <2>4. em \in Nat /\ ex <= em
    BY <1>14
  <2> HIDE DEF em
  <2>5. ex * PMinus <= em * PMinus /\ em * PMinus \in Nat /\ ex * PMinus \in Nat
    <3>1. ex \in Nat /\ PMinus \in Nat
      BY <1>2, <1>10 DEF ex
    <3> DEFINE p == PMinus
    <3> HIDE DEF p
    <3>2. p \in Nat /\ ex \in Nat
      BY <3>1 DEF p
    <3>3. ex * p <= em * p /\ em * p \in Nat /\ ex * p \in Nat
      BY <2>4, <3>2
    <3> QED BY <3>3 DEF p
  <2>6. nx * b + l0 = z[0] + z[1] * b + ex * PMinus
    <3>1. nx * b = l * b + z[1] * b + e1 * b /\ l * b \in Int /\ z[1] * b \in Int
      <4>1. z[1] \in Int /\ e1 \in Int /\ l \in Int /\ b \in Int
        BY <1>1, <1>16, <1>17
      <4>2. (l + z[1] + e1) * b = l * b + z[1] * b + e1 * b /\ l * b \in Int /\ z[1] * b \in Int
        BY <4>1
      <4> QED BY <1>18, <4>2
    <3>2. l * b + l0 = z[0] + e0
      BY <1>17
    <3> DEFINE i1 == l * b
               i2 == z[1] * b
               i3 == e1 * b
               i4 == ex * PMinus
               i5 == nx * b
    <3>3. /\ i1 \in Int /\ i2 \in Int /\ i3 \in Int /\ i5 = i1 + i2 + i3 /\ i1 + l0 = z[0] + e0
          /\ i3 + e0 = i4 /\ l0 \in Int /\ e0 \in Int /\ z[0] \in Int
      BY <1>16, <1>17, <1>19, <3>1, <3>2
    <3> HIDE DEF i1, i2, i3, i4, i5
    <3>4. i5 + l0 = z[0] + i2 + i4
      BY <3>3
    <3> QED BY <3>4 DEF i2, i4, i5
  <2>7. z[0] + z[1] * b <= s - 1 /\ z[1] * b \in Int
    <3> DEFINE u == z[1]
    <3>1. u \in 0..(b - 1) /\ z[0] \in 0..(b - 1)
      BY <1>16
    <3> HIDE DEF u, b
    <3>2. u * b <= (b - 1) * b /\ (b - 1) * b = b * b - b /\ u * b \in Int /\ b * b \in Int
      BY <1>1, <3>1
    <3> QED BY <1>1, <3>1, <3>2 DEF u
  <2>8. th * s <= nx * b /\ th * s \in Int /\ nx * b \in Int
    <3>1. nx = th * b + n0 /\ n0 \in 0..(b - 1) /\ th \in Nat /\ nx \in Nat /\ b \in Nat
      BY <1>1, <1>18
    <3> HIDE DEF b
    <3>2. (th * b + n0) * b = th * (b * b) + n0 * b /\ n0 * b \in Nat /\ th * (b * b) \in Nat
      BY <3>1
    <3>3. nx * b = th * (b * b) + n0 * b
      BY <3>1, <3>2
    <3> QED BY <3>2, <3>3
  <2>9. th * s <= Y /\ Y \in Nat
    <3> DEFINE i1 == th * s
               i2 == nx * b
               i3 == z[1] * b
               i4 == ex * PMinus
               i5 == em * PMinus
    <3>1. i1 <= i2 /\ i1 \in Int /\ i2 \in Int
      BY <2>8
    <3>2. i2 + l0 = z[0] + i3 + i4
      BY <2>6, Zenon
    <3>3. l0 \in Nat /\ z[0] \in Nat
      BY <1>1, <1>16, <1>17
    <3>4. z[0] + i3 <= s - 1 /\ i3 \in Int
      BY <2>7
    <3>5. i4 <= i5 /\ i5 \in Nat /\ i4 \in Nat
      BY <2>5
    <3>6. Y = s - 1 + i5 /\ s \in Nat \ {0}
      BY <2>3
    <3> HIDE DEF i1, i2, i3, i4, i5, s, Y
    <3>7. i1 <= Y /\ Y \in Nat
      BY <3>1, <3>2, <3>3, <3>4, <3>5, <3>6
    <3> QED BY <3>7 DEF i1
  <2> HIDE DEF s, Y
  <2>10. th <= Y \div s
    <3>1. th * s \in Nat
      BY <1>18, <2>3
    <3> DEFINE i1 == th * s
    <3> HIDE DEF i1
    <3>2. i1 \in Nat /\ i1 <= Y
      BY <2>9, <3>1 DEF i1
    <3>3. i1 \div s <= Y \div s
      BY <2>3, <2>9, <3>2, DivMono
    <3>4. i1 \div s = th
      <4>1. i1 = th * s + 0 /\ 0 \in 0..(s - 1) /\ th \in Int
        BY <1>18, <2>3, <3>1 DEF i1
      <4> QED BY <2>3, <4>1, DivIs
    <3> QED BY <3>3, <3>4
  <2>11. Y \div s \in Int
    BY <2>3, <2>9
  <2> QED BY <1>18, <2>1, <2>2, <2>10, <2>11
<1>21. (th + z[2]) % WordMod = th + z[2] /\ th + z[2] \in Nat /\ th + z[2] <= b - 1 + CarrySlack
  <2> DEFINE s == th + z[2]
             M == WordMod
  <2>1. s \in Nat /\ s <= b - 1 + CarrySlack
    BY <1>1, <1>16, <1>18, <1>20
  <2>2. WordMax = b - 1 + CarrySlack /\ Fill >= 2 * WordMax /\ Fill + CarryOf(Fill) < M /\ WordMax \in Nat
        /\ Fill \in Nat /\ CarryOf(Fill) \in Nat /\ M \in Nat \ {0}
    BY FieldRoom
  <2> HIDE DEF s, M
  <2>3. s \in 0..(M - 1)
    BY <2>1, <2>2
  <2>4. s % M = s
    BY <2>2, <2>3, ModSmall
  <2> QED BY <2>1, <2>4 DEF s, M
\* The words.
<1>22. /\ r[0] = l0 /\ r[1] = n0 /\ r[2] = th + z[2]
       /\ \A i \in Words : i \notin {0, 1, 2} => r[i] = z[i]
       /\ r = [i \in Words |-> r[i]]
  <2>1. \A k \in Words : r[k] = CASE k = 0   -> l0
                                  [] k = 1   -> n0
                                  [] k = 2   -> (th + (m[2] % b)) % WordMod
                                  [] k = Top -> m[Top] % B
                                  [] OTHER   -> m[k] % b
    BY <1>5, Zenon DEF l0, n0
  <2>2. r = [i \in Words |-> r[i]]
    BY <1>5
  <2>3. r[0] = l0 /\ r[1] = n0 /\ r[2] = (th + (m[2] % b)) % WordMod
    BY <1>1, <2>1
  <2>4. r[2] = th + z[2]
    <3>1. z[2] = m[2] % b
      BY <1>16
    <3> QED BY <1>21, <2>3, <3>1, Zenon
  <2>5. ASSUME NEW i \in Words, i \notin {0, 1, 2} PROVE r[i] = z[i]
    <3>1. i # 0 /\ i # 1 /\ i # 2
      BY <2>5
    <3>2. CASE i = Top
      <4>1. r[i] = m[Top] % B
        BY <2>1, <3>1, <3>2
      <4> QED BY <1>11, <3>2, <4>1
    <3>3. CASE i # Top
      <4>1. r[i] = m[i] % b
        BY <2>1, <3>1, <3>3
      <4> QED BY <1>12, <3>3, <4>1
    <3> QED BY <3>2, <3>3
  <2> QED BY <2>2, <2>3, <2>4, <2>5
<1>23. Within(r, 1)
  <2>1. ASSUME NEW i \in Words PROVE r[i] \in Nat /\ r[i] <= 1 * (WordBase(i) - 1 + Slack(i))
    <3> DEFINE d == WordBase(i) - 1 + Slack(i)
    <3>1. CASE i = 0
      <4>1. d = b - 1 + 0
        BY <1>1, <3>1 DEF WordBase, Slack
      <4>2. r[i] \in Nat /\ r[i] <= b - 1 + 0
        <5>1. r[i] = l0 /\ l0 \in 0..(b - 1)
          BY <1>17, <1>22, <3>1
        <5> DEFINE y == r[i]
        <5>2. y \in 0..(b - 1)
          BY <5>1
        <5> HIDE DEF y, b, B
        <5>3. y \in Nat /\ y <= b - 1 + 0
          BY <1>1, <5>2
        <5> QED BY <5>3 DEF y
      <4>3. d \in Int
        BY <1>1, <1>20, <4>1
      <4> HIDE DEF d
      <4>4. 1 * d = d
        BY <4>3
      <4> QED BY <4>1, <4>2, <4>4 DEF d
    <3>2. CASE i = 1
      <4>1. d = b - 1 + 0
        BY <1>1, <3>2 DEF WordBase, Slack
      <4>2. r[i] \in Nat /\ r[i] <= b - 1 + 0
        <5>1. r[i] = n0 /\ n0 \in 0..(b - 1)
          BY <1>18, <1>22, <3>2
        <5> DEFINE y == r[i]
        <5>2. y \in 0..(b - 1)
          BY <5>1
        <5> HIDE DEF y, b, B
        <5>3. y \in Nat /\ y <= b - 1 + 0
          BY <1>1, <5>2
        <5> QED BY <5>3 DEF y
      <4>3. d \in Int
        BY <1>1, <1>20, <4>1
      <4> HIDE DEF d
      <4>4. 1 * d = d
        BY <4>3
      <4> QED BY <4>1, <4>2, <4>4 DEF d
    <3>3. CASE i = 2
      <4>1. d = b - 1 + CarrySlack
        BY <1>1, <3>3 DEF WordBase, Slack
      <4>2. r[i] \in Nat /\ r[i] <= b - 1 + CarrySlack
        BY <1>21, <1>22, <3>3
      <4>3. d \in Int
        BY <1>1, <1>20, <4>1
      <4> HIDE DEF d
      <4>4. 1 * d = d
        BY <4>3
      <4> QED BY <4>1, <4>2, <4>4 DEF d
    <3>4. CASE i \notin {0, 1, 2} /\ i # Top
      <4>1. d = b - 1 + 0
        BY <3>4 DEF WordBase, Slack
      <4>2. r[i] \in Nat /\ r[i] <= b - 1 + 0
        <5>1. r[i] = z[i] /\ z[i] \in 0..(b - 1)
          BY <1>12, <1>22, <3>4
        <5> DEFINE y == r[i]
        <5>2. y \in 0..(b - 1)
          BY <5>1
        <5> HIDE DEF y, b, B
        <5>3. y \in Nat /\ y <= b - 1 + 0
          BY <1>1, <5>2
        <5> QED BY <5>3 DEF y
      <4>3. d \in Int
        BY <1>1, <1>20, <4>1
      <4> HIDE DEF d
      <4>4. 1 * d = d
        BY <4>3
      <4> QED BY <4>1, <4>2, <4>4 DEF d
    <3>5. CASE i = Top
      <4>1. d = B - 1 + 0
        BY <1>1, <3>5 DEF WordBase, Slack
      <4>2. r[i] \in Nat /\ r[i] <= B - 1 + 0
        <5>1. r[i] = z[i] /\ z[i] \in 0..(B - 1)
          BY <1>1, <1>10, <1>22, <3>5
        <5> DEFINE y == r[i]
        <5>2. y \in 0..(B - 1)
          BY <5>1
        <5> HIDE DEF y, b, B
        <5>3. y \in Nat /\ y <= B - 1 + 0
          BY <1>1, <5>2
        <5> QED BY <5>3 DEF y
      <4>3. d \in Int
        BY <1>1, <1>20, <4>1
      <4> HIDE DEF d
      <4>4. 1 * d = d
        BY <4>3
      <4> QED BY <4>1, <4>2, <4>4 DEF d
    <3> QED BY <3>1, <3>2, <3>3, <3>4, <3>5
  <2>2. r \in [Words -> Nat]
    BY <1>22, <2>1
  <2> QED BY <2>1, <2>2 DEF Within
\* The number.
<1> DEFINE a0 == e0 - l * b
           a1 == e1 + l - th * b
           y0 == [i \in Words |-> IF i = 0 THEN z[i] + a0 ELSE z[i]]
           y1 == [i \in Words |-> IF i = 1 THEN y0[i] + a1 ELSE y0[i]]
           D == Num(z)
<1>24. a0 \in Int /\ a1 \in Int /\ l * b \in Int /\ th * b \in Int /\ e0 \in Int /\ e1 \in Int /\ l \in Int
  <2>1. l \in Int /\ b \in Int /\ th \in Int /\ e0 \in Int /\ e1 \in Int
    BY <1>1, <1>16, <1>17, <1>18
  <2>2. l * b \in Int /\ th * b \in Int
    BY <2>1
  <2> QED BY <2>1, <2>2
<1>25. l0 = z[0] + a0 /\ n0 = z[1] + a1
  <2>1. z[0] \in Int /\ z[1] \in Int /\ l0 \in Int /\ n0 \in Int
    BY <1>1, <1>16, <1>17, <1>18
  <2> QED BY <1>17, <1>18, <1>24, <2>1
<1>26. /\ \A i \in Words : y0[i] = IF i = 0 THEN z[i] + a0 ELSE z[i]
       /\ \A i \in Words : y1[i] = IF i = 1 THEN y0[i] + a1 ELSE y0[i]
  BY Zenon
<1> HIDE DEF y0, y1, a0, a1
<1>27. WholeWords(y0) /\ Num(y0) = D + a0 * FP[0]
  BY <1>1, <1>13, <1>24, <1>26, NumAdded
<1>28. WholeWords(y1) /\ Num(y1) = Num(y0) + a1 * FP[1]
  BY <1>1, <1>24, <1>26, <1>27, NumAdded
<1>29. \A i \in Words : r[i] = IF i = 2 THEN y1[i] + th ELSE y1[i]
  <2> SUFFICES ASSUME NEW i \in Words PROVE r[i] = IF i = 2 THEN y1[i] + th ELSE y1[i]
    OBVIOUS
  <2>1. y0[i] = (IF i = 0 THEN z[i] + a0 ELSE z[i]) /\ y1[i] = IF i = 1 THEN y0[i] + a1 ELSE y0[i]
    BY <1>26
  <2>2. CASE i = 0
    BY <1>22, <1>25, <2>1, <2>2
  <2>3. CASE i = 1
    BY <1>22, <1>25, <2>1, <2>3
  <2>4. CASE i = 2
    <3>1. th + z[2] = z[2] + th
      BY <1>16, <1>18
    <3> QED BY <1>22, <2>1, <2>4, <3>1
  <2>5. CASE i \notin {0, 1, 2}
    BY <1>22, <2>1, <2>5
  <2> QED BY <2>2, <2>3, <2>4, <2>5
<1>30. WholeWords(r) /\ Num(r) = Num(y1) + th * FP[2]
  <2>1. th \in Int /\ 2 \in Words
    BY <1>1, <1>18
  <2> QED BY <1>28, <1>29, <2>1, NumAdded
<1>31. D \in Int
  BY <1>13, UpWhole
<1> DEFINE n == Num(r)
<1> HIDE DEF D, n
<1>32. n = D + ex * PMinus
  <2> DEFINE i1 == l * b
             i2 == th * b
             i3 == ex * PMinus
             i4 == e1 * b
             i5 == i2 * b
  <2>1. a0 * FP[0] = a0 /\ FP[1] = b /\ th * FP[2] = i5
    <3>1. a0 * 1 = a0
      BY <1>24
    <3>2. th * (b * b) = (th * b) * b
      <4>1. th \in Int /\ b \in Int
        BY <1>1, <1>18
      <4> QED BY <4>1
    <3> QED BY <1>2, <3>1, <3>2
  <2>2. a1 * b = i4 + i1 - i5 /\ i4 \in Int /\ i1 \in Int /\ i5 \in Int
    <3>1. e1 \in Int /\ l \in Int /\ i2 \in Int /\ b \in Int /\ a1 = e1 + l - i2
      BY <1>1, <1>24 DEF a1
    <3> HIDE DEF i2
    <3>2. (e1 + l - i2) * b = e1 * b + l * b - i2 * b /\ e1 * b \in Int /\ l * b \in Int /\ i2 * b \in Int
      BY <3>1
    <3> QED BY <3>1, <3>2
  <2>3. a0 = e0 - i1 /\ e0 \in Int /\ a0 \in Int /\ i4 + e0 = i3
    BY <1>19, <1>24 DEF a0
  <2>4. n = ((D + a0) + a1 * b) + i5
    BY <1>27, <1>28, <1>30, <2>1 DEF n
  <2> HIDE DEF i1, i2, i3, i4, i5
  <2> DEFINE j == a1 * b
  <2>5. j = i4 + i1 - i5 /\ n = ((D + a0) + j) + i5
    BY <2>2, <2>4
  <2> HIDE DEF j
  <2>6. n = D + i3
    BY <1>31, <2>2, <2>3, <2>5
  <2> QED BY <2>6 DEF i3
<1>33. ex \in Nat
  BY <1>10 DEF ex
<1>34. n \in Int
  <2>1. ex * PMinus \in Int
    BY <1>2, <1>33
  <2> QED BY <1>31, <1>32, <2>1
<1>35. Cong(P, Num(col), n)
  <2>1. Num(col) = D + ex * Limit
    BY <1>8, <1>10 DEF D, ex
  <2>2. ex * Limit = ex * P + ex * PMinus /\ ex * P \in Int /\ ex * PMinus \in Int
    <3>1. ex \in Int /\ P \in Int /\ PMinus \in Int /\ Limit = P + PMinus
      BY <1>2, <1>33
    <3> QED BY <3>1
  <2>3. Num(col) = n + ex * P
    BY <1>31, <1>32, <2>1, <2>2
  <2>4. ex \in Int
    BY <1>33
  <2> QED BY <2>3, <2>4 DEF Cong
<1>36. Cong(P, x, n)
  BY <1>2, <1>3, <1>34, <1>35, CongTrans
<1> QED BY <1>3, <1>23, <1>34, <1>36 DEF r, n

\* A product, and a square.
LEMMA Mul2Is ==
    ASSUME NEW v, Factor(v), NEW w, Factor(w), Num(v) \in Int, Num(w) \in Int
    PROVE  /\ Within(Mul2(v, w), 1)
           /\ Num(Mul2(v, w)) \in Int /\ Cong(P, Num(Mul2(v, w)), Num(v) * Num(w))
<1> DEFINE x == Num(v) * Num(w)
           t == Product(Columns(v, w))
           r == Mul2(v, w)
<1>1. DoubleWords(t, x)
  BY ColumnsAre, ProductIs, Zenon
<1>2. r = Reduce(t)
  BY Zenon DEF Mul2
<1> HIDE DEF t, r, x
<1>3. /\ Within(Reduce(t), 1) /\ x \in Int /\ Num(Reduce(t)) \in Int
      /\ Cong(P, x, Num(Reduce(t)))
  BY <1>1, ReduceIs
<1>4. Cong(P, Num(Reduce(t)), x)
  BY <1>3, PrimeBounds, CongSym
<1> QED BY <1>2, <1>3, <1>4 DEF r, x

LEMMA SquareValIs ==
    ASSUME NEW w, Factor(w), Num(w) \in Int
    PROVE  /\ Within(SquareVal(w), 1)
           /\ Num(SquareVal(w)) \in Int /\ Cong(P, Num(SquareVal(w)), Num(w) * Num(w))
<1> DEFINE x == Num(w) * Num(w)
           t == Product(SquareColumns(w))
           r == SquareVal(w)
<1>1. DoubleWords(t, x)
  BY SquareColumnsAre, ProductIs, Zenon
<1>2. r = Reduce(t)
  BY Zenon DEF SquareVal
<1> HIDE DEF t, r, x
<1>3. /\ Within(Reduce(t), 1) /\ x \in Int /\ Num(Reduce(t)) \in Int
      /\ Cong(P, x, Num(Reduce(t)))
  BY <1>1, ReduceIs
<1>4. Cong(P, Num(Reduce(t)), x)
  BY <1>3, PrimeBounds, CongSym
<1> QED BY <1>2, <1>3, <1>4 DEF r, x

-----------------------------------------------------------------------------
\* Words of magnitude mag that stand for x modulo the prime.
Stands(w, mag, x) ==
    Within(w, mag) /\ x \in Int /\ Num(w) \in Int /\ Cong(P, Num(w), x)

\* The magnitude bounds the words, but for the carry of a product; the words
\* stand for the exact result; and after Normalize they are those of it.
FieldInvariant ==
    /\ magnitude \in 1..CallerMax
    /\ exact \in 0..(P - 1)
    /\ Stands(f, magnitude, exact)
    /\ normalized \in BOOLEAN
    /\ normalized => f = Packed(exact)

LEMMA PackedStands ==
    ASSUME NEW n \in Nat, n < Limit
    PROVE  Stands(Packed(n), 1, n)
<1> DEFINE w == Packed(n)
<1>1. FieldWordy(w) /\ Num(w) = n
  BY PackedIs
<1> HIDE DEF w
<1>2. ASSUME NEW i \in Words PROVE w[i] <= 1 * (WordBase(i) - 1 + Slack(i))
  <2> DEFINE d == WordBase(i)
             e == Slack(i)
  <2>1. w[i] \in 0..(d - 1) /\ d \in Int
    <3>1. d \in Int
      BY FieldNumbers DEF WordBase
    <3> QED BY <1>1, <3>1 DEF FieldWordy
  <2>2. e \in Nat
    BY FieldRoom DEF Slack
  <2> HIDE DEF d, e
  <2>3. w[i] <= 1 * (d - 1 + e)
    BY <2>1, <2>2
  <2> QED BY <2>3 DEF d, e
<1>3. Within(w, 1)
  BY <1>1, <1>2 DEF Within, FieldWordy
<1>4. Cong(P, Num(w), n) /\ n \in Int
  BY <1>1, PrimeBounds, CongRefl
<1> QED BY <1>1, <1>3, <1>4 DEF Stands, w

LEMMA NegateStands ==
    ASSUME NEW mag \in 1..NegateMax, NEW w, NEW x, Stands(w, mag, x)
    PROVE  Stands(NegateVal(w, mag), mag + 1, P - x)
<1> DEFINE z == NegateVal(w, mag)
           m == Num(w)
           k == Num(z)
<1>1. Within(z, mag + 1) /\ k = (mag + 1) * P - m
  BY NegateValIs DEF Stands
<1>2. m \in Int /\ x \in Int /\ P \in Nat \ {0} /\ Cong(P, m, x)
  BY PrimeBounds DEF Stands
<1>3. mag \in Int
  BY FieldRoom
<1> HIDE DEF z, m, k
<1> DEFINE p == P
<1>4. p \in Nat \ {0} /\ p = P
  BY <1>2
<1> HIDE DEF p
<1>5. PICK q \in Int : m = x + q * p
  BY <1>2, <1>4 DEF Cong
<1>6. (mag + 1) * p - (x + q * p) = (p - x) + (mag - q) * p /\ mag - q \in Int
      /\ (mag + 1) * p - m \in Int /\ p - x \in Int
  BY <1>2, <1>3, <1>4
<1>7. k = (p - x) + (mag - q) * p
  BY <1>1, <1>4, <1>5, <1>6
<1>8. Cong(p, k, p - x)
  BY <1>6, <1>7 DEF Cong
<1>9. k \in Int
  BY <1>1, <1>4, <1>6
<1> QED BY <1>1, <1>4, <1>6, <1>8, <1>9 DEF Stands, z, k

\* The other operand of a sum and of a product.
LEMMA OperandStands ==
    ASSUME NEW n \in Operands, NEW neg \in BOOLEAN
    PROVE  LET op == IF neg THEN NegateVal(Packed(n), 1) ELSE Packed(n)
               x  == IF neg THEN P - n ELSE n
               mg == IF neg THEN 2 ELSE 1
           IN  Stands(op, mg, x) /\ x \in 0..P /\ mg \in 1..MulMax /\ mg \in 1..CallerMax
<1>1. n \in 0..(P - 1) /\ n \in Nat /\ n < Limit
  BY FieldAssumption, PrimeBounds
<1>2. Stands(Packed(n), 1, n)
  BY <1>1, PackedStands
<1>3. 1 \in 1..NegateMax
  BY FieldRoom
<1>4. Stands(NegateVal(Packed(n), 1), 1 + 1, P - n)
  BY <1>2, <1>3, NegateStands
<1>5. Stands(NegateVal(Packed(n), 1), 2, P - n)
  <2>1. 1 + 1 = 2
    OBVIOUS
  <2> QED BY <1>4, <2>1
<1>6. P - n \in 0..P /\ n \in 0..P
  BY <1>1, PrimeBounds
<1>7. 1 \in 1..MulMax /\ 2 \in 1..MulMax /\ 1 \in 1..CallerMax /\ 2 \in 1..CallerMax
  BY FieldRoom
<1> QED BY <1>2, <1>5, <1>6, <1>7, Zenon

\* What a call leaves, when what is meant is reduced.
LEMMA StandsReduced ==
    ASSUME NEW w, NEW mag, NEW x, Stands(w, mag, x)
    PROVE  Stands(w, mag, x % P) /\ x % P \in 0..(P - 1)
<1>1. P \in Nat \ {0} /\ x \in Int /\ Num(w) \in Int /\ Cong(P, Num(w), x)
  BY PrimeBounds DEF Stands
<1> DEFINE r == x % P
<1>2. r \in 0..(P - 1) /\ r \in Int
  BY <1>1, DivMod, Zenon
<1>3. Cong(P, x, r)
  BY <1>1, CongMod, Zenon
<1> HIDE DEF r
<1>4. Cong(P, Num(w), r)
  BY <1>1, <1>2, <1>3, CongTrans, Zenon
<1> QED BY <1>1, <1>2, <1>4 DEF Stands, r

LEMMA BecomesStands ==
    ASSUME NEW w, NEW mag \in 1..CallerMax, NEW x, Stands(w, mag, x), Becomes(w, mag, x % P)
    PROVE  FieldInvariant'
<1>1. Stands(w, mag, x % P) /\ x % P \in 0..(P - 1)
  BY StandsReduced
<1>2. f' = w /\ magnitude' = mag /\ exact' = x % P /\ normalized' = FALSE
  BY DEF Becomes
<1>3. Stands(f', magnitude', exact') /\ exact' \in 0..(P - 1)
  BY <1>1, <1>2
<1> QED BY <1>2, <1>3 DEF FieldInvariant, Stands, Within, Num, Up

\* SetBytes starts with the words of the number it is given.
LEMMA FieldInitKeeps == FieldInit => FieldInvariant
<1> SUFFICES ASSUME FieldInit PROVE FieldInvariant
  OBVIOUS
<1>1. PICK n \in Inputs :
        /\ f = SetBytes(ToBytes(n)).words
        /\ magnitude = 1
        /\ normalized = ~SetBytes(ToBytes(n)).overflow
        /\ exact = n % P
  BY DEF FieldInit
<1>2. n \in 0..(Limit - 1) /\ n \in Nat /\ n < Limit
  BY FieldAssumption, PrimeBounds
<1>3. SetBytes(ToBytes(n)) = [words |-> Packed(n), overflow |-> n >= P]
  BY <1>2, SetBytesIs
<1>4. f = Packed(n) /\ normalized = ~(n >= P)
  <2> DEFINE w == Packed(n)
             o == n >= P
  <2>1. SetBytes(ToBytes(n)) = [words |-> w, overflow |-> o]
    BY <1>3
  <2> HIDE DEF w, o
  <2>2. SetBytes(ToBytes(n)).words = w /\ SetBytes(ToBytes(n)).overflow = o
    BY <2>1
  <2> QED BY <1>1, <2>2 DEF w, o
<1>5. Stands(Packed(n), 1, n % P) /\ n % P \in 0..(P - 1)
  BY <1>2, PackedStands, StandsReduced
<1>6. Stands(f, magnitude, exact) /\ exact \in 0..(P - 1)
  BY <1>1, <1>4, <1>5
<1>7. normalized => n % P = n
  <2> SUFFICES ASSUME normalized PROVE n % P = n
    OBVIOUS
  <2>1. ~(n >= P)
    BY <1>4
  <2>2. n \in 0..(P - 1) /\ P \in Nat \ {0}
    BY <1>2, <2>1, PrimeBounds
  <2> QED BY <2>2, ModSmall, Zenon
<1>8. magnitude \in 1..CallerMax
  BY <1>1, FieldRoom
<1>9. normalized \in BOOLEAN
  BY <1>4
<1> QED BY <1>1, <1>4, <1>6, <1>7, <1>8, <1>9, Zenon DEF FieldInvariant

\* Normalize leaves the words of the reduced number, and nothing else does.
LEMMA NormalizeKeeps == FieldInvariant /\ CallNormalize => FieldInvariant'
<1> SUFFICES ASSUME FieldInvariant, CallNormalize PROVE FieldInvariant'
  OBVIOUS
<1>1. /\ magnitude \in 1..CallerMax /\ exact \in 0..(P - 1) /\ Within(f, magnitude)
      /\ Num(f) \in Int /\ exact \in Int /\ Cong(P, Num(f), exact)
  BY DEF FieldInvariant, Stands
<1>2. Normalize(f) = Packed(Num(f) % P)
  BY <1>1, NormalizeIs
<1>3. Num(f) % P = exact
  <2>1. P \in Nat \ {0}
    BY PrimeBounds
  <2>2. Num(f) % P = exact % P
    BY <1>1, <2>1, CongIff, Zenon
  <2>3. exact % P = exact
    BY <1>1, <2>1, ModSmall, Zenon
  <2> QED BY <2>2, <2>3
<1>4. f' = Packed(exact) /\ magnitude' = 1 /\ normalized' = TRUE /\ exact' = exact
  BY <1>2, <1>3 DEF CallNormalize
<1>5. exact \in Nat /\ exact < Limit
  BY <1>1, PrimeBounds
<1>6. Stands(Packed(exact), 1, exact)
  BY <1>5, PackedStands
<1>7. 1 \in 1..CallerMax
  BY FieldRoom
<1>8. Stands(f', magnitude', exact') /\ exact' \in 0..(P - 1) /\ magnitude' \in 1..CallerMax
  BY <1>1, <1>4, <1>6, <1>7
<1> QED BY <1>4, <1>8 DEF FieldInvariant, Stands, Within, Num, Up, Packed

LEMMA NegateKeeps == FieldInvariant /\ CallNegate => FieldInvariant'
<1> SUFFICES ASSUME FieldInvariant, CallNegate PROVE FieldInvariant'
  OBVIOUS
<1>1. /\ magnitude \in 1..NegateMax /\ Stands(f, magnitude, exact)
      /\ magnitude + 1 \in 1..CallerMax
      /\ Becomes(NegateVal(f, magnitude), magnitude + 1, (P - exact) % P)
  BY FieldRoom DEF FieldInvariant, CallNegate
<1>2. Stands(NegateVal(f, magnitude), magnitude + 1, P - exact)
  BY <1>1, NegateStands
<1> QED BY <1>1, <1>2, BecomesStands

LEMMA AddKeeps == FieldInvariant /\ CallAdd => FieldInvariant'
<1> SUFFICES ASSUME FieldInvariant, CallAdd PROVE FieldInvariant'
  OBVIOUS
<1>1. PICK n \in Operands, neg \in BOOLEAN :
        LET op == IF neg THEN NegateVal(Packed(n), 1) ELSE Packed(n)
            x  == IF neg THEN P - n ELSE n
            mg == IF neg THEN 2 ELSE 1
        IN  /\ magnitude + mg <= CallerMax
            /\ Becomes(Add2(f, op), magnitude + mg, (exact + x) % P)
  BY DEF CallAdd
<1> DEFINE op == IF neg THEN NegateVal(Packed(n), 1) ELSE Packed(n)
           x  == IF neg THEN P - n ELSE n
           mg == IF neg THEN 2 ELSE 1
<1>2. magnitude + mg <= CallerMax /\ Becomes(Add2(f, op), magnitude + mg, (exact + x) % P)
  BY <1>1, Zenon
<1>3. Stands(op, mg, x) /\ mg \in 1..CallerMax
  BY OperandStands, Zenon
<1>4. magnitude \in 1..CallerMax /\ Stands(f, magnitude, exact)
  BY DEF FieldInvariant
<1> HIDE DEF op, x, mg
<1> DEFINE z == Add2(f, op)
<1>5. Within(z, magnitude + mg) /\ Num(z) = Num(f) + Num(op)
  BY <1>2, <1>3, <1>4, Add2Is DEF Stands
<1> HIDE DEF z
<1>6. /\ Num(f) \in Int /\ exact \in Int /\ Num(op) \in Int /\ x \in Int /\ P \in Nat \ {0}
      /\ Cong(P, Num(f), exact) /\ Cong(P, Num(op), x)
  BY <1>3, <1>4, PrimeBounds DEF Stands
<1>7. Cong(P, Num(f) + Num(op), exact + x)
  BY <1>6, CongPlus, Zenon
<1>8. Num(f) + Num(op) \in Int /\ exact + x \in Int
  BY <1>6
<1>9. Stands(z, magnitude + mg, exact + x)
  BY <1>5, <1>7, <1>8 DEF Stands
<1>10. magnitude + mg \in 1..CallerMax
  BY <1>2, <1>3, <1>4, FieldRoom
<1> QED BY <1>2, <1>9, <1>10, BecomesStands DEF z

LEMMA AddIntKeeps == FieldInvariant /\ CallAddInt => FieldInvariant'
<1> SUFFICES ASSUME FieldInvariant, CallAddInt PROVE FieldInvariant'
  OBVIOUS
<1>1. PICK ui \in SmallInts :
        /\ magnitude + 1 <= CallerMax
        /\ Becomes(AddInt(f, ui), magnitude + 1, (exact + ui) % P)
  BY DEF CallAddInt
<1>2. ui \in 0..(Base - 1) /\ ui \in Int
  BY FieldAssumption
<1>3. magnitude \in 1..CallerMax /\ Stands(f, magnitude, exact)
  BY DEF FieldInvariant
<1> DEFINE z == AddInt(f, ui)
<1>4. Within(z, magnitude + 1) /\ Num(z) = Num(f) + ui
  BY <1>1, <1>2, <1>3, AddIntIs DEF Stands
<1> HIDE DEF z
<1>5. Num(f) \in Int /\ exact \in Int /\ P \in Nat \ {0} /\ Cong(P, Num(f), exact)
  BY <1>3, PrimeBounds DEF Stands
<1>6. Cong(P, ui, ui)
  BY <1>2, <1>5, CongRefl, Zenon
<1>7. Cong(P, Num(f) + ui, exact + ui)
  BY <1>2, <1>5, <1>6, CongPlus, Zenon
<1>8. Num(f) + ui \in Int /\ exact + ui \in Int
  BY <1>2, <1>5
<1>9. Stands(z, magnitude + 1, exact + ui)
  BY <1>4, <1>7, <1>8 DEF Stands
<1>10. magnitude + 1 \in 1..CallerMax
  BY <1>1, <1>3, FieldRoom
<1> QED BY <1>1, <1>9, <1>10, BecomesStands DEF z

LEMMA MulIntKeeps == FieldInvariant /\ CallMulInt => FieldInvariant'
<1> SUFFICES ASSUME FieldInvariant, CallMulInt PROVE FieldInvariant'
  OBVIOUS
<1>1. PICK ui \in SmallInts :
        /\ ui > 0 /\ magnitude * ui <= CallerMax
        /\ Becomes(MulInt(f, ui), magnitude * ui, (exact * ui) % P)
  BY DEF CallMulInt
<1>2. ui \in Nat \ {0} /\ ui \in Int
  BY <1>1, FieldAssumption
<1>3. magnitude \in 1..CallerMax /\ Stands(f, magnitude, exact)
  BY DEF FieldInvariant
<1> DEFINE z == MulInt(f, ui)
<1>4. Within(z, magnitude * ui) /\ Num(z) = ui * Num(f)
  BY <1>1, <1>2, <1>3, MulIntIs DEF Stands
<1> HIDE DEF z
<1>5. Num(f) \in Int /\ exact \in Int /\ P \in Nat \ {0} /\ Cong(P, Num(f), exact)
  BY <1>3, PrimeBounds DEF Stands
<1>6. Cong(P, Num(f) * ui, exact * ui)
  BY <1>2, <1>5, CongScale, Zenon
<1>7. ui * Num(f) = Num(f) * ui /\ Num(f) * ui \in Int /\ exact * ui \in Int
  BY <1>2, <1>5
<1>8. Stands(z, magnitude * ui, exact * ui)
  BY <1>4, <1>6, <1>7 DEF Stands
<1>9. magnitude * ui \in 1..CallerMax
  <2>1. magnitude \in Nat \ {0} /\ CallerMax \in Nat
    BY <1>3, FieldRoom
  <2>2. magnitude * ui \in Nat \ {0}
    BY <1>2, <2>1
  <2> QED BY <1>1, <2>1, <2>2
<1> QED BY <1>1, <1>8, <1>9, BecomesStands DEF z

LEMMA MulKeeps == FieldInvariant /\ CallMul => FieldInvariant'
<1> SUFFICES ASSUME FieldInvariant, CallMul PROVE FieldInvariant'
  OBVIOUS
<1>1. PICK n \in Operands, neg \in BOOLEAN :
        LET op == IF neg THEN NegateVal(Packed(n), 1) ELSE Packed(n)
            x  == IF neg THEN P - n ELSE n
        IN  /\ magnitude <= MulMax
            /\ Becomes(Mul2(f, op), 1, MulMod(exact, x))
  BY DEF CallMul
<1> DEFINE op == IF neg THEN NegateVal(Packed(n), 1) ELSE Packed(n)
           x  == IF neg THEN P - n ELSE n
           mg == IF neg THEN 2 ELSE 1
<1>2. magnitude <= MulMax /\ Becomes(Mul2(f, op), 1, MulMod(exact, x))
  BY <1>1, Zenon
<1>3. Stands(op, mg, x) /\ mg \in 1..MulMax /\ x \in 0..P
  BY OperandStands, Zenon
<1>4. magnitude \in 1..MulMax /\ Stands(f, magnitude, exact) /\ exact \in Nat
  BY <1>2, FieldRoom, PrimeBounds DEF FieldInvariant
<1> HIDE DEF op, x, mg
<1>5. /\ Num(f) \in Int /\ exact \in Int /\ Num(op) \in Int /\ x \in Int /\ P \in Nat \ {0}
      /\ Cong(P, Num(f), exact) /\ Cong(P, Num(op), x)
  BY <1>3, <1>4, PrimeBounds DEF Stands
<1>6. Factor(f) /\ Factor(op)
  BY <1>3, <1>4, FactorIs DEF Stands
<1> DEFINE z == Mul2(f, op)
<1>7. Within(z, 1) /\ Num(z) \in Int /\ Cong(P, Num(z), Num(f) * Num(op))
  BY <1>5, <1>6, Mul2Is
<1> HIDE DEF z
<1>8. Cong(P, Num(f) * Num(op), exact * x)
  BY <1>5, CongTimes, Zenon
<1>9. Num(f) * Num(op) \in Int /\ exact * x \in Int
  BY <1>5
<1>10. Cong(P, Num(z), exact * x)
  BY <1>5, <1>7, <1>8, <1>9, CongTrans, Zenon
<1>11. Stands(z, 1, exact * x)
  BY <1>7, <1>9, <1>10 DEF Stands
<1>12. MulMod(exact, x) = (exact * x) % P
  <2>1. x \in 0..(Limit - 1)
    BY <1>3, PrimeBounds
  <2> QED BY <1>4, <2>1, MulModIs
<1>13. 1 \in 1..CallerMax
  BY FieldRoom
<1> QED BY <1>2, <1>11, <1>12, <1>13, BecomesStands DEF z

LEMMA SquareKeeps == FieldInvariant /\ CallSquare => FieldInvariant'
<1> SUFFICES ASSUME FieldInvariant, CallSquare PROVE FieldInvariant'
  OBVIOUS
<1>1. magnitude <= MulMax /\ Becomes(SquareVal(f), 1, MulMod(exact, exact))
  BY DEF CallSquare
<1>2. magnitude \in 1..MulMax /\ Stands(f, magnitude, exact) /\ exact \in 0..(Limit - 1)
  BY <1>1, FieldRoom, PrimeBounds DEF FieldInvariant
<1>3. Num(f) \in Int /\ exact \in Int /\ P \in Nat \ {0} /\ Cong(P, Num(f), exact)
  BY <1>2, PrimeBounds DEF Stands
<1>4. Factor(f)
  BY <1>2, FactorIs DEF Stands
<1> DEFINE z == SquareVal(f)
<1>5. Within(z, 1) /\ Num(z) \in Int /\ Cong(P, Num(z), Num(f) * Num(f))
  BY <1>3, <1>4, SquareValIs
<1> HIDE DEF z
<1>6. Cong(P, Num(f) * Num(f), exact * exact)
  BY <1>3, CongTimes, Zenon
<1>7. Num(f) * Num(f) \in Int /\ exact * exact \in Int
  BY <1>3
<1>8. Cong(P, Num(z), exact * exact)
  BY <1>3, <1>5, <1>6, <1>7, CongTrans, Zenon
<1>9. Stands(z, 1, exact * exact)
  BY <1>5, <1>7, <1>8 DEF Stands
<1>10. MulMod(exact, exact) = (exact * exact) % P
  BY <1>2, MulModIs
<1>11. 1 \in 1..CallerMax
  BY FieldRoom
<1> QED BY <1>1, <1>9, <1>10, <1>11, BecomesStands DEF z

LEMMA FieldNextKeeps == FieldInvariant /\ [FieldNext]_fieldVars => FieldInvariant'
<1> SUFFICES ASSUME FieldInvariant, [FieldNext]_fieldVars PROVE FieldInvariant'
  OBVIOUS
<1>1. CASE CallNormalize
  BY <1>1, NormalizeKeeps
<1>2. CASE CallNegate
  BY <1>2, NegateKeeps
<1>3. CASE CallAdd
  BY <1>3, AddKeeps
<1>4. CASE CallAddInt
  BY <1>4, AddIntKeeps
<1>5. CASE CallMulInt
  BY <1>5, MulIntKeeps
<1>6. CASE CallMul
  BY <1>6, MulKeeps
<1>7. CASE CallSquare
  BY <1>7, SquareKeeps
<1>8. CASE UNCHANGED fieldVars
  BY <1>8 DEF fieldVars, FieldInvariant, Stands, Within, Num, Up, Packed
<1> QED BY <1>1, <1>2, <1>3, <1>4, <1>5, <1>6, <1>7, <1>8, Zenon DEF FieldNext

LEMMA InvariantKeepsValue == FieldInvariant => ValueKept
<1> SUFFICES ASSUME FieldInvariant PROVE ValueKept
  OBVIOUS
<1>1. /\ magnitude \in 1..CallerMax /\ exact \in 0..(P - 1) /\ Within(f, magnitude)
      /\ Num(f) \in Int /\ exact \in Int /\ Cong(P, Num(f), exact)
      /\ normalized => f = Packed(exact)
  BY DEF FieldInvariant, Stands
<1>2. Value(f) = Num(f)
  <2>1. magnitude \in 0..CallerMax
    BY <1>1, FieldRoom
  <2> QED BY <1>1, <2>1, WithinIs, ValueIs
<1>3. Num(f) % P = exact
  <2>1. P \in Nat \ {0}
    BY PrimeBounds
  <2>2. Num(f) % P = exact % P
    BY <1>1, <2>1, CongIff, Zenon
  <2>3. exact % P = exact
    BY <1>1, <2>1, ModSmall, Zenon
  <2> QED BY <2>2, <2>3
<1>4. \A i \in Words :
         f[i] <= magnitude * (WordBase(i) - 1 + (IF i = 2 THEN CarrySlack ELSE 0))
  BY <1>1, Zenon DEF Within, Slack
<1>5. normalized => Canonical
  BY <1>1, PackedCanonical
<1> QED BY <1>2, <1>3, <1>4, <1>5 DEF ValueKept

\* Whatever the order of the calls that the preconditions allow, the words
\* stand for what the calls should have computed, no word is filled more often
\* than the magnitude says, and a normalized value has the words, the bytes,
\* the parity and the comparisons of its number.
THEOREM ValuesAreKept == FieldSpec => []ValueKept
<1>1. FieldSpec => []FieldInvariant
  BY FieldInitKeeps, FieldNextKeeps, PTL DEF FieldSpec
<1> QED BY <1>1, InvariantKeepsValue, PTL

=============================================================================
