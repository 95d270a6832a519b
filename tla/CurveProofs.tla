----------------------------- MODULE CurveProofs -----------------------------
(***************************************************************************)
(* Points of the curve (CurveArith): whatever is added, doubled and made   *)
(* affine, the coordinates kept are those of the exact sum, on every curve *)
(* of the assumed shape.                                                   *)
(*                                                                         *)
(* Each formula is a program on registers.  First what the instructions    *)
(* leave: a number that is congruent to a polynomial in the numbers the    *)
(* program began with, and its magnitude.  Then what the polynomials are:  *)
(* over a common third coordinate, those of the chord and the tangent.     *)
(***************************************************************************)
EXTENDS CurveArith, TLAPS, WellFoundedInduction, SequenceTheorems

-----------------------------------------------------------------------------
(* Congruence.  The provers reason about it by the laws below.             *)

Cong(n, a, b) == \E q \in Int : a = b + q * n

LEMMA Ring ==
    ASSUME NEW a \in Int, NEW b \in Int, NEW c \in Int
    PROVE  /\ (a + b) * c = a * c + b * c /\ (a - b) * c = a * c - b * c
           /\ c * (a + b) = c * a + c * b /\ c * (a - b) = c * a - c * b
           /\ (a * b) * c = a * (b * c) /\ (a * b) * c = (a * c) * b /\ a * b = b * a
           /\ a * b \in Int /\ a + b \in Int /\ a - b \in Int /\ -a \in Int
           /\ (-a) * b = -(a * b) /\ 0 * a = 0 /\ 1 * a = a
  OBVIOUS

LEMMA DivMod ==
    ASSUME NEW n \in Nat \ {0}, NEW a \in Int
    PROVE  /\ a % n \in 0..(n - 1) /\ a % n \in Int /\ a \div n \in Int
           /\ a = (a \div n) * n + (a % n)
  OBVIOUS

LEMMA DivIs ==
    ASSUME NEW n \in Nat \ {0}, NEW q \in Int, NEW r \in 0..(n - 1)
    PROVE  (q * n + r) \div n = q /\ (q * n + r) % n = r
  OBVIOUS

LEMMA ModSmall ==
    ASSUME NEW n \in Nat \ {0}, NEW a \in 0..(n - 1)
    PROVE  a % n = a
  OBVIOUS

LEMMA CongRefl ==
    ASSUME NEW n \in Nat \ {0}, NEW a \in Int
    PROVE  Cong(n, a, a)
<1> a = a + 0 * n
  OBVIOUS
<1> QED BY DEF Cong

LEMMA CongSym ==
    ASSUME NEW n \in Nat \ {0}, NEW a \in Int, NEW b \in Int, Cong(n, a, b)
    PROVE  Cong(n, b, a)
<1>1. PICK q \in Int : a = b + q * n
  BY DEF Cong
<1>2. b = a + (-q) * n /\ -q \in Int
  BY <1>1
<1> QED BY <1>2 DEF Cong

LEMMA CongTrans ==
    ASSUME NEW n \in Nat \ {0}, NEW a \in Int, NEW b \in Int, NEW c \in Int,
           Cong(n, a, b), Cong(n, b, c)
    PROVE  Cong(n, a, c)
<1>1. PICK q \in Int : a = b + q * n
  BY DEF Cong
<1>2. PICK t \in Int : b = c + t * n
  BY DEF Cong
<1>3. a = c + (q + t) * n /\ q + t \in Int
  BY <1>1, <1>2
<1> QED BY <1>3 DEF Cong

LEMMA CongPlus ==
    ASSUME NEW n \in Nat \ {0}, NEW a \in Int, NEW b \in Int, NEW c \in Int, NEW e \in Int,
           Cong(n, a, b), Cong(n, c, e)
    PROVE  Cong(n, a + c, b + e)
<1>1. PICK q \in Int : a = b + q * n
  BY DEF Cong
<1>2. PICK t \in Int : c = e + t * n
  BY DEF Cong
<1>3. a + c = (b + e) + (q + t) * n /\ q + t \in Int
  BY <1>1, <1>2
<1> QED BY <1>3 DEF Cong

LEMMA CongNeg ==
    ASSUME NEW n \in Nat \ {0}, NEW a \in Int, NEW b \in Int, Cong(n, a, b)
    PROVE  Cong(n, -a, -b) /\ Cong(n, n - a, -b)
<1>1. PICK q \in Int : a = b + q * n
  BY DEF Cong
<1>2. -a = (-b) + (-q) * n /\ -q \in Int
  BY <1>1
<1>3. n - a = (-b) + (1 - q) * n /\ 1 - q \in Int
  BY <1>1
<1> QED BY <1>2, <1>3 DEF Cong

LEMMA CongScale ==
    ASSUME NEW n \in Nat \ {0}, NEW a \in Int, NEW b \in Int, NEW c \in Int, Cong(n, a, b)
    PROVE  Cong(n, a * c, b * c) /\ Cong(n, c * a, c * b)
<1>1. PICK q \in Int : a = b + q * n
  BY DEF Cong
<1>2. (b + q * n) * c = b * c + (q * n) * c /\ (q * n) * c = (q * c) * n /\ q * c \in Int
  BY Ring
<1>3. a * c = b * c + (q * c) * n
  BY <1>1, <1>2
<1>4. a * c = c * a /\ b * c = c * b
  BY Ring
<1> QED BY <1>2, <1>3, <1>4 DEF Cong

LEMMA CongTimes ==
    ASSUME NEW n \in Nat \ {0}, NEW a \in Int, NEW b \in Int, NEW c \in Int, NEW e \in Int,
           Cong(n, a, b), Cong(n, c, e)
    PROVE  Cong(n, a * c, b * e)
<1>1. Cong(n, a * c, b * c) /\ Cong(n, b * c, b * e)
  BY CongScale
<1>2. a * c \in Int /\ b * c \in Int /\ b * e \in Int
  BY Ring
<1> QED BY <1>1, <1>2, CongTrans

LEMMA CongMod ==
    ASSUME NEW n \in Nat \ {0}, NEW a \in Int
    PROVE  Cong(n, a % n, a) /\ Cong(n, a, a % n)
<1> DEFINE q == a \div n
           r == a % n
<1>1. q \in Int /\ r \in Int /\ a = q * n + r
  BY DivMod
<1> HIDE DEF q, r
<1>2. a = r + q * n
  BY <1>1
<1>3. Cong(n, a, r)
  BY <1>1, <1>2 DEF Cong
<1>4. Cong(n, r, a)
  BY <1>1, <1>3, CongSym
<1> QED BY <1>3, <1>4 DEF r

\* Two remainders that are congruent are the same.
LEMMA CongSmall ==
    ASSUME NEW n \in Nat \ {0}, NEW a \in 0..(n - 1), NEW b \in 0..(n - 1), Cong(n, a, b)
    PROVE  a = b
<1>1. PICK q \in Int : a = b + q * n
  BY DEF Cong
<1>2. q < 1
  <2> SUFFICES ASSUME q >= 1 PROVE FALSE
    OBVIOUS
  <2>1. q * n >= n
    OBVIOUS
  <2> QED BY <1>1, <2>1
<1>3. q > -1
  <2> SUFFICES ASSUME q <= -1 PROVE FALSE
    OBVIOUS
  <2>1. q * n <= -n
    OBVIOUS
  <2> QED BY <1>1, <2>1
<1>4. q = 0
  BY <1>2, <1>3
<1> QED BY <1>1, <1>4

LEMMA CongIff ==
    ASSUME NEW n \in Nat \ {0}, NEW a \in Int, NEW b \in Int
    PROVE  Cong(n, a, b) <=> a % n = b % n
<1> DEFINE r == a % n
           t == b % n
<1>1. /\ r \in 0..(n - 1) /\ t \in 0..(n - 1) /\ r \in Int /\ t \in Int
      /\ Cong(n, r, a) /\ Cong(n, a, r) /\ Cong(n, b, t) /\ Cong(n, t, b)
  BY DivMod, CongMod
<1> HIDE DEF r, t
<1>2. Cong(n, a, b) => r = t
  <2> SUFFICES ASSUME Cong(n, a, b) PROVE r = t
    OBVIOUS
  <2>1. Cong(n, r, b)
    BY <1>1, CongTrans
  <2>2. Cong(n, r, t)
    BY <1>1, <2>1, CongTrans
  <2> QED BY <1>1, <2>2, CongSmall
<1>3. r = t => Cong(n, a, b)
  BY <1>1, CongTrans
<1> QED BY <1>2, <1>3 DEF r, t

-----------------------------------------------------------------------------
(* Primes.                                                                 *)

LEMMA PrimeType ==
    ASSUME NEW p, Prime(p)
    PROVE  p \in Nat \ {0} /\ p > 1 /\ 0 \in 0..(p - 1) /\ 1 \in 0..(p - 1)
<1>1. p \in Nat /\ p > 1
  BY Zenon DEF Prime
<1> QED BY <1>1

LEMMA PrimeDivisor ==
    ASSUME NEW p, Prime(p), NEW g \in 2..(p - 1)
    PROVE  p % g # 0
  BY Zenon DEF Prime

\* The numbers that are congruent to a multiple of a: the least positive one
\* divides all of them.
MultiplesOf(p, a) == {x \in Nat \ {0} : \E u \in Int : Cong(p, x, u * a)}

LEMMA LeastMultiple ==
    ASSUME NEW p \in Nat \ {0}, NEW a \in Nat \ {0}
    PROVE  \E g \in MultiplesOf(p, a) : \A x \in MultiplesOf(p, a) : x % g = 0
<1> DEFINE T == MultiplesOf(p, a)
<1>1. T \subseteq Nat /\ a \in T
  <2>1. Cong(p, a, 1 * a)
    BY CongRefl
  <2> QED BY <2>1 DEF MultiplesOf
<1>2. PICK g \in T : \A y \in T : g <= y
  <2>1. PICK g \in T : \A y \in T : ~(<<y, g>> \in OpToRel(<, Nat))
    BY <1>1, NatLessThanWellFounded, WFMin
  <2> HIDE DEF T
  <2>2. ASSUME NEW y \in T PROVE g <= y
    <3>1. y \in Nat /\ g \in Nat
      BY <1>1
    <3>2. ~(y < g)
      BY <2>1, <3>1, Zenon DEF OpToRel
    <3> QED BY <3>1, <3>2
  <2> QED BY <2>2
<1>3. PICK u \in Int : g \in Nat \ {0} /\ Cong(p, g, u * a)
  BY DEF MultiplesOf
<1>4. ASSUME NEW x \in T
      PROVE  x % g = 0
  <2> DEFINE q == x \div g
             r == x % g
  <2>1. PICK s \in Int : x \in Nat \ {0} /\ Cong(p, x, s * a)
    BY DEF MultiplesOf
  <2>2. q \in Int /\ r \in 0..(g - 1) /\ x = q * g + r
    BY <1>3, <2>1, DivMod
  <2> HIDE DEF q, r
  <2>3. /\ q * g \in Int /\ q * (u * a) \in Int /\ s * a \in Int /\ u * a \in Int
        /\ -(q * g) \in Int /\ -(q * (u * a)) \in Int /\ x \in Int /\ r \in Int /\ g \in Int
    BY <1>3, <2>1, <2>2, Ring
  <2>4. Cong(p, -(q * g), -(q * (u * a)))
    BY <1>3, <2>2, <2>3, CongScale, CongNeg
  <2>5. Cong(p, x + (-(q * g)), s * a + (-(q * (u * a))))
    BY <2>1, <2>3, <2>4, CongPlus
  <2>6. x + (-(q * g)) = r
    BY <2>2, <2>3
  <2>7. s * a + (-(q * (u * a))) = (s - q * u) * a /\ s - q * u \in Int
    BY <1>3, <2>2, Ring
  <2>8. Cong(p, r, (s - q * u) * a)
    BY <2>5, <2>6, <2>7
  <2>9. r # 0 => r \in T
    <3>1. r \in Nat
      BY <1>3, <2>2
    <3> QED BY <2>7, <2>8, <3>1 DEF MultiplesOf
  <2>10. r = 0
    BY <1>2, <2>2, <2>9
  <2> QED BY <2>10 DEF r
<1> QED BY <1>4

LEMMA PrimeInverse ==
    ASSUME NEW p, Prime(p), NEW a \in 1..(p - 1)
    PROVE  \E b \in 0..(p - 1) : Cong(p, a * b, 1)
<1>p. p \in Nat \ {0} /\ p > 1 /\ 1 \in Int
  BY PrimeType
<1>1. a \in Nat \ {0} /\ a \in Int
  BY <1>p
<1>2. PICK g \in MultiplesOf(p, a) : \A x \in MultiplesOf(p, a) : x % g = 0
  BY <1>p, <1>1, LeastMultiple
<1>3. p \in MultiplesOf(p, a) /\ a \in MultiplesOf(p, a)
  <2>1. Cong(p, a, 1 * a)
    BY <1>p, <1>1, CongRefl
  <2>2. Cong(p, p, 0 * a)
    <3>1. p = 0 * a + 1 * p
      BY <1>p, <1>1
    <3> QED BY <3>1 DEF Cong
  <2>3. 1 \in Int /\ 0 \in Int
    OBVIOUS
  <2> QED BY <1>p, <1>1, <2>1, <2>2, <2>3, Zenon DEF MultiplesOf
<1>4. PICK u \in Int : g \in Nat \ {0} /\ Cong(p, g, u * a)
  BY DEF MultiplesOf
<1>5. g <= a
  <2>1. a % g = 0
    BY <1>2, <1>3
  <2> SUFFICES ASSUME g > a PROVE FALSE
    BY <1>1, <1>4
  <2>2. a % g = a
    BY <1>1, <1>4, ModSmall
  <2> QED BY <1>1, <2>1, <2>2
<1>6. g = 1
  <2>1. p % g = 0
    BY <1>2, <1>3
  <2>2. g \in 1..(p - 1)
    BY <1>p, <1>4, <1>5
  <2>3. g \notin 2..(p - 1)
    BY <2>1, PrimeDivisor
  <2> QED BY <2>2, <2>3
<1> DEFINE b == u % p
<1>7. b \in 0..(p - 1) /\ b \in Int /\ Cong(p, b, u)
  BY <1>p, DivMod, CongMod
<1> HIDE DEF b
<1>8. Cong(p, a * b, a * u) /\ a * u = u * a /\ a * b \in Int /\ a * u \in Int
  BY <1>p, <1>1, <1>7, CongScale, Ring
<1>9. Cong(p, u * a, 1)
  BY <1>p, <1>4, <1>6, <1>8, CongSym
<1>10. Cong(p, a * b, 1)
  BY <1>p, <1>8, <1>9, CongTrans
<1> QED BY <1>7, <1>10

\* A product is zero only if a factor is.
LEMMA PrimeProduct ==
    ASSUME NEW p, Prime(p), NEW a \in Int, NEW b \in Int, Cong(p, a * b, 0)
    PROVE  Cong(p, a, 0) \/ Cong(p, b, 0)
<1>p. p \in Nat \ {0} /\ p > 1 /\ 1 \in Int /\ 0 \in Int
  BY PrimeType
<1> SUFFICES ASSUME ~Cong(p, a, 0) PROVE Cong(p, b, 0)
  OBVIOUS
<1> DEFINE r == a % p
<1>1. r \in 0..(p - 1) /\ r \in Int /\ Cong(p, r, a) /\ Cong(p, a, r)
  BY <1>p, DivMod, CongMod
<1> HIDE DEF r
<1>2. r # 0 /\ r \in 1..(p - 1)
  BY <1>p, <1>1
<1>3. PICK i \in 0..(p - 1) : Cong(p, r * i, 1)
  BY <1>2, PrimeInverse
<1>4. i \in Int
  BY <1>p
<1>5. Cong(p, a * i, 1)
  <2>1. Cong(p, a * i, r * i) /\ a * i \in Int /\ r * i \in Int
    BY <1>p, <1>1, <1>4, CongScale, Ring
  <2> QED BY <1>p, <1>3, <2>1, CongTrans
<1>6. Cong(p, (a * i) * b, 1 * b) /\ (a * i) * b = (a * b) * i /\ 1 * b = b
  <2>1. a * i \in Int
    BY <1>4, Ring
  <2>2. Cong(p, (a * i) * b, 1 * b)
    BY <1>p, <1>5, <2>1, CongScale
  <2> QED BY <1>4, <2>2, Ring
<1>7. Cong(p, (a * b) * i, 0 * i) /\ 0 * i = 0
  <2>1. a * b \in Int
    BY Ring
  <2> QED BY <1>p, <1>4, <2>1, CongScale, Ring
<1>8. (a * b) * i \in Int
  BY <1>4, Ring
<1>9. Cong(p, b, (a * b) * i) /\ Cong(p, (a * b) * i, 0)
  BY <1>p, <1>6, <1>7, <1>8, CongSym
<1> QED BY <1>p, <1>8, <1>9, CongTrans

\* A factor that is not zero cancels.
LEMMA PrimeCancel ==
    ASSUME NEW p, Prime(p), NEW a \in Int, NEW b \in Int, NEW c \in Int,
           ~Cong(p, c, 0), Cong(p, a * c, b * c)
    PROVE  Cong(p, a, b)
<1>p. p \in Nat \ {0} /\ 0 \in Int
  BY PrimeType
<1>1. a * c \in Int /\ b * c \in Int /\ -(b * c) \in Int /\ a - b \in Int /\ -b \in Int
  BY Ring
<1>2. Cong(p, -(b * c), -(b * c)) /\ Cong(p, b, b)
  BY <1>p, <1>1, CongRefl
<1>3. Cong(p, a * c + (-(b * c)), b * c + (-(b * c)))
  BY <1>p, <1>1, <1>2, CongPlus
<1>4. a * c + (-(b * c)) = (a - b) * c /\ b * c + (-(b * c)) = 0
  <2>1. (a - b) * c = a * c - b * c
    BY Ring
  <2> QED BY <1>1, <2>1
<1>5. Cong(p, a - b, 0)
  BY <1>1, <1>3, <1>4, PrimeProduct
<1>6. Cong(p, (a - b) + b, 0 + b) /\ (a - b) + b = a /\ 0 + b = b
  BY <1>p, <1>1, <1>2, <1>5, CongPlus
<1> QED BY <1>6

-----------------------------------------------------------------------------
(* The group.                                                              *)

LEMMA CurveNumbers ==
    /\ Prime(P) /\ Prime(N)
    /\ P \in Nat \ {0} /\ N \in Nat \ {0} /\ P \in Int /\ N \in Int
    /\ P > 7 /\ N > 3 /\ P % 4 = 3 /\ N < P /\ P < 2 * N
<1>1. /\ Prime(P) /\ Prime(N)
      /\ P > 7 /\ P % 4 = 3 /\ N < P /\ P < 2 * N
  BY CurveAssumption
<1>2. P \in Nat \ {0} /\ N \in Nat \ {0}
  BY <1>1, PrimeType
<1> QED BY <1>1, <1>2

\* A multiple of the generator is known by its factor.
LEMMA MultiplesPoints ==
    ASSUME NEW k \in 0..(N - 1)
    PROVE  /\ Multiples[k] \in Group /\ Log[Multiples[k]] = k
           /\ Multiples[k] = Infinity <=> k = 0
           /\ k # 0 => Multiples[k] \in OnCurve
<1>1. Multiples[k] \in Group /\ Log[Multiples[k]] = k
  BY GroupAssumption
<1>2. 0 \in 0..(N - 1) /\ Log[Multiples[0]] = 0 /\ Multiples[0] = Infinity
  <2>1. 0 \in 0..(N - 1)
    BY CurveNumbers
  <2> QED BY <2>1, GroupAssumption
<1> QED BY <1>1, <1>2 DEF Group

LEMMA PointIsMultiple ==
    ASSUME NEW pt \in Group
    PROVE  Log[pt] \in 0..(N - 1) /\ Multiples[Log[pt]] = pt
  BY GroupAssumption

LEMMA TimesMultiple ==
    ASSUME NEW k \in Int, NEW l \in 0..(N - 1)
    PROVE  Times(k, Multiples[l]) = Multiples[(k * l) % N]
<1>1. Log[Multiples[l]] = l
  BY MultiplesPoints
<1> QED BY <1>1 DEF Times

LEMMA TimesGenerator ==
    ASSUME NEW k \in Int
    PROVE  Times(k, G) = Multiples[k % N]
<1>1. 1 \in 0..(N - 1)
  BY CurveNumbers
<1>2. Multiples[1] = G
  BY GroupAssumption
<1>3. Times(k, G) = Multiples[(k * 1) % N]
  BY <1>1, <1>2, TimesMultiple
<1> QED BY <1>3

LEMMA PlusMultiples ==
    ASSUME NEW a \in Int, NEW b \in Int
    PROVE  Plus(Multiples[a % N], Multiples[b % N]) = Multiples[(a + b) % N]
<1> DEFINE r == a % N
           t == b % N
<1>1. /\ N \in Nat \ {0} /\ r \in 0..(N - 1) /\ t \in 0..(N - 1)
      /\ r \in Int /\ t \in Int /\ Cong(N, r, a) /\ Cong(N, t, b)
  BY CurveNumbers, DivMod, CongMod
<1>2. Plus(Multiples[r], Multiples[t]) = Multiples[(r + t) % N]
  BY <1>1, GroupAssumption
<1> HIDE DEF r, t
<1>3. Cong(N, r + t, a + b) /\ r + t \in Int /\ a + b \in Int
  BY <1>1, CongPlus
<1>4. (r + t) % N = (a + b) % N
  BY <1>1, <1>3, CongIff
<1> QED BY <1>2, <1>4 DEF r, t

LEMMA CurvePoint ==
    ASSUME NEW pt \in OnCurve
    PROVE  /\ pt[1] \in 0..(P - 1) /\ pt[2] \in 0..(P - 1) /\ pt = <<pt[1], pt[2]>>
           /\ pt # Infinity /\ pt \in Group
           /\ Mod(pt[2] * pt[2]) = Mod(pt[1] * pt[1] * pt[1] + 7)
<1>1. pt \in (0..(P - 1)) \X (0..(P - 1))
      /\ Mod(pt[2] * pt[2]) = Mod(pt[1] * pt[1] * pt[1] + 7)
  BY Zenon DEF OnCurve
<1>2. pt[1] \in 0..(P - 1) /\ pt[2] \in 0..(P - 1) /\ pt = <<pt[1], pt[2]>>
  BY <1>1
<1>3. pt # Infinity
  BY <1>2 DEF Infinity
<1> QED BY <1>1, <1>2, <1>3 DEF Group

\* Points whose sum is infinity are each other's negation.
LEMMA SumIsInfinity ==
    ASSUME NEW a \in OnCurve, NEW b \in OnCurve, Plus(a, b) = Infinity
    PROVE  a = Neg(b)
<1>1. a # Infinity /\ b # Infinity
  BY CurvePoint
<1>2. ASSUME NEW s PROVE Chord(a, b, s) # Infinity
  BY DEF Chord, Infinity
<1>3. CASE a = b /\ a # Neg(b)
  <2>1. Plus(a, b) = Chord(a, b, Mod(3 * a[1] * a[1] * Inv(2 * a[2])))
    BY <1>1, <1>3, Zenon DEF Plus
  <2> QED BY <1>2, <2>1
<1>4. CASE a # b /\ a # Neg(b)
  <2>1. Plus(a, b) = Chord(a, b, Mod((b[2] - a[2]) * Inv(Mod(b[1] - a[1]))))
    BY <1>1, <1>4, Zenon DEF Plus
  <2> QED BY <1>2, <2>1
<1> QED BY <1>3, <1>4

LEMMA NegMultiple ==
    ASSUME NEW k \in 1..(N - 1)
    PROVE  /\ N - k \in 1..(N - 1)
           /\ Multiples[N - k] = Neg(Multiples[k])
           /\ Multiples[N - k][1] = Multiples[k][1]
           /\ Multiples[N - k][2] = Mod(P - Multiples[k][2])
<1>1. N - k \in 1..(N - 1) /\ k \in 0..(N - 1) /\ N - k \in 0..(N - 1)
  BY CurveNumbers
<1>2. Multiples[k] \in OnCurve /\ Multiples[N - k] \in OnCurve
  BY <1>1, MultiplesPoints
<1>3. Plus(Multiples[N - k], Multiples[k]) = Infinity
  <2>1. (N - k) + k = N /\ N % N = 0
    BY CurveNumbers
  <2>2. Plus(Multiples[N - k], Multiples[k]) = Multiples[((N - k) + k) % N]
    BY <1>1, GroupAssumption
  <2> QED BY <2>1, <2>2, GroupAssumption
<1>4. Multiples[N - k] = Neg(Multiples[k])
  BY <1>2, <1>3, SumIsInfinity
<1>5. Neg(Multiples[k]) = <<Multiples[k][1], Mod(P - Multiples[k][2])>>
  BY <1>2, CurvePoint DEF Neg
<1> QED BY <1>1, <1>4, <1>5

-----------------------------------------------------------------------------
(* A point at the third coordinate z.                                      *)

\* A number that is not a multiple of the prime has an inverse.
LEMMA FieldInverse ==
    ASSUME NEW a \in Int, ~Cong(P, a, 0)
    PROVE  Inv(a) \in 0..(P - 1) /\ Inv(a) \in Int /\ Cong(P, a * Inv(a), 1)
<1>p. P \in Nat \ {0} /\ Prime(P) /\ 1 \in 0..(P - 1) /\ 1 \in Int
  BY CurveNumbers
<1> DEFINE r == a % P
<1>1. r \in 0..(P - 1) /\ r \in Int /\ Cong(P, r, a) /\ Cong(P, a, r)
  BY <1>p, DivMod, CongMod
<1> HIDE DEF r
<1>2. r \in 1..(P - 1)
  BY <1>p, <1>1
<1>3. PICK b \in 0..(P - 1) : Cong(P, r * b, 1)
  BY <1>p, <1>2, PrimeInverse
<1>4. Cong(P, a * b, 1) /\ a * b \in Int
  <2>1. b \in Int
    BY <1>p
  <2>2. Cong(P, a * b, r * b) /\ a * b \in Int /\ r * b \in Int
    BY <1>p, <1>1, <2>1, CongScale, Ring
  <2> QED BY <1>p, <1>3, <2>2, CongTrans
<1>5. \A c \in 0..(P - 1) : Mod(a * c) = 1 <=> Cong(P, a * c, 1)
  <2> TAKE c \in 0..(P - 1)
  <2>1. c \in Int /\ a * c \in Int
    BY <1>p, Ring
  <2>2. 1 % P = 1
    BY <1>p, ModSmall
  <2> QED BY <1>p, <2>1, <2>2, CongIff DEF Mod
<1>6. Inv(a) \in 0..(P - 1) /\ Mod(a * Inv(a)) = 1
  <2>1. \E c \in 0..(P - 1) : Mod(a * c) = 1
    BY <1>4, <1>5
  <2> QED BY <2>1, Zenon DEF Inv
<1> QED BY <1>p, <1>5, <1>6

LEMMA ProductNotZero ==
    ASSUME NEW a \in Int, NEW b \in Int, ~Cong(P, a, 0), ~Cong(P, b, 0)
    PROVE  ~Cong(P, a * b, 0) /\ a * b \in Int
  BY CurveNumbers, PrimeProduct, Ring

LEMMA SmallNotZero ==
    ASSUME NEW a \in 1..(P - 1)
    PROVE  ~Cong(P, a, 0) /\ a \in Int
<1>1. a \in 0..(P - 1) /\ 0 \in 0..(P - 1) /\ P \in Nat \ {0}
  BY CurveNumbers
<1> QED BY <1>1, CongSmall

\* A number below the prime is its own remainder.
LEMMA ModFacts ==
    ASSUME NEW a \in Int
    PROVE  /\ Mod(a) \in 0..(P - 1) /\ Mod(a) \in Int
           /\ Cong(P, Mod(a), a) /\ Cong(P, a, Mod(a))
           /\ \A b \in Int : Mod(a) = Mod(b) <=> Cong(P, a, b)
           /\ a \in 0..(P - 1) => Mod(a) = a
<1>p. P \in Nat \ {0}
  BY CurveNumbers
<1>1. \A b \in Int : Mod(a) = Mod(b) <=> Cong(P, a, b)
  BY <1>p, CongIff DEF Mod
<1>2. /\ Mod(a) \in 0..(P - 1) /\ Mod(a) \in Int
      /\ Cong(P, Mod(a), a) /\ Cong(P, a, Mod(a))
  BY <1>p, DivMod, CongMod DEF Mod
<1>3. a \in 0..(P - 1) => Mod(a) = a
  BY <1>p, ModSmall DEF Mod
<1> QED BY <1>1, <1>2, <1>3

\* The coordinates of a point of the curve, at the third coordinate z.
LEMMA JacobianCoordinates ==
    ASSUME NEW pt \in OnCurve, NEW z \in 1..(P - 1)
    PROVE  /\ Jacobian(pt, z).X.v = Mod(pt[1] * z * z)
           /\ Jacobian(pt, z).Y.v = Mod(pt[2] * Mod(z * z * z))
           /\ Jacobian(pt, z).Z.v = z
<1>1. pt # Infinity
  BY CurvePoint
<1>2. Jacobian(pt, z) = Point(Mod(pt[1] * z * z), Mod(pt[2] * Mod(z * z * z)), z)
  BY <1>1 DEF Jacobian
<1> QED BY <1>2 DEF Point, Field

\* No point of the curve has two coordinates that are zero.
LEMMA JacobianSomewhere ==
    ASSUME NEW pt \in OnCurve, NEW z \in 1..(P - 1)
    PROVE  ~IsNowhere(Jacobian(pt, z))
<1> DEFINE x == pt[1]
           y == pt[2]
           zz == z * z
           zzz == z * z * z
           m == Mod(zzz)
<1>1. /\ x \in 0..(P - 1) /\ y \in 0..(P - 1) /\ x \in Int /\ y \in Int
      /\ Mod(y * y) = Mod(x * x * x + 7)
  BY CurvePoint
<1>2. ~Cong(P, z, 0) /\ z \in Int
  BY SmallNotZero
<1>3. ~Cong(P, zz, 0) /\ zz \in Int
  BY <1>2, ProductNotZero
<1>4. ~Cong(P, zzz, 0) /\ zzz \in Int
  BY <1>2, <1>3, ProductNotZero
<1>5. m \in Int /\ ~Cong(P, m, 0)
  BY <1>4, ModFacts, CurveNumbers, CongTrans
<1>6. x * z * z = x * zz
  BY <1>1, <1>2, Ring
<1> HIDE DEF x, y, zz, zzz, m
<1>7. ~(Mod(x * zz) = 0 /\ Mod(y * m) = 0)
  <2> SUFFICES ASSUME Mod(x * zz) = 0, Mod(y * m) = 0 PROVE FALSE
    OBVIOUS
  <2>1. Mod(0) = 0 /\ 0 \in Int /\ 0 \in 0..(P - 1)
    BY CurveNumbers, ModFacts
  <2>2. Cong(P, x * zz, 0) /\ Cong(P, y * m, 0)
    <3>1. x * zz \in Int /\ y * m \in Int
      BY <1>1, <1>3, <1>5, Ring
    <3> QED BY <2>1, <3>1, ModFacts
  <2>3. Cong(P, x, 0) /\ Cong(P, y, 0)
    BY <1>1, <1>3, <1>5, <2>2, CurveNumbers, PrimeProduct
  <2>4. x = 0 /\ y = 0
    BY <1>1, <2>1, <2>3, CurveNumbers, CongSmall
  <2>5. Mod(0) = Mod(7)
    BY <1>1, <2>4
  <2>6. 7 \in 0..(P - 1) /\ 7 \in Int
    BY CurveNumbers
  <2> QED BY <2>1, <2>5, <2>6, ModFacts
<1>8. Jacobian(pt, z).X.v = Mod(x * zz) /\ Jacobian(pt, z).Y.v = Mod(y * m)
      /\ Jacobian(pt, z).Z.v = z /\ z # 0
  BY <1>6, JacobianCoordinates DEF x, y, zz, zzz, m
<1> QED BY <1>7, <1>8 DEF IsNowhere

LEMMA JacobianNowhere ==
    ASSUME NEW z
    PROVE  IsNowhere(Jacobian(Infinity, z))
<1>1. Jacobian(Infinity, z) = Point(0, 0, 0)
  BY DEF Jacobian, Nowhere
<1> QED BY <1>1 DEF Point, Field, IsNowhere

\* Dividing by a factor undoes the product with it.
LEMMA UndoProduct ==
    ASSUME NEW a \in 0..(P - 1), NEW m \in Int, NEW n \in Int,
           ~Cong(P, n, 0), Cong(P, m, n)
    PROVE  Mod(Mod(a * m) * Inv(n)) = a
<1> DEFINE i == Inv(n)
           t == Mod(a * m)
<1>1. a \in Int /\ i \in Int /\ Cong(P, n * i, 1) /\ P \in Nat \ {0}
  BY FieldInverse, CurveNumbers
<1>2. a * m \in Int /\ a * n \in Int /\ m * i \in Int /\ n * i \in Int
  BY <1>1, Ring
<1>3. t \in Int /\ Cong(P, t, a * m)
  BY <1>2, ModFacts
<1> HIDE DEF i, t
<1>4. /\ (a * m) * i = a * (m * i)
      /\ t * i \in Int /\ (a * m) * i \in Int /\ 1 \in Int
  BY <1>1, <1>2, <1>3, Ring
<1>5. Cong(P, t * i, (a * m) * i)
  BY <1>1, <1>2, <1>3, CongScale
<1>6. Cong(P, m * i, 1)
  <2>1. Cong(P, m * i, n * i)
    BY <1>1, CongScale
  <2> QED BY <1>1, <1>2, <1>4, <2>1, CongTrans
<1>7. Cong(P, (m * i) * a, 1 * a) /\ (m * i) * a = a * (m * i) /\ 1 * a = a
  <2> DEFINE u == m * i
  <2> HIDE DEF u
  <2>1. u \in Int /\ Cong(P, u, 1)
    BY <1>2, <1>6 DEF u
  <2>2. Cong(P, u * a, 1 * a)
    BY <1>1, <1>4, <2>1, CongScale
  <2>3. u * a = a * u /\ 1 * a = a
    BY <1>1, <2>1, Ring
  <2> QED BY <2>2, <2>3 DEF u
<1>8. Cong(P, t * i, a)
  BY <1>1, <1>4, <1>5, <1>7, CongTrans
<1>9. Mod(t * i) = Mod(a) /\ Mod(a) = a
  BY <1>1, <1>4, <1>8, ModFacts
<1> QED BY <1>9 DEF i, t

\* The affine point is the one the coordinates were made from.
LEMMA AffineJacobian ==
    ASSUME NEW pt \in OnCurve, NEW z \in 1..(P - 1)
    PROVE  Affine(Jacobian(pt, z)) = pt
<1> DEFINE x == pt[1]
           y == pt[2]
           zz == z * z
           zzz == z * z * z
           m == Mod(zzz)
<1>1. /\ x \in 0..(P - 1) /\ y \in 0..(P - 1) /\ x \in Int /\ y \in Int
      /\ pt = <<x, y>>
  BY CurvePoint
<1>2. ~Cong(P, z, 0) /\ z \in Int
  BY SmallNotZero
<1>3. ~Cong(P, zz, 0) /\ zz \in Int
  BY <1>2, ProductNotZero
<1>4. ~Cong(P, zzz, 0) /\ zzz \in Int
  BY <1>2, <1>3, ProductNotZero
<1>5. m \in Int /\ Cong(P, m, zzz)
  BY <1>4, ModFacts
<1>6. x * z * z = x * zz
  BY <1>1, <1>2, Ring
<1>7. Jacobian(pt, z).X.v = Mod(x * zz) /\ Jacobian(pt, z).Y.v = Mod(y * m)
      /\ Jacobian(pt, z).Z.v = z
  BY <1>6, JacobianCoordinates
<1>8. Mod(zz) \in Int /\ Cong(P, zz, Mod(zz)) /\ ~Cong(P, Mod(zz), 0)
      /\ ~Cong(P, m, 0) /\ Cong(P, m, m) /\ m = Mod(zzz)
  BY <1>3, <1>4, <1>5, ModFacts, CurveNumbers, CongTrans, CongRefl
<1> HIDE DEF x, y, zz, zzz, m
<1>9. Mod(Mod(x * zz) * Inv(Mod(zz))) = x /\ Mod(Mod(y * m) * Inv(m)) = y
  BY <1>1, <1>3, <1>5, <1>8, UndoProduct
<1>10. Affine(Jacobian(pt, z)) = <<Mod(Mod(x * zz) * Inv(Mod(zz))),
                                   Mod(Mod(y * m) * Inv(m))>>
  BY <1>7, <1>8, JacobianSomewhere DEF Affine, zz, zzz
<1> QED BY <1>1, <1>9, <1>10

\* A set that holds 0 and with each number the next one holds all of them.
LEMMA UpTo ==
    ASSUME NEW n \in Nat, NEW S, S \subseteq 0..n, 0 \in S,
           \A i \in 0..(n - 1) : i \in S => i + 1 \in S
    PROVE  \A i \in 0..n : i \in S
<1> DEFINE T == {i \in 0..n : i \notin S}
<1> SUFFICES ASSUME T # {} PROVE FALSE
  OBVIOUS
<1>1. T \subseteq Nat
  OBVIOUS
<1>2. PICK g \in T : \A y \in T : ~(<<y, g>> \in OpToRel(<, Nat))
  BY <1>1, NatLessThanWellFounded, WFMin
<1>3. g \in 0..n /\ g \notin S
  OBVIOUS
<1>4. g # 0 /\ g - 1 \in 0..(n - 1) /\ g - 1 \in 0..n /\ g - 1 \in Nat /\ g \in Nat
      /\ g - 1 < g /\ (g - 1) + 1 = g
  BY <1>3
<1>5. g - 1 \notin S
  BY <1>3, <1>4
<1>6. g - 1 \in T
  BY <1>4, <1>5
<1>7. <<g - 1, g>> \in OpToRel(<, Nat)
  BY <1>4, Zenon DEF OpToRel
<1> QED BY <1>2, <1>6, <1>7, Zenon

-----------------------------------------------------------------------------
(* Programs on registers.                                                  *)

State == [Registers -> FE]

\* What an instruction leaves: the states after it are states, and no register
\* but that of the result has changed.
Leaves(s, ins, name, to, t) ==
    /\ t = Step(s, ins, name) /\ t \in State
    /\ \A x \in Registers : x # to => t[x] = s[x]

\* e stands for the number n, with the magnitude m, and no precondition has
\* been violated on the way to it.
Is(e, n, m) == e \in FE /\ e.ok = TRUE /\ e.mag = m /\ Cong(P, e.v, n)

LEMMA StepLeaves ==
    ASSUME NEW s \in State, NEW ins, NEW name, NEW to \in Registers,
           Called(ins.dst, name) = to,
           NEW e \in FE, e = Result(s[Called(ins.a, name)], s[Called(ins.b, name)], ins)
    PROVE  Leaves(s, ins, name, to, Step(s, ins, name)) /\ Step(s, ins, name)[to] = e
<1>1. Step(s, ins, name) = [s EXCEPT ![to] = e]
  BY DEF Step
<1>2. [s EXCEPT ![to] = e] \in State /\ [s EXCEPT ![to] = e][to] = e
      /\ \A x \in Registers : x # to => [s EXCEPT ![to] = e][x] = s[x]
  BY DEF State
<1> QED BY <1>1, <1>2, Zenon DEF Leaves

LEMMA AddStep ==
    ASSUME NEW s \in State, NEW name, NEW dst, NEW a, NEW b, b # "zero",
           NEW to \in Registers, Called(dst, name) = to,
           NEW m \in Nat, NEW k \in Nat, m + k <= MaxMagnitude, NEW u \in Int, NEW v \in Int,
           Is(s[Called(a, name)], u, m), Is(s[Called(b, name)], v, k),
           NEW l \in Nat, l = m + k
    PROVE  /\ Leaves(s, Add2(dst, a, b), name, to, Step(s, Add2(dst, a, b), name))
           /\ Is(Step(s, Add2(dst, a, b), name)[to], u + v, l)
<1> DEFINE x == s[Called(a, name)]
           y == s[Called(b, name)]
           w == Mod(x.v + y.v)
           e == [v |-> w, mag |-> m + k, norm |-> FALSE, ok |-> TRUE]
<1>1. /\ x \in FE /\ x.ok = TRUE /\ x.mag = m /\ Cong(P, x.v, u)
      /\ y \in FE /\ y.ok = TRUE /\ y.mag = k /\ Cong(P, y.v, v)
  BY DEF Is
<1> HIDE DEF x, y
<1>2. P \in Nat \ {0} /\ x.v \in Int /\ y.v \in Int
  BY <1>1, CurveNumbers DEF FE
<1>3. w \in 0..(P - 1) /\ Cong(P, w, u + v)
  <2>1. x.v + y.v \in Int /\ u + v \in Int
    BY <1>2
  <2>2. Cong(P, x.v + y.v, u + v)
    BY <1>1, <1>2, CongPlus
  <2>3. w \in Int /\ w \in 0..(P - 1) /\ Cong(P, w, x.v + y.v)
    BY <2>1, ModFacts
  <2> QED BY <1>2, <2>1, <2>2, <2>3, CongTrans
<1>4. Result(x, y, Add2(dst, a, b)) =
          [v |-> w, mag |-> Cap(m + k), norm |-> FALSE,
           ok |-> TRUE /\ TRUE /\ m + k <= MaxMagnitude]
  BY <1>1 DEF Result, Add2, I
<1>5. Cap(m + k) = m + k /\ (m + k <= MaxMagnitude) = TRUE
  BY DEF Cap, MaxMagnitude
<1> HIDE DEF w
<1>6. Result(x, y, Add2(dst, a, b)) = e
  BY <1>4, <1>5
<1>7. e \in FE /\ Is(e, u + v, m + k)
  BY <1>3 DEF FE, MaxMagnitude, Is
<1> HIDE DEF e
<1>8. Add2(dst, a, b).dst = dst /\ Add2(dst, a, b).a = a /\ Add2(dst, a, b).b = b
  BY DEF Add2, I
<1>9. e = Result(s[Called(Add2(dst, a, b).a, name)], s[Called(Add2(dst, a, b).b, name)],
                 Add2(dst, a, b))
  BY <1>6, <1>8 DEF x, y
<1>10. Called(Add2(dst, a, b).dst, name) = to
  BY <1>8
<1>11. /\ Leaves(s, Add2(dst, a, b), name, to, Step(s, Add2(dst, a, b), name))
       /\ Step(s, Add2(dst, a, b), name)[to] = e
  BY <1>7, <1>9, <1>10, StepLeaves
<1> QED BY <1>7, <1>11

LEMMA SetStep ==
    ASSUME NEW s \in State, NEW name, NEW dst, NEW a,
           NEW to \in Registers, Called(dst, name) = to,
           NEW m \in Nat, NEW u \in Int, Is(s[Called(a, name)], u, m)
    PROVE  /\ Leaves(s, Set(dst, a), name, to, Step(s, Set(dst, a), name))
           /\ Is(Step(s, Set(dst, a), name)[to], u, m)
<1> DEFINE e == s[Called(a, name)]
<1>1. e \in FE /\ Is(e, u, m)
  BY DEF Is
<1>2. Set(dst, a).dst = dst /\ Set(dst, a).a = a /\ Set(dst, a).b = "zero"
      /\ Set(dst, a).op = "add2"
  BY DEF Set, I
<1>3. e = Result(s[Called(Set(dst, a).a, name)], s[Called(Set(dst, a).b, name)], Set(dst, a))
  BY <1>2 DEF Result
<1>4. Called(Set(dst, a).dst, name) = to
  BY <1>2
<1> HIDE DEF e
<1>5. /\ Leaves(s, Set(dst, a), name, to, Step(s, Set(dst, a), name))
      /\ Step(s, Set(dst, a), name)[to] = e
  BY <1>1, <1>3, <1>4, StepLeaves
<1> QED BY <1>1, <1>5

LEMMA NegateStep ==
    ASSUME NEW s \in State, NEW name, NEW dst, NEW a, NEW k \in 0..(MaxMagnitude - 1),
           NEW to \in Registers, Called(dst, name) = to,
           NEW m \in Nat, m <= k, NEW u \in Int, Is(s[Called(a, name)], u, m),
           NEW l \in Nat, l = k + 1
    PROVE  /\ Leaves(s, NegateOf(dst, a, k), name, to, Step(s, NegateOf(dst, a, k), name))
           /\ Is(Step(s, NegateOf(dst, a, k), name)[to], -u, l)
<1> DEFINE x == s[Called(a, name)]
           y == s[Called(k, name)]
           w == Mod(P - x.v)
           e == [v |-> w, mag |-> k + 1, norm |-> FALSE, ok |-> TRUE]
<1>1. x \in FE /\ x.ok = TRUE /\ x.mag = m /\ Cong(P, x.v, u)
  BY DEF Is
<1> HIDE DEF x, y
<1>2. P \in Nat \ {0} /\ x.v \in Int
  BY <1>1, CurveNumbers DEF FE
<1>3. w \in 0..(P - 1) /\ Cong(P, w, -u)
  <2>1. P - x.v \in Int /\ -u \in Int
    BY <1>2
  <2>2. Cong(P, P - x.v, -u)
    BY <1>1, <1>2, CongNeg
  <2>3. w \in Int /\ w \in 0..(P - 1) /\ Cong(P, w, P - x.v)
    BY <2>1, ModFacts
  <2> QED BY <1>2, <2>1, <2>2, <2>3, CongTrans
<1>4. Result(x, y, NegateOf(dst, a, k)) =
          [v |-> w, mag |-> k + 1, norm |-> FALSE, ok |-> TRUE /\ m <= k /\ k < MaxMagnitude]
  BY <1>1 DEF Result, NegateOf, I
<1>5. (m <= k) = TRUE /\ (k < MaxMagnitude) = TRUE /\ k \in Nat
  BY DEF MaxMagnitude
<1> HIDE DEF w
<1>6. Result(x, y, NegateOf(dst, a, k)) = e
  BY <1>4, <1>5
<1>7. e \in FE /\ Is(e, -u, k + 1)
  BY <1>3, <1>5 DEF FE, MaxMagnitude, Is
<1> HIDE DEF e
<1>8. /\ NegateOf(dst, a, k).dst = dst /\ NegateOf(dst, a, k).a = a
      /\ NegateOf(dst, a, k).b = k
  BY DEF NegateOf, I
<1>9. e = Result(s[Called(NegateOf(dst, a, k).a, name)], s[Called(NegateOf(dst, a, k).b, name)],
                 NegateOf(dst, a, k))
  BY <1>6, <1>8 DEF x, y
<1>10. Called(NegateOf(dst, a, k).dst, name) = to
  BY <1>8
<1>11. /\ Leaves(s, NegateOf(dst, a, k), name, to, Step(s, NegateOf(dst, a, k), name))
       /\ Step(s, NegateOf(dst, a, k), name)[to] = e
  BY <1>7, <1>9, <1>10, StepLeaves
<1> QED BY <1>7, <1>11

LEMMA IntStep ==
    ASSUME NEW s \in State, NEW name, NEW dst, NEW k \in Nat,
           NEW to \in Registers, Called(dst, name) = to,
           NEW m \in Nat, m * k <= MaxMagnitude, NEW u \in Int, Is(s[to], u, m),
           NEW l \in Nat, l = m * k
    PROVE  /\ Leaves(s, MulInt(dst, k), name, to, Step(s, MulInt(dst, k), name))
           /\ Is(Step(s, MulInt(dst, k), name)[to], u * k, l)
<1> DEFINE x == s[to]
           y == s[Called(k, name)]
           w == Mod(x.v * k)
           mk == m * k
           e == [v |-> w, mag |-> mk, norm |-> FALSE, ok |-> TRUE]
<1>1. x \in FE /\ x.ok = TRUE /\ x.mag = m /\ Cong(P, x.v, u)
  BY DEF Is
<1> HIDE DEF x, y
<1>2. P \in Nat \ {0} /\ x.v \in Int /\ k \in Int
  BY <1>1, CurveNumbers DEF FE
<1>3. w \in 0..(P - 1) /\ Cong(P, w, u * k)
  <2>1. x.v * k \in Int /\ u * k \in Int
    BY <1>2, Ring
  <2>2. Cong(P, x.v * k, u * k)
    BY <1>1, <1>2, CongScale
  <2>3. w \in Int /\ w \in 0..(P - 1) /\ Cong(P, w, x.v * k)
    BY <2>1, ModFacts
  <2> QED BY <1>2, <2>1, <2>2, <2>3, CongTrans
<1>4. Result(x, y, MulInt(dst, k)) =
          [v |-> w, mag |-> Cap(mk), norm |-> FALSE, ok |-> TRUE /\ mk <= MaxMagnitude]
  BY <1>1 DEF Result, MulInt, I
<1>5. mk \in Nat /\ mk <= MaxMagnitude
  OBVIOUS
<1> HIDE DEF w, mk
<1>6. Cap(mk) = mk /\ (mk <= MaxMagnitude) = TRUE
  BY <1>5 DEF Cap, MaxMagnitude
<1>7. Result(x, y, MulInt(dst, k)) = e
  BY <1>4, <1>6
<1>8. e \in FE /\ Is(e, u * k, mk)
  BY <1>3, <1>5 DEF FE, MaxMagnitude, Is
<1> HIDE DEF e
<1>9. MulInt(dst, k).dst = dst /\ MulInt(dst, k).a = dst /\ MulInt(dst, k).b = k
  BY DEF MulInt, I
<1>10. e = Result(s[Called(MulInt(dst, k).a, name)], s[Called(MulInt(dst, k).b, name)],
                 MulInt(dst, k))
  BY <1>7, <1>9 DEF x, y
<1>11. Called(MulInt(dst, k).dst, name) = to
  BY <1>9
<1>12. /\ Leaves(s, MulInt(dst, k), name, to, Step(s, MulInt(dst, k), name))
       /\ Step(s, MulInt(dst, k), name)[to] = e
  BY <1>8, <1>10, <1>11, StepLeaves
<1> QED BY <1>8, <1>12 DEF mk

LEMMA MulStep ==
    ASSUME NEW s \in State, NEW name, NEW dst, NEW a, NEW b,
           NEW to \in Registers, Called(dst, name) = to,
           NEW m \in Nat, NEW k \in Nat, m <= MulMax, k <= MulMax, NEW u \in Int, NEW v \in Int,
           Is(s[Called(a, name)], u, m), Is(s[Called(b, name)], v, k)
    PROVE  /\ Leaves(s, Mul2(dst, a, b), name, to, Step(s, Mul2(dst, a, b), name))
           /\ Is(Step(s, Mul2(dst, a, b), name)[to], u * v, 1)
<1> DEFINE x == s[Called(a, name)]
           y == s[Called(b, name)]
           w == Mod(x.v * y.v)
           e == [v |-> w, mag |-> 1, norm |-> FALSE, ok |-> TRUE]
<1>1. /\ x \in FE /\ x.ok = TRUE /\ x.mag = m /\ Cong(P, x.v, u)
      /\ y \in FE /\ y.ok = TRUE /\ y.mag = k /\ Cong(P, y.v, v)
  BY DEF Is
<1> HIDE DEF x, y
<1>2. P \in Nat \ {0} /\ x.v \in Int /\ y.v \in Int
  BY <1>1, CurveNumbers DEF FE
<1>3. w \in 0..(P - 1) /\ Cong(P, w, u * v)
  <2>1. x.v * y.v \in Int /\ u * v \in Int
    BY <1>2, Ring
  <2>2. Cong(P, x.v * y.v, u * v)
    BY <1>1, <1>2, CongTimes
  <2>3. w \in Int /\ w \in 0..(P - 1) /\ Cong(P, w, x.v * y.v)
    BY <2>1, ModFacts
  <2> QED BY <1>2, <2>1, <2>2, <2>3, CongTrans
<1>4. Result(x, y, Mul2(dst, a, b)) =
          [v |-> w, mag |-> 1, norm |-> FALSE,
           ok |-> TRUE /\ TRUE /\ m <= MulMax /\ k <= MulMax]
  BY <1>1 DEF Result, Mul2, I
<1>5. (m <= MulMax) = TRUE /\ (k <= MulMax) = TRUE
  OBVIOUS
<1> HIDE DEF w
<1>6. Result(x, y, Mul2(dst, a, b)) = e
  BY <1>4, <1>5
<1>7. e \in FE /\ Is(e, u * v, 1)
  BY <1>3 DEF FE, MaxMagnitude, Is
<1> HIDE DEF e
<1>8. Mul2(dst, a, b).dst = dst /\ Mul2(dst, a, b).a = a /\ Mul2(dst, a, b).b = b
  BY DEF Mul2, I
<1>9. e = Result(s[Called(Mul2(dst, a, b).a, name)], s[Called(Mul2(dst, a, b).b, name)],
                 Mul2(dst, a, b))
  BY <1>6, <1>8 DEF x, y
<1>10. Called(Mul2(dst, a, b).dst, name) = to
  BY <1>8
<1>11. /\ Leaves(s, Mul2(dst, a, b), name, to, Step(s, Mul2(dst, a, b), name))
       /\ Step(s, Mul2(dst, a, b), name)[to] = e
  BY <1>7, <1>9, <1>10, StepLeaves
<1> QED BY <1>7, <1>11

LEMMA NormalizeStep ==
    ASSUME NEW s \in State, NEW name, NEW dst, NEW to \in Registers, Called(dst, name) = to,
           NEW m \in Nat, NEW u \in Int, Is(s[to], u, m)
    PROVE  /\ Leaves(s, Normalize(dst), name, to, Step(s, Normalize(dst), name))
           /\ Is(Step(s, Normalize(dst), name)[to], u, 1)
           /\ Step(s, Normalize(dst), name)[to].norm = TRUE
<1> DEFINE x == s[to]
           e == [v |-> x.v, mag |-> 1, norm |-> TRUE, ok |-> x.ok]
<1>1. x \in FE /\ x.ok = TRUE /\ Cong(P, x.v, u)
  BY DEF Is
<1> HIDE DEF x
<1>2. e \in FE /\ e.ok = TRUE /\ e.mag = 1 /\ e.v = x.v /\ e.norm = TRUE
  <2>1. x.v \in 0..(P - 1) /\ x.ok \in BOOLEAN
    BY <1>1 DEF FE
  <2> QED BY <1>1, <2>1 DEF FE, MaxMagnitude
<1>3. Is(e, u, 1)
  BY <1>1, <1>2 DEF Is
<1>4. Result(x, x, Normalize(dst)) = e
  BY DEF Result, Normalize, I
<1> HIDE DEF e
<1>5. Normalize(dst).dst = dst /\ Normalize(dst).a = dst /\ Normalize(dst).b = dst
  BY DEF Normalize, I
<1>6. e = Result(s[Called(Normalize(dst).a, name)], s[Called(Normalize(dst).b, name)],
                 Normalize(dst))
  BY <1>4, <1>5 DEF x
<1>7. Called(Normalize(dst).dst, name) = to
  BY <1>5
<1>8. /\ Leaves(s, Normalize(dst), name, to, Step(s, Normalize(dst), name))
      /\ Step(s, Normalize(dst), name)[to] = e
  BY <1>2, <1>6, <1>7, StepLeaves
<1> QED BY <1>2, <1>3, <1>8

\* The states st a program goes through, one more than it has instructions.
States(prog, g, name, n, st) ==
    /\ DOMAIN st = 0..n /\ st[0] = g
    /\ \A k \in 1..n : st[k] = Step(st[k - 1], prog[k], name)

LEMMA StatesExist ==
    ASSUME NEW n \in Nat, NEW prog, NEW g, NEW name
    PROVE  \E st : States(prog, g, name, n, st)
<1> DEFINE S == {m \in 0..n : \E st : States(prog, g, name, m, st)}
<1>1. 0 \in S
  <2> DEFINE st == [i \in 0..0 |-> g]
  <2>1. States(prog, g, name, 0, st)
    BY DEF States
  <2> HIDE DEF st
  <2>2. \E h : States(prog, g, name, 0, h)
    BY <2>1, Zenon
  <2>3. 0 \in 0..n
    OBVIOUS
  <2> QED BY <2>2, <2>3
<1>2. ASSUME NEW m \in 0..(n - 1), m \in S PROVE m + 1 \in S
  <2>1. PICK st : States(prog, g, name, m, st)
    BY <1>2
  <2>2. DOMAIN st = 0..m /\ st[0] = g /\ \A k \in 1..m : st[k] = Step(st[k - 1], prog[k], name)
    BY <2>1 DEF States
  <2> DEFINE last == Step(st[m], prog[m + 1], name)
             h == [i \in 0..(m + 1) |-> IF i = m + 1 THEN last ELSE st[i]]
  <2>3. last = Step(st[m], prog[m + 1], name)
    OBVIOUS
  <2> HIDE DEF last
  <2>4. DOMAIN h = 0..(m + 1) /\ h[0] = g
    BY <2>2
  <2>5. ASSUME NEW i \in 1..(m + 1) PROVE h[i] = Step(h[i - 1], prog[i], name)
    <3>1. CASE i = m + 1
      <4>1. h[i] = last /\ h[i - 1] = st[m]
        BY <3>1
      <4> HIDE DEF h
      <4> QED BY <2>3, <3>1, <4>1, Zenon
    <3>2. CASE i # m + 1
      <4>1. h[i] = st[i] /\ h[i - 1] = st[i - 1] /\ i \in 1..m
        BY <3>2
      <4> HIDE DEF h
      <4> QED BY <2>2, <4>1, Zenon
    <3> QED BY <3>1, <3>2
  <2> HIDE DEF h
  <2>6. \E f : States(prog, g, name, m + 1, f)
    BY <2>4, <2>5, Zenon DEF States
  <2>7. m + 1 \in 0..n
    OBVIOUS
  <2> QED BY <2>6, <2>7
<1>3. n \in S
  <2>1. S \subseteq 0..n /\ n \in 0..n
    OBVIOUS
  <2> HIDE DEF S
  <2>2. \A m \in 0..n : m \in S
    BY <1>1, <1>2, <2>1, UpTo
  <2> QED BY <2>1, <2>2
<1> QED BY <1>3

\* A program ends in the last of them.
LEMMA RunIs ==
    ASSUME NEW prog, Len(prog) \in Nat, NEW g, NEW name
    PROVE  \E st : States(prog, g, name, Len(prog), st) /\ Run(prog, g, name) = st[Len(prog)]
<1> DEFINE n == Len(prog)
           Does(f) == f = [i \in 0..n |-> IF i = 0 THEN g ELSE Step(f[i - 1], prog[i], name)]
           run == CHOOSE f : Does(f)
<1> HIDE DEF n
<1>0. n \in Nat
  BY DEF n
<1>1. PICK st : States(prog, g, name, n, st)
  BY <1>0, StatesExist
<1>2. DOMAIN st = 0..n /\ st[0] = g /\ \A k \in 1..n : st[k] = Step(st[k - 1], prog[k], name)
  BY <1>1 DEF States
<1>3. Does([i \in 0..n |-> st[i]])
  <2> DEFINE h == [i \in 0..n |-> st[i]]
             f == [i \in 0..n |-> IF i = 0 THEN g ELSE Step(h[i - 1], prog[i], name)]
  <2>1. \A i \in 0..n : h[i] = f[i]
    <3> TAKE i \in 0..n
    <3>1. CASE i = 0
      BY <1>0, <1>2, <3>1
    <3>2. CASE i # 0
      <4>1. h[i] = st[i] /\ f[i] = Step(h[i - 1], prog[i], name) /\ h[i - 1] = st[i - 1]
            /\ i \in 1..n
        BY <1>0, <3>2
      <4> HIDE DEF h, f
      <4> QED BY <1>2, <4>1, Zenon
    <3> QED BY <3>1, <3>2
  <2>2. h = [i \in 0..n |-> h[i]] /\ f = [i \in 0..n |-> f[i]]
    OBVIOUS
  <2>3. h = f
    <3> HIDE DEF h, f
    <3> QED BY <2>1, <2>2
  <2> QED BY <2>3
<1>4. Does(run)
  <2> HIDE DEF Does
  <2> QED BY <1>3, Zenon
<1>5. DOMAIN run = 0..n /\ \A i \in 0..n :
          run[i] = IF i = 0 THEN g ELSE Step(run[i - 1], prog[i], name)
  <2> HIDE DEF run
  <2> QED BY <1>4
<1>6. Run(prog, g, name) = run[n]
  BY DEF Run, n
<1> HIDE DEF run, Does
<1>7. States(prog, g, name, n, run)
  <2>1. run[0] = g
    BY <1>0, <1>5
  <2>2. ASSUME NEW k \in 1..n PROVE run[k] = Step(run[k - 1], prog[k], name)
    <3>1. k \in 0..n /\ k # 0
      OBVIOUS
    <3> QED BY <1>5, <3>1
  <2> QED BY <1>5, <2>1, <2>2, Zenon DEF States
<1> QED BY <1>6, <1>7 DEF n

\* Where the result is stored, and that no other register moves.
Ways == {"none", "p1", "p2"}
Plain == Registers \ {"x3", "y3", "z3"}
LEMMA CalledIs ==
    ASSUME NEW which \in Ways
    PROVE  /\ Called("x3", Alias(which)) \in {"x3", "x1", "x2"}
           /\ Called("y3", Alias(which)) \in {"y3", "y1", "y2"}
           /\ Called("z3", Alias(which)) \in {"z3", "z1", "z2"}
           /\ \A x \in Plain : Called(x, Alias(which)) = x
<1>1. CASE which = "none"
  <2>1. Alias(which) = <<>>
    BY <1>1 DEF Alias
  <2>2. \A x : x \notin DOMAIN Alias(which) \/ x \in 1..0
    BY <2>1
  <2>3. \A x : Called(x, Alias(which)) = x
    BY <2>2 DEF Called
  <2> QED BY <2>3
<1>2. CASE which = "p1"
  <2>1. Alias(which) = [x3 |-> "x1", y3 |-> "y1", z3 |-> "z1"]
    BY <1>2 DEF Alias
  <2> QED BY <2>1 DEF Called, Plain
<1>3. CASE which = "p2"
  <2>1. Alias(which) = [x3 |-> "x2", y3 |-> "y2", z3 |-> "z2"]
    BY <1>3 DEF Alias
  <2> QED BY <2>1 DEF Called, Plain
<1> QED BY <1>1, <1>2, <1>3 DEF Ways

LEMMA CalledPlain == \A x : Called(x, <<>>) = x
<1> TAKE x
<1>1. x \notin DOMAIN <<>> \/ x \in 1..0
  OBVIOUS
<1> QED BY <1>1 DEF Called

LEMMA IsCong ==
    ASSUME NEW e, NEW n \in Int, NEW m, NEW k \in Int, Is(e, n, m), Cong(P, n, k)
    PROVE  Is(e, k, m)
<1>1. P \in Nat \ {0} /\ e.v \in Int
  BY CurveNumbers DEF Is, FE
<1> QED BY <1>1, CongTrans DEF Is

\* p is normalized, no precondition has been violated on the way to it, and its
\* coordinates stand for x, y and z.
Gives(p, x, y, z) ==
    /\ p = [X |-> p.X, Y |-> p.Y, Z |-> p.Z]
    /\ Is(p.X, x, 1) /\ p.X.norm = TRUE
    /\ Is(p.Y, y, 1) /\ p.Y.norm = TRUE
    /\ Is(p.Z, z, 1) /\ p.Z.norm = TRUE

\* The coordinates that the sums compute: of u and q, those of a point, and h
\* and k, how far those of the other are from them.
SumX(u, h, k) == k * k - h * (h * h) - 2 * (u * (h * h))
SumY(u, q, h, k) == k * (u * (h * h) - SumX(u, h, k)) - q * (h * (h * h))

LEMMA AddOnesGives ==
    ASSUME NEW g \in State, NEW which \in Ways, NEW x1 \in Int, NEW y1 \in Int, NEW x2 \in Int,
           NEW y2 \in Int,
           Is(g["x1"], x1, 1), Is(g["y1"], y1, 1), Is(g["x2"], x2, 1), Is(g["y2"], y2, 1)
    PROVE  LET t == Run(AddOnes, g, Alias(which))
           IN  /\ t \in State
               /\ Is(t[Called("x3", Alias(which))], 4 * SumX(x1, x2 - x1, y2 - y1), 6)
               /\ Is(t[Called("y3", Alias(which))], 8 * SumY(x1, y1, x2 - x1, y2 - y1), 4)
               /\ Is(t[Called("z3", Alias(which))], 2 * (x2 - x1), 6)
<1> DEFINE h == x2 - x1
           hh == h * h
           i == 4 * hh
           j == h * i
           r == 2 * (y2 - y1)
           v == x1 * i
           rr == r * r
           x3 == rr - j - 2 * v
           jy == j * y1
           vx == (v - x3) * r
           y3 == vx - 2 * jy
           z3 == 2 * h
           nx1 == -x1
           ny1 == -y1
           nj == -j
           nt2 == -(v * 2)
           nx3 == -x3
           njx == -(jy * 2)
<1>i. /\ h \in Int /\ hh \in Int /\ i \in Int /\ j \in Int /\ r \in Int /\ v \in Int
      /\ rr \in Int /\ x3 \in Int /\ jy \in Int /\ vx \in Int /\ y3 \in Int /\ z3 \in Int
      /\ nx1 \in Int /\ ny1 \in Int /\ nj \in Int /\ nt2 \in Int /\ nx3 \in Int
      /\ njx \in Int
  OBVIOUS
<1> HIDE DEF h, hh, i, j, r, v, rr, x3, jy, vx, y3, z3, nx1, ny1, nj, nt2, nx3, njx
<1> DEFINE nm == Alias(which)
           X == Called("x3", nm)
           Y == Called("y3", nm)
           Z == Called("z3", nm)
<1>m. /\ X \in {"x3", "x1", "x2"} /\ Y \in {"y3", "y1", "y2"} /\ Z \in {"z3", "z1", "z2"}
  BY CalledIs
<1>n. /\ Called("x3", nm) = X /\ Called("y3", nm) = Y /\ Called("z3", nm) = Z
      /\ Called("h", nm) = "h" /\ Called("x1", nm) = "x1" /\ Called("x2", nm) = "x2"
      /\ Called("i", nm) = "i" /\ Called("j", nm) = "j" /\ Called("r", nm) = "r"
      /\ Called("y1", nm) = "y1" /\ Called("y2", nm) = "y2" /\ Called("v", nm) = "v"
      /\ Called("t1", nm) = "t1" /\ Called("t2", nm) = "t2" /\ Called("t3", nm) = "t3"
  BY CalledIs DEF Registers, Plain
<1>r. /\ "h" \in Registers /\ "x1" \in Registers /\ "x2" \in Registers /\ "i" \in Registers
      /\ "j" \in Registers /\ "r" \in Registers /\ "y1" \in Registers /\ "y2" \in Registers
      /\ "v" \in Registers /\ "t1" \in Registers /\ "t2" \in Registers /\ "t3" \in Registers
      /\ X \in Registers /\ Y \in Registers /\ Z \in Registers
  BY <1>m DEF Registers
<1> HIDE DEF nm, X, Y, Z
<1>p. PICK st : States(AddOnes, g, nm, 27, st) /\ Run(AddOnes, g, nm) = st[27]
  <2>1. Len(AddOnes) = 27 /\ Len(AddOnes) \in Nat
    BY DEF AddOnes
  <2> QED BY <2>1, RunIs
<1>q. st[0] = g /\ \A k \in 1..27 : st[k] = Step(st[k - 1], AddOnes[k], nm)
  BY <1>p DEF States
<1>0. /\ st[0] \in State /\ Is(st[0]["x1"], x1, 1) /\ Is(st[0]["x2"], x2, 1)
      /\ Is(st[0]["y1"], y1, 1) /\ Is(st[0]["y2"], y2, 1)
  BY <1>q
<1>1. /\ st[1] \in State /\ Is(st[1]["h"], nx1, 2) /\ Is(st[1]["x1"], x1, 1)
      /\ Is(st[1]["x2"], x2, 1) /\ Is(st[1]["y1"], y1, 1) /\ Is(st[1]["y2"], y2, 1)
  <2>1. st[1] = Step(st[0], NegateOf("h", "x1", 1), nm)
    BY <1>q DEF AddOnes, NegateOf
  <2>3. /\ Leaves(st[0], NegateOf("h", "x1", 1), nm, "h", st[1])
        /\ Is(st[1]["h"], -x1, 2)
    BY <1>0, <1>n, <1>r, <2>1, <1>i, NegateStep, SMTT(30) DEF MaxMagnitude
  <2>4. -x1 = nx1
    BY <1>i DEF nx1
  <2> QED BY <1>0, <1>m, <1>r, <2>3, <2>4 DEF Leaves
<1>2. /\ st[2] \in State /\ Is(st[2]["h"], h, 3) /\ Is(st[2]["x1"], x1, 1)
      /\ Is(st[2]["y1"], y1, 1) /\ Is(st[2]["y2"], y2, 1)
  <2>1. st[2] = Step(st[1], Add2("h", "h", "x2"), nm)
    BY <1>q DEF AddOnes, Add, Add2
  <2>3. /\ Leaves(st[1], Add2("h", "h", "x2"), nm, "h", st[2])
        /\ Is(st[2]["h"], nx1 + x2, 3)
    BY <1>1, <1>n, <1>r, <2>1, <1>i, AddStep, SMTT(30) DEF MaxMagnitude
  <2>4. nx1 + x2 = h
    BY <1>i DEF h, nx1
  <2> QED BY <1>1, <1>m, <1>r, <2>3, <2>4 DEF Leaves
<1>3. /\ st[3] \in State /\ Is(st[3]["h"], h, 3) /\ Is(st[3]["x1"], x1, 1)
      /\ Is(st[3]["i"], hh, 1) /\ Is(st[3]["y1"], y1, 1) /\ Is(st[3]["y2"], y2, 1)
  <2>1. st[3] = Step(st[2], Mul2("i", "h", "h"), nm)
    BY <1>q DEF AddOnes, SquareVal, Mul2
  <2>3. /\ Leaves(st[2], Mul2("i", "h", "h"), nm, "i", st[3])
        /\ Is(st[3]["i"], h * h, 1)
    BY <1>2, <1>n, <1>r, <2>1, <1>i, MulStep, SMTT(30) DEF MulMax
  <2>4. h * h = hh
    BY <1>i DEF hh
  <2> QED BY <1>2, <1>m, <1>r, <2>3, <2>4 DEF Leaves
<1>4. /\ st[4] \in State /\ Is(st[4]["h"], h, 3) /\ Is(st[4]["x1"], x1, 1)
      /\ Is(st[4]["i"], i, 4) /\ Is(st[4]["y1"], y1, 1) /\ Is(st[4]["y2"], y2, 1)
  <2>1. st[4] = Step(st[3], MulInt("i", 4), nm)
    BY <1>q DEF AddOnes, MulInt
  <2>3. /\ Leaves(st[3], MulInt("i", 4), nm, "i", st[4])
        /\ Is(st[4]["i"], hh * 4, 4)
    BY <1>3, <1>n, <1>r, <2>1, <1>i, IntStep DEF MaxMagnitude
  <2>4. hh * 4 = i
    BY <1>i DEF i
  <2> QED BY <1>3, <1>m, <1>r, <2>3, <2>4 DEF Leaves
<1>5. /\ st[5] \in State /\ Is(st[5]["h"], h, 3) /\ Is(st[5]["x1"], x1, 1)
      /\ Is(st[5]["i"], i, 4) /\ Is(st[5]["j"], j, 1) /\ Is(st[5]["y1"], y1, 1)
      /\ Is(st[5]["y2"], y2, 1)
  <2>1. st[5] = Step(st[4], Mul2("j", "h", "i"), nm)
    BY <1>q DEF AddOnes, Mul2
  <2>3. /\ Leaves(st[4], Mul2("j", "h", "i"), nm, "j", st[5])
        /\ Is(st[5]["j"], h * i, 1)
    BY <1>4, <1>n, <1>r, <2>1, <1>i, MulStep, SMTT(30) DEF MulMax
  <2>4. h * i = j
    BY <1>i DEF j
  <2> QED BY <1>4, <1>m, <1>r, <2>3, <2>4 DEF Leaves
<1>6. /\ st[6] \in State /\ Is(st[6]["h"], h, 3) /\ Is(st[6]["x1"], x1, 1)
      /\ Is(st[6]["i"], i, 4) /\ Is(st[6]["j"], j, 1) /\ Is(st[6]["r"], ny1, 2)
      /\ Is(st[6]["y1"], y1, 1) /\ Is(st[6]["y2"], y2, 1)
  <2>1. st[6] = Step(st[5], NegateOf("r", "y1", 1), nm)
    BY <1>q DEF AddOnes, NegateOf
  <2>3. /\ Leaves(st[5], NegateOf("r", "y1", 1), nm, "r", st[6])
        /\ Is(st[6]["r"], -y1, 2)
    BY <1>5, <1>n, <1>r, <2>1, <1>i, NegateStep, SMTT(30) DEF MaxMagnitude
  <2>4. -y1 = ny1
    BY <1>i DEF ny1
  <2> QED BY <1>5, <1>m, <1>r, <2>3, <2>4 DEF Leaves
<1>7. /\ st[7] \in State /\ Is(st[7]["h"], h, 3) /\ Is(st[7]["x1"], x1, 1)
      /\ Is(st[7]["i"], i, 4) /\ Is(st[7]["j"], j, 1) /\ Is(st[7]["r"], ny1 + y2, 3)
      /\ Is(st[7]["y1"], y1, 1)
  <2>1. st[7] = Step(st[6], Add2("r", "r", "y2"), nm)
    BY <1>q DEF AddOnes, Add, Add2
  <2>3. /\ Leaves(st[6], Add2("r", "r", "y2"), nm, "r", st[7])
        /\ Is(st[7]["r"], ny1 + y2, 3)
    BY <1>6, <1>n, <1>r, <2>1, <1>i, AddStep, SMTT(30) DEF MaxMagnitude
  <2> QED BY <1>6, <1>m, <1>r, <2>3 DEF Leaves
<1>8. /\ st[8] \in State /\ Is(st[8]["h"], h, 3) /\ Is(st[8]["x1"], x1, 1)
      /\ Is(st[8]["i"], i, 4) /\ Is(st[8]["j"], j, 1) /\ Is(st[8]["r"], r, 6)
      /\ Is(st[8]["y1"], y1, 1)
  <2>1. st[8] = Step(st[7], MulInt("r", 2), nm)
    BY <1>q DEF AddOnes, MulInt
  <2>3. /\ Leaves(st[7], MulInt("r", 2), nm, "r", st[8])
        /\ Is(st[8]["r"], (ny1 + y2) * 2, 6)
    BY <1>7, <1>n, <1>r, <2>1, <1>i, IntStep DEF MaxMagnitude
  <2>4. (ny1 + y2) * 2 = r
    BY <1>i DEF r, ny1
  <2> QED BY <1>7, <1>m, <1>r, <2>3, <2>4 DEF Leaves
<1>9. /\ st[9] \in State /\ Is(st[9]["h"], h, 3) /\ Is(st[9]["j"], j, 1)
      /\ Is(st[9]["r"], r, 6) /\ Is(st[9]["y1"], y1, 1) /\ Is(st[9]["v"], v, 1)
  <2>1. st[9] = Step(st[8], Mul2("v", "x1", "i"), nm)
    BY <1>q DEF AddOnes, Mul2
  <2>3. /\ Leaves(st[8], Mul2("v", "x1", "i"), nm, "v", st[9])
        /\ Is(st[9]["v"], x1 * i, 1)
    BY <1>8, <1>n, <1>r, <2>1, <1>i, MulStep, SMTT(30) DEF MulMax
  <2>4. x1 * i = v
    BY <1>i DEF v
  <2> QED BY <1>8, <1>m, <1>r, <2>3, <2>4 DEF Leaves
<1>10. /\ st[10] \in State /\ Is(st[10]["h"], h, 3) /\ Is(st[10]["j"], j, 1)
       /\ Is(st[10]["r"], r, 6) /\ Is(st[10]["y1"], y1, 1) /\ Is(st[10]["v"], v, 1)
       /\ Is(st[10]["t1"], nj, 2)
  <2>1. st[10] = Step(st[9], NegateOf("t1", "j", 1), nm)
    BY <1>q DEF AddOnes, NegateOf
  <2>3. /\ Leaves(st[9], NegateOf("t1", "j", 1), nm, "t1", st[10])
        /\ Is(st[10]["t1"], -j, 2)
    BY <1>9, <1>n, <1>r, <2>1, <1>i, NegateStep, SMTT(30) DEF MaxMagnitude
  <2>4. -j = nj
    BY <1>i DEF nj
  <2> QED BY <1>9, <1>m, <1>r, <2>3, <2>4 DEF Leaves
<1>11. /\ st[11] \in State /\ Is(st[11]["h"], h, 3) /\ Is(st[11]["j"], j, 1)
       /\ Is(st[11]["r"], r, 6) /\ Is(st[11]["y1"], y1, 1) /\ Is(st[11]["v"], v, 1)
       /\ Is(st[11]["t1"], nj, 2) /\ Is(st[11]["t2"], v, 1)
  <2>1. st[11] = Step(st[10], Set("t2", "v"), nm)
    BY <1>q DEF AddOnes, Set
  <2>3. /\ Leaves(st[10], Set("t2", "v"), nm, "t2", st[11])
        /\ Is(st[11]["t2"], v, 1)
    BY <1>10, <1>n, <1>r, <2>1, <1>i, SetStep
  <2> QED BY <1>10, <1>m, <1>r, <2>3 DEF Leaves
<1>12. /\ st[12] \in State /\ Is(st[12]["h"], h, 3) /\ Is(st[12]["j"], j, 1)
       /\ Is(st[12]["r"], r, 6) /\ Is(st[12]["y1"], y1, 1) /\ Is(st[12]["v"], v, 1)
       /\ Is(st[12]["t1"], nj, 2) /\ Is(st[12]["t2"], v * 2, 2)
  <2>1. st[12] = Step(st[11], MulInt("t2", 2), nm)
    BY <1>q DEF AddOnes, MulInt
  <2>3. /\ Leaves(st[11], MulInt("t2", 2), nm, "t2", st[12])
        /\ Is(st[12]["t2"], v * 2, 2)
    BY <1>11, <1>n, <1>r, <2>1, <1>i, IntStep DEF MaxMagnitude
  <2> QED BY <1>11, <1>m, <1>r, <2>3 DEF Leaves
<1>13. /\ st[13] \in State /\ Is(st[13]["h"], h, 3) /\ Is(st[13]["j"], j, 1)
       /\ Is(st[13]["r"], r, 6) /\ Is(st[13]["y1"], y1, 1) /\ Is(st[13]["v"], v, 1)
       /\ Is(st[13]["t1"], nj, 2) /\ Is(st[13]["t2"], nt2, 3)
  <2>1. st[13] = Step(st[12], NegateOf("t2", "t2", 2), nm)
    BY <1>q DEF AddOnes, Negate, NegateOf
  <2>3. /\ Leaves(st[12], NegateOf("t2", "t2", 2), nm, "t2", st[13])
        /\ Is(st[13]["t2"], -(v * 2), 3)
    BY <1>12, <1>n, <1>r, <2>1, <1>i, NegateStep, SMTT(30) DEF MaxMagnitude
  <2>4. -(v * 2) = nt2
    BY <1>i DEF nt2
  <2> QED BY <1>12, <1>m, <1>r, <2>3, <2>4 DEF Leaves
<1>14. /\ st[14] \in State /\ Is(st[14]["h"], h, 3) /\ Is(st[14]["j"], j, 1)
       /\ Is(st[14]["r"], r, 6) /\ Is(st[14]["y1"], y1, 1) /\ Is(st[14]["v"], v, 1)
       /\ Is(st[14]["t1"], nj, 2) /\ Is(st[14]["t2"], nt2, 3) /\ Is(st[14][X], r, 6)
  <2>1. st[14] = Step(st[13], Set("x3", "r"), nm)
    BY <1>q DEF AddOnes, Set
  <2>3. /\ Leaves(st[13], Set("x3", "r"), nm, X, st[14])
        /\ Is(st[14][X], r, 6)
    BY <1>13, <1>n, <1>r, <2>1, <1>i, SetStep
  <2> QED BY <1>13, <1>m, <1>r, <2>3 DEF Leaves
<1>15. /\ st[15] \in State /\ Is(st[15]["h"], h, 3) /\ Is(st[15]["j"], j, 1)
       /\ Is(st[15]["r"], r, 6) /\ Is(st[15]["y1"], y1, 1) /\ Is(st[15]["v"], v, 1)
       /\ Is(st[15]["t1"], nj, 2) /\ Is(st[15]["t2"], nt2, 3) /\ Is(st[15][X], rr, 1)
  <2>1. st[15] = Step(st[14], Mul2("x3", "x3", "x3"), nm)
    BY <1>q DEF AddOnes, Square, Mul2
  <2>3. /\ Leaves(st[14], Mul2("x3", "x3", "x3"), nm, X, st[15])
        /\ Is(st[15][X], r * r, 1)
    BY <1>14, <1>n, <1>r, <2>1, <1>i, MulStep, SMTT(30) DEF MulMax
  <2>4. r * r = rr
    BY <1>i DEF rr
  <2> QED BY <1>14, <1>m, <1>r, <2>3, <2>4 DEF Leaves
<1>16. /\ st[16] \in State /\ Is(st[16]["h"], h, 3) /\ Is(st[16]["j"], j, 1)
       /\ Is(st[16]["r"], r, 6) /\ Is(st[16]["y1"], y1, 1) /\ Is(st[16]["v"], v, 1)
       /\ Is(st[16]["t2"], nt2, 3) /\ Is(st[16][X], rr + nj, 3)
  <2>1. st[16] = Step(st[15], Add2("x3", "x3", "t1"), nm)
    BY <1>q DEF AddOnes, Add, Add2
  <2>3. /\ Leaves(st[15], Add2("x3", "x3", "t1"), nm, X, st[16])
        /\ Is(st[16][X], rr + nj, 3)
    BY <1>15, <1>n, <1>r, <2>1, <1>i, AddStep, SMTT(30) DEF MaxMagnitude
  <2> QED BY <1>15, <1>m, <1>r, <2>3 DEF Leaves
<1>17. /\ st[17] \in State /\ Is(st[17]["h"], h, 3) /\ Is(st[17]["j"], j, 1)
       /\ Is(st[17]["r"], r, 6) /\ Is(st[17]["y1"], y1, 1) /\ Is(st[17]["v"], v, 1)
       /\ Is(st[17][X], x3, 6)
  <2>1. st[17] = Step(st[16], Add2("x3", "x3", "t2"), nm)
    BY <1>q DEF AddOnes, Add, Add2
  <2>3. /\ Leaves(st[16], Add2("x3", "x3", "t2"), nm, X, st[17])
        /\ Is(st[17][X], (rr + nj) + nt2, 6)
    BY <1>16, <1>n, <1>r, <2>1, <1>i, AddStep, SMTT(30) DEF MaxMagnitude
  <2>4. (rr + nj) + nt2 = x3
    BY <1>i DEF x3, nj, nt2
  <2> QED BY <1>16, <1>m, <1>r, <2>3, <2>4 DEF Leaves
<1>18. /\ st[18] \in State /\ Is(st[18]["h"], h, 3) /\ Is(st[18]["j"], j, 1)
       /\ Is(st[18]["r"], r, 6) /\ Is(st[18]["y1"], y1, 1) /\ Is(st[18]["v"], v, 1)
       /\ Is(st[18][X], x3, 6) /\ Is(st[18]["t3"], nx3, 7)
  <2>1. st[18] = Step(st[17], NegateOf("t3", "x3", 6), nm)
    BY <1>q DEF AddOnes, NegateOf
  <2>3. /\ Leaves(st[17], NegateOf("t3", "x3", 6), nm, "t3", st[18])
        /\ Is(st[18]["t3"], -x3, 7)
    BY <1>17, <1>n, <1>r, <2>1, <1>i, NegateStep, SMTT(30) DEF MaxMagnitude
  <2>4. -x3 = nx3
    BY <1>i DEF nx3
  <2> QED BY <1>17, <1>m, <1>r, <2>3, <2>4 DEF Leaves
<1>19. /\ st[19] \in State /\ Is(st[19]["h"], h, 3) /\ Is(st[19]["j"], jy, 1)
       /\ Is(st[19]["r"], r, 6) /\ Is(st[19]["v"], v, 1) /\ Is(st[19][X], x3, 6)
       /\ Is(st[19]["t3"], nx3, 7)
  <2>1. st[19] = Step(st[18], Mul2("j", "j", "y1"), nm)
    BY <1>q DEF AddOnes, Mul, Mul2
  <2>3. /\ Leaves(st[18], Mul2("j", "j", "y1"), nm, "j", st[19])
        /\ Is(st[19]["j"], j * y1, 1)
    BY <1>18, <1>n, <1>r, <2>1, <1>i, MulStep, SMTT(30) DEF MulMax
  <2>4. j * y1 = jy
    BY <1>i DEF jy
  <2> QED BY <1>18, <1>m, <1>r, <2>3, <2>4 DEF Leaves
<1>20. /\ st[20] \in State /\ Is(st[20]["h"], h, 3) /\ Is(st[20]["j"], jy * 2, 2)
       /\ Is(st[20]["r"], r, 6) /\ Is(st[20]["v"], v, 1) /\ Is(st[20][X], x3, 6)
       /\ Is(st[20]["t3"], nx3, 7)
  <2>1. st[20] = Step(st[19], MulInt("j", 2), nm)
    BY <1>q DEF AddOnes, MulInt
  <2>3. /\ Leaves(st[19], MulInt("j", 2), nm, "j", st[20])
        /\ Is(st[20]["j"], jy * 2, 2)
    BY <1>19, <1>n, <1>r, <2>1, <1>i, IntStep DEF MaxMagnitude
  <2> QED BY <1>19, <1>m, <1>r, <2>3 DEF Leaves
<1>21. /\ st[21] \in State /\ Is(st[21]["h"], h, 3) /\ Is(st[21]["j"], njx, 3)
       /\ Is(st[21]["r"], r, 6) /\ Is(st[21]["v"], v, 1) /\ Is(st[21][X], x3, 6)
       /\ Is(st[21]["t3"], nx3, 7)
  <2>1. st[21] = Step(st[20], NegateOf("j", "j", 2), nm)
    BY <1>q DEF AddOnes, Negate, NegateOf
  <2>3. /\ Leaves(st[20], NegateOf("j", "j", 2), nm, "j", st[21])
        /\ Is(st[21]["j"], -(jy * 2), 3)
    BY <1>20, <1>n, <1>r, <2>1, <1>i, NegateStep, SMTT(30) DEF MaxMagnitude
  <2>4. -(jy * 2) = njx
    BY <1>i DEF njx
  <2> QED BY <1>20, <1>m, <1>r, <2>3, <2>4 DEF Leaves
<1>22. /\ st[22] \in State /\ Is(st[22]["h"], h, 3) /\ Is(st[22]["j"], njx, 3)
       /\ Is(st[22]["r"], r, 6) /\ Is(st[22][X], x3, 6) /\ Is(st[22]["t3"], nx3, 7)
       /\ Is(st[22][Y], v, 1)
  <2>1. st[22] = Step(st[21], Set("y3", "v"), nm)
    BY <1>q DEF AddOnes, Set
  <2>3. /\ Leaves(st[21], Set("y3", "v"), nm, Y, st[22])
        /\ Is(st[22][Y], v, 1)
    BY <1>21, <1>n, <1>r, <2>1, <1>i, SetStep
  <2> QED BY <1>21, <1>m, <1>r, <2>3 DEF Leaves
<1>23. /\ st[23] \in State /\ Is(st[23]["h"], h, 3) /\ Is(st[23]["j"], njx, 3)
       /\ Is(st[23]["r"], r, 6) /\ Is(st[23][X], x3, 6) /\ Is(st[23][Y], v + nx3, 8)
  <2>1. st[23] = Step(st[22], Add2("y3", "y3", "t3"), nm)
    BY <1>q DEF AddOnes, Add, Add2
  <2>3. /\ Leaves(st[22], Add2("y3", "y3", "t3"), nm, Y, st[23])
        /\ Is(st[23][Y], v + nx3, 8)
    BY <1>22, <1>n, <1>r, <2>1, <1>i, AddStep, SMTT(30) DEF MaxMagnitude
  <2> QED BY <1>22, <1>m, <1>r, <2>3 DEF Leaves
<1>24. /\ st[24] \in State /\ Is(st[24]["h"], h, 3) /\ Is(st[24]["j"], njx, 3)
       /\ Is(st[24][X], x3, 6) /\ Is(st[24][Y], vx, 1)
  <2>1. st[24] = Step(st[23], Mul2("y3", "y3", "r"), nm)
    BY <1>q DEF AddOnes, Mul, Mul2
  <2>3. /\ Leaves(st[23], Mul2("y3", "y3", "r"), nm, Y, st[24])
        /\ Is(st[24][Y], (v + nx3) * r, 1)
    BY <1>23, <1>n, <1>r, <2>1, <1>i, MulStep, SMTT(30) DEF MulMax
  <2>4. (v + nx3) * r = vx
    BY <1>i DEF vx, nx3
  <2> QED BY <1>23, <1>m, <1>r, <2>3, <2>4 DEF Leaves
<1>25. /\ st[25] \in State /\ Is(st[25]["h"], h, 3) /\ Is(st[25][X], x3, 6)
       /\ Is(st[25][Y], y3, 4)
  <2>1. st[25] = Step(st[24], Add2("y3", "y3", "j"), nm)
    BY <1>q DEF AddOnes, Add, Add2
  <2>3. /\ Leaves(st[24], Add2("y3", "y3", "j"), nm, Y, st[25])
        /\ Is(st[25][Y], vx + njx, 4)
    BY <1>24, <1>n, <1>r, <2>1, <1>i, AddStep, SMTT(30) DEF MaxMagnitude
  <2>4. vx + njx = y3
    BY <1>i DEF y3, njx
  <2> QED BY <1>24, <1>m, <1>r, <2>3, <2>4 DEF Leaves
<1>26. /\ st[26] \in State /\ Is(st[26][X], x3, 6) /\ Is(st[26][Y], y3, 4)
       /\ Is(st[26][Z], h, 3)
  <2>1. st[26] = Step(st[25], Set("z3", "h"), nm)
    BY <1>q DEF AddOnes, Set
  <2>3. /\ Leaves(st[25], Set("z3", "h"), nm, Z, st[26])
        /\ Is(st[26][Z], h, 3)
    BY <1>25, <1>n, <1>r, <2>1, <1>i, SetStep
  <2> QED BY <1>25, <1>m, <1>r, <2>3 DEF Leaves
<1>27. /\ st[27] \in State /\ Is(st[27][X], x3, 6) /\ Is(st[27][Y], y3, 4)
       /\ Is(st[27][Z], z3, 6)
  <2>1. st[27] = Step(st[26], MulInt("z3", 2), nm)
    BY <1>q DEF AddOnes, MulInt
  <2>3. /\ Leaves(st[26], MulInt("z3", 2), nm, Z, st[27])
        /\ Is(st[27][Z], h * 2, 6)
    BY <1>26, <1>n, <1>r, <2>1, <1>i, IntStep DEF MaxMagnitude
  <2>4. h * 2 = z3
    BY <1>i DEF z3
  <2> QED BY <1>26, <1>m, <1>r, <2>3, <2>4 DEF Leaves
<1>e. /\ x3 = 4 * SumX(x1, x2 - x1, y2 - y1)
      /\ y3 = 8 * SumY(x1, y1, x2 - x1, y2 - y1)
      /\ z3 = 2 * (x2 - x1)
  BY DEF h, hh, i, j, r, v, rr, x3, jy, vx, y3, z3, nx1, ny1, nj, nt2, nx3, njx, SumX, SumY
<1> QED BY <1>p, <1>27, <1>e DEF nm, X, Y, Z

LEMMA AddSameZGives ==
    ASSUME NEW g \in State, NEW which \in Ways, NEW x1 \in Int, NEW y1 \in Int, NEW z1 \in Int,
           NEW x2 \in Int, NEW y2 \in Int,
           Is(g["x1"], x1, 1), Is(g["y1"], y1, 1), Is(g["z1"], z1, 1), Is(g["x2"], x2, 1),
           Is(g["y2"], y2, 1)
    PROVE  LET t == Run(AddSameZ, g, Alias(which))
           IN  /\ t \in State
               /\ Is(t[Called("x3", Alias(which))], SumX(x1, x2 - x1, y2 - y1), 4)
               /\ Is(t[Called("y3", Alias(which))], SumY(x1, y1, x2 - x1, y2 - y1), 3)
               /\ Is(t[Called("z3", Alias(which))], z1 * (x2 - x1), 1)
<1> DEFINE h == x2 - x1
           hh == h * h
           r == y2 - y1
           rr == r * r
           u == x1 * hh
           w == x2 * hh
           x3 == rr - u - w
           yw == y1 * (w - u)
           ur == (u - x3) * r
           y3 == ur - yw
           z3 == z1 * h
           nx1 == -x1
           ny1 == -y1
           nu == -u
           nx3 == -(u + w)
           nx3x == -x3
           nyw == -yw
<1>i. /\ h \in Int /\ hh \in Int /\ r \in Int /\ rr \in Int /\ u \in Int /\ w \in Int
      /\ x3 \in Int /\ yw \in Int /\ ur \in Int /\ y3 \in Int /\ z3 \in Int /\ nx1 \in Int
      /\ ny1 \in Int /\ nu \in Int /\ nx3 \in Int /\ nx3x \in Int /\ nyw \in Int
  OBVIOUS
<1> HIDE DEF h, hh, r, rr, u, w, x3, yw, ur, y3, z3, nx1, ny1, nu, nx3, nx3x, nyw
<1> DEFINE nm == Alias(which)
           X == Called("x3", nm)
           Y == Called("y3", nm)
           Z == Called("z3", nm)
<1>m. /\ X \in {"x3", "x1", "x2"} /\ Y \in {"y3", "y1", "y2"} /\ Z \in {"z3", "z1", "z2"}
  BY CalledIs
<1>n. /\ Called("x3", nm) = X /\ Called("y3", nm) = Y /\ Called("z3", nm) = Z
      /\ Called("t1", nm) = "t1" /\ Called("x1", nm) = "x1" /\ Called("t2", nm) = "t2"
      /\ Called("y1", nm) = "y1" /\ Called("a", nm) = "a" /\ Called("x2", nm) = "x2"
      /\ Called("b", nm) = "b" /\ Called("c", nm) = "c" /\ Called("y2", nm) = "y2"
      /\ Called("d", nm) = "d" /\ Called("e", nm) = "e" /\ Called("t3", nm) = "t3"
      /\ Called("f", nm) = "f" /\ Called("h", nm) = "h" /\ Called("z1", nm) = "z1"
  BY CalledIs DEF Registers, Plain
<1>r. /\ "t1" \in Registers /\ "x1" \in Registers /\ "t2" \in Registers /\ "y1" \in Registers
      /\ "a" \in Registers /\ "x2" \in Registers /\ "b" \in Registers /\ "c" \in Registers
      /\ "y2" \in Registers /\ "d" \in Registers /\ "e" \in Registers /\ "t3" \in Registers
      /\ "f" \in Registers /\ "h" \in Registers /\ "z1" \in Registers /\ X \in Registers
      /\ Y \in Registers /\ Z \in Registers
  BY <1>m DEF Registers
<1> HIDE DEF nm, X, Y, Z
<1>p. PICK st : States(AddSameZ, g, nm, 23, st) /\ Run(AddSameZ, g, nm) = st[23]
  <2>1. Len(AddSameZ) = 23 /\ Len(AddSameZ) \in Nat
    BY DEF AddSameZ
  <2> QED BY <2>1, RunIs
<1>q. st[0] = g /\ \A k \in 1..23 : st[k] = Step(st[k - 1], AddSameZ[k], nm)
  BY <1>p DEF States
<1>0. /\ st[0] \in State /\ Is(st[0]["x1"], x1, 1) /\ Is(st[0]["y1"], y1, 1)
      /\ Is(st[0]["x2"], x2, 1) /\ Is(st[0]["y2"], y2, 1) /\ Is(st[0]["z1"], z1, 1)
  BY <1>q
<1>1. /\ st[1] \in State /\ Is(st[1]["t1"], nx1, 2) /\ Is(st[1]["x1"], x1, 1)
      /\ Is(st[1]["y1"], y1, 1) /\ Is(st[1]["x2"], x2, 1) /\ Is(st[1]["y2"], y2, 1)
      /\ Is(st[1]["z1"], z1, 1)
  <2>1. st[1] = Step(st[0], NegateOf("t1", "x1", 1), nm)
    BY <1>q DEF AddSameZ, NegateOf
  <2>3. /\ Leaves(st[0], NegateOf("t1", "x1", 1), nm, "t1", st[1])
        /\ Is(st[1]["t1"], -x1, 2)
    BY <1>0, <1>n, <1>r, <2>1, <1>i, NegateStep, SMTT(30) DEF MaxMagnitude
  <2>4. -x1 = nx1
    BY <1>i DEF nx1
  <2> QED BY <1>0, <1>m, <1>r, <2>3, <2>4 DEF Leaves
<1>2. /\ st[2] \in State /\ Is(st[2]["t1"], nx1, 2) /\ Is(st[2]["x1"], x1, 1)
      /\ Is(st[2]["t2"], ny1, 2) /\ Is(st[2]["y1"], y1, 1) /\ Is(st[2]["x2"], x2, 1)
      /\ Is(st[2]["y2"], y2, 1) /\ Is(st[2]["z1"], z1, 1)
  <2>1. st[2] = Step(st[1], NegateOf("t2", "y1", 1), nm)
    BY <1>q DEF AddSameZ, NegateOf
  <2>3. /\ Leaves(st[1], NegateOf("t2", "y1", 1), nm, "t2", st[2])
        /\ Is(st[2]["t2"], -y1, 2)
    BY <1>1, <1>n, <1>r, <2>1, <1>i, NegateStep, SMTT(30) DEF MaxMagnitude
  <2>4. -y1 = ny1
    BY <1>i DEF ny1
  <2> QED BY <1>1, <1>m, <1>r, <2>3, <2>4 DEF Leaves
<1>3. /\ st[3] \in State /\ Is(st[3]["x1"], x1, 1) /\ Is(st[3]["t2"], ny1, 2)
      /\ Is(st[3]["y1"], y1, 1) /\ Is(st[3]["a"], nx1, 2) /\ Is(st[3]["x2"], x2, 1)
      /\ Is(st[3]["y2"], y2, 1) /\ Is(st[3]["z1"], z1, 1)
  <2>1. st[3] = Step(st[2], Set("a", "t1"), nm)
    BY <1>q DEF AddSameZ, Set
  <2>3. /\ Leaves(st[2], Set("a", "t1"), nm, "a", st[3])
        /\ Is(st[3]["a"], nx1, 2)
    BY <1>2, <1>n, <1>r, <2>1, <1>i, SetStep
  <2> QED BY <1>2, <1>m, <1>r, <2>3 DEF Leaves
<1>4. /\ st[4] \in State /\ Is(st[4]["x1"], x1, 1) /\ Is(st[4]["t2"], ny1, 2)
      /\ Is(st[4]["y1"], y1, 1) /\ Is(st[4]["a"], h, 3) /\ Is(st[4]["x2"], x2, 1)
      /\ Is(st[4]["y2"], y2, 1) /\ Is(st[4]["z1"], z1, 1)
  <2>1. st[4] = Step(st[3], Add2("a", "a", "x2"), nm)
    BY <1>q DEF AddSameZ, Add, Add2
  <2>3. /\ Leaves(st[3], Add2("a", "a", "x2"), nm, "a", st[4])
        /\ Is(st[4]["a"], nx1 + x2, 3)
    BY <1>3, <1>n, <1>r, <2>1, <1>i, AddStep, SMTT(30) DEF MaxMagnitude
  <2>4. nx1 + x2 = h
    BY <1>i DEF h, nx1
  <2> QED BY <1>3, <1>m, <1>r, <2>3, <2>4 DEF Leaves
<1>5. /\ st[5] \in State /\ Is(st[5]["x1"], x1, 1) /\ Is(st[5]["t2"], ny1, 2)
      /\ Is(st[5]["y1"], y1, 1) /\ Is(st[5]["a"], h, 3) /\ Is(st[5]["x2"], x2, 1)
      /\ Is(st[5]["b"], hh, 1) /\ Is(st[5]["y2"], y2, 1) /\ Is(st[5]["z1"], z1, 1)
  <2>1. st[5] = Step(st[4], Mul2("b", "a", "a"), nm)
    BY <1>q DEF AddSameZ, SquareVal, Mul2
  <2>3. /\ Leaves(st[4], Mul2("b", "a", "a"), nm, "b", st[5])
        /\ Is(st[5]["b"], h * h, 1)
    BY <1>4, <1>n, <1>r, <2>1, <1>i, MulStep, SMTT(30) DEF MulMax
  <2>4. h * h = hh
    BY <1>i DEF hh
  <2> QED BY <1>4, <1>m, <1>r, <2>3, <2>4 DEF Leaves
<1>6. /\ st[6] \in State /\ Is(st[6]["x1"], x1, 1) /\ Is(st[6]["y1"], y1, 1)
      /\ Is(st[6]["a"], h, 3) /\ Is(st[6]["x2"], x2, 1) /\ Is(st[6]["b"], hh, 1)
      /\ Is(st[6]["c"], ny1, 2) /\ Is(st[6]["y2"], y2, 1) /\ Is(st[6]["z1"], z1, 1)
  <2>1. st[6] = Step(st[5], Set("c", "t2"), nm)
    BY <1>q DEF AddSameZ, Set
  <2>3. /\ Leaves(st[5], Set("c", "t2"), nm, "c", st[6])
        /\ Is(st[6]["c"], ny1, 2)
    BY <1>5, <1>n, <1>r, <2>1, <1>i, SetStep
  <2> QED BY <1>5, <1>m, <1>r, <2>3 DEF Leaves
<1>7. /\ st[7] \in State /\ Is(st[7]["x1"], x1, 1) /\ Is(st[7]["y1"], y1, 1)
      /\ Is(st[7]["a"], h, 3) /\ Is(st[7]["x2"], x2, 1) /\ Is(st[7]["b"], hh, 1)
      /\ Is(st[7]["c"], r, 3) /\ Is(st[7]["z1"], z1, 1)
  <2>1. st[7] = Step(st[6], Add2("c", "c", "y2"), nm)
    BY <1>q DEF AddSameZ, Add, Add2
  <2>3. /\ Leaves(st[6], Add2("c", "c", "y2"), nm, "c", st[7])
        /\ Is(st[7]["c"], ny1 + y2, 3)
    BY <1>6, <1>n, <1>r, <2>1, <1>i, AddStep, SMTT(30) DEF MaxMagnitude
  <2>4. ny1 + y2 = r
    BY <1>i DEF r, ny1
  <2> QED BY <1>6, <1>m, <1>r, <2>3, <2>4 DEF Leaves
<1>8. /\ st[8] \in State /\ Is(st[8]["x1"], x1, 1) /\ Is(st[8]["y1"], y1, 1)
      /\ Is(st[8]["a"], h, 3) /\ Is(st[8]["x2"], x2, 1) /\ Is(st[8]["b"], hh, 1)
      /\ Is(st[8]["c"], r, 3) /\ Is(st[8]["d"], rr, 1) /\ Is(st[8]["z1"], z1, 1)
  <2>1. st[8] = Step(st[7], Mul2("d", "c", "c"), nm)
    BY <1>q DEF AddSameZ, SquareVal, Mul2
  <2>3. /\ Leaves(st[7], Mul2("d", "c", "c"), nm, "d", st[8])
        /\ Is(st[8]["d"], r * r, 1)
    BY <1>7, <1>n, <1>r, <2>1, <1>i, MulStep, SMTT(30) DEF MulMax
  <2>4. r * r = rr
    BY <1>i DEF rr
  <2> QED BY <1>7, <1>m, <1>r, <2>3, <2>4 DEF Leaves
<1>9. /\ st[9] \in State /\ Is(st[9]["y1"], y1, 1) /\ Is(st[9]["a"], h, 3)
      /\ Is(st[9]["x2"], x2, 1) /\ Is(st[9]["b"], hh, 1) /\ Is(st[9]["c"], r, 3)
      /\ Is(st[9]["d"], rr, 1) /\ Is(st[9]["e"], u, 1) /\ Is(st[9]["z1"], z1, 1)
  <2>1. st[9] = Step(st[8], Mul2("e", "x1", "b"), nm)
    BY <1>q DEF AddSameZ, Mul2
  <2>3. /\ Leaves(st[8], Mul2("e", "x1", "b"), nm, "e", st[9])
        /\ Is(st[9]["e"], x1 * hh, 1)
    BY <1>8, <1>n, <1>r, <2>1, <1>i, MulStep, SMTT(30) DEF MulMax
  <2>4. x1 * hh = u
    BY <1>i DEF u
  <2> QED BY <1>8, <1>m, <1>r, <2>3, <2>4 DEF Leaves
<1>10. /\ st[10] \in State /\ Is(st[10]["y1"], y1, 1) /\ Is(st[10]["a"], h, 3)
       /\ Is(st[10]["x2"], x2, 1) /\ Is(st[10]["b"], hh, 1) /\ Is(st[10]["c"], r, 3)
       /\ Is(st[10]["d"], rr, 1) /\ Is(st[10]["e"], u, 1) /\ Is(st[10]["t3"], nu, 2)
       /\ Is(st[10]["z1"], z1, 1)
  <2>1. st[10] = Step(st[9], NegateOf("t3", "e", 1), nm)
    BY <1>q DEF AddSameZ, NegateOf
  <2>3. /\ Leaves(st[9], NegateOf("t3", "e", 1), nm, "t3", st[10])
        /\ Is(st[10]["t3"], -u, 2)
    BY <1>9, <1>n, <1>r, <2>1, <1>i, NegateStep, SMTT(30) DEF MaxMagnitude
  <2>4. -u = nu
    BY <1>i DEF nu
  <2> QED BY <1>9, <1>m, <1>r, <2>3, <2>4 DEF Leaves
<1>11. /\ st[11] \in State /\ Is(st[11]["y1"], y1, 1) /\ Is(st[11]["a"], h, 3)
       /\ Is(st[11]["c"], r, 3) /\ Is(st[11]["d"], rr, 1) /\ Is(st[11]["e"], u, 1)
       /\ Is(st[11]["t3"], nu, 2) /\ Is(st[11]["f"], w, 1) /\ Is(st[11]["z1"], z1, 1)
  <2>1. st[11] = Step(st[10], Mul2("f", "x2", "b"), nm)
    BY <1>q DEF AddSameZ, Mul2
  <2>3. /\ Leaves(st[10], Mul2("f", "x2", "b"), nm, "f", st[11])
        /\ Is(st[11]["f"], x2 * hh, 1)
    BY <1>10, <1>n, <1>r, <2>1, <1>i, MulStep, SMTT(30) DEF MulMax
  <2>4. x2 * hh = w
    BY <1>i DEF w
  <2> QED BY <1>10, <1>m, <1>r, <2>3, <2>4 DEF Leaves
<1>12. /\ st[12] \in State /\ Is(st[12]["y1"], y1, 1) /\ Is(st[12]["a"], h, 3)
       /\ Is(st[12]["c"], r, 3) /\ Is(st[12]["d"], rr, 1) /\ Is(st[12]["e"], u, 1)
       /\ Is(st[12]["t3"], nu, 2) /\ Is(st[12]["f"], w, 1) /\ Is(st[12][X], u + w, 2)
       /\ Is(st[12]["z1"], z1, 1)
  <2>1. st[12] = Step(st[11], Add2("x3", "e", "f"), nm)
    BY <1>q DEF AddSameZ, Add2
  <2>3. /\ Leaves(st[11], Add2("x3", "e", "f"), nm, X, st[12])
        /\ Is(st[12][X], u + w, 2)
    BY <1>11, <1>n, <1>r, <2>1, <1>i, AddStep, SMTT(30) DEF MaxMagnitude
  <2> QED BY <1>11, <1>m, <1>r, <2>3 DEF Leaves
<1>13. /\ st[13] \in State /\ Is(st[13]["y1"], y1, 1) /\ Is(st[13]["a"], h, 3)
       /\ Is(st[13]["c"], r, 3) /\ Is(st[13]["d"], rr, 1) /\ Is(st[13]["e"], u, 1)
       /\ Is(st[13]["t3"], nu, 2) /\ Is(st[13]["f"], w, 1) /\ Is(st[13][X], nx3, 3)
       /\ Is(st[13]["z1"], z1, 1)
  <2>1. st[13] = Step(st[12], NegateOf("x3", "x3", 2), nm)
    BY <1>q DEF AddSameZ, Negate, NegateOf
  <2>3. /\ Leaves(st[12], NegateOf("x3", "x3", 2), nm, X, st[13])
        /\ Is(st[13][X], -(u + w), 3)
    BY <1>12, <1>n, <1>r, <2>1, <1>i, NegateStep, SMTT(30) DEF MaxMagnitude
  <2>4. -(u + w) = nx3
    BY <1>i DEF nx3
  <2> QED BY <1>12, <1>m, <1>r, <2>3, <2>4 DEF Leaves
<1>14. /\ st[14] \in State /\ Is(st[14]["y1"], y1, 1) /\ Is(st[14]["a"], h, 3)
       /\ Is(st[14]["c"], r, 3) /\ Is(st[14]["e"], u, 1) /\ Is(st[14]["t3"], nu, 2)
       /\ Is(st[14]["f"], w, 1) /\ Is(st[14][X], x3, 4) /\ Is(st[14]["z1"], z1, 1)
  <2>1. st[14] = Step(st[13], Add2("x3", "x3", "d"), nm)
    BY <1>q DEF AddSameZ, Add, Add2
  <2>3. /\ Leaves(st[13], Add2("x3", "x3", "d"), nm, X, st[14])
        /\ Is(st[14][X], nx3 + rr, 4)
    BY <1>13, <1>n, <1>r, <2>1, <1>i, AddStep, SMTT(30) DEF MaxMagnitude
  <2>4. nx3 + rr = x3
    BY <1>i DEF x3, nx3
  <2> QED BY <1>13, <1>m, <1>r, <2>3, <2>4 DEF Leaves
<1>15. /\ st[15] \in State /\ Is(st[15]["y1"], y1, 1) /\ Is(st[15]["a"], h, 3)
       /\ Is(st[15]["c"], r, 3) /\ Is(st[15]["e"], u, 1) /\ Is(st[15]["t3"], nu, 2)
       /\ Is(st[15]["f"], w, 1) /\ Is(st[15][X], x3, 4) /\ Is(st[15]["h"], nx3x, 5)
       /\ Is(st[15]["z1"], z1, 1)
  <2>1. st[15] = Step(st[14], NegateOf("h", "x3", 4), nm)
    BY <1>q DEF AddSameZ, NegateOf
  <2>3. /\ Leaves(st[14], NegateOf("h", "x3", 4), nm, "h", st[15])
        /\ Is(st[15]["h"], -x3, 5)
    BY <1>14, <1>n, <1>r, <2>1, <1>i, NegateStep, SMTT(30) DEF MaxMagnitude
  <2>4. -x3 = nx3x
    BY <1>i DEF nx3x
  <2> QED BY <1>14, <1>m, <1>r, <2>3, <2>4 DEF Leaves
<1>16. /\ st[16] \in State /\ Is(st[16]["y1"], y1, 1) /\ Is(st[16]["a"], h, 3)
       /\ Is(st[16]["c"], r, 3) /\ Is(st[16]["e"], u, 1) /\ Is(st[16]["f"], w + nu, 3)
       /\ Is(st[16][X], x3, 4) /\ Is(st[16]["h"], nx3x, 5) /\ Is(st[16]["z1"], z1, 1)
  <2>1. st[16] = Step(st[15], Add2("f", "f", "t3"), nm)
    BY <1>q DEF AddSameZ, Add, Add2
  <2>3. /\ Leaves(st[15], Add2("f", "f", "t3"), nm, "f", st[16])
        /\ Is(st[16]["f"], w + nu, 3)
    BY <1>15, <1>n, <1>r, <2>1, <1>i, AddStep, SMTT(30) DEF MaxMagnitude
  <2> QED BY <1>15, <1>m, <1>r, <2>3 DEF Leaves
<1>17. /\ st[17] \in State /\ Is(st[17]["a"], h, 3) /\ Is(st[17]["c"], r, 3)
       /\ Is(st[17]["e"], u, 1) /\ Is(st[17]["f"], w + nu, 3) /\ Is(st[17][X], x3, 4)
       /\ Is(st[17]["h"], nx3x, 5) /\ Is(st[17][Y], y1, 1) /\ Is(st[17]["z1"], z1, 1)
  <2>1. st[17] = Step(st[16], Set("y3", "y1"), nm)
    BY <1>q DEF AddSameZ, Set
  <2>2. /\ st[16] \in State /\ Is(st[16][Called("y1", nm)], y1, 1) /\ Called("y1", nm) = "y1"
        /\ Called("y3", nm) = Y /\ Y \in Registers
    BY <1>16, <1>n, <1>r, <1>i
  <2>3. /\ Leaves(st[16], Set("y3", "y1"), nm, Y, st[17])
        /\ Is(st[17][Y], y1, 1)
    BY <2>1, <2>2, SetStep
  <2> QED BY <1>16, <1>m, <1>r, <2>3 DEF Leaves
<1>18. /\ st[18] \in State /\ Is(st[18]["a"], h, 3) /\ Is(st[18]["c"], r, 3)
       /\ Is(st[18]["e"], u, 1) /\ Is(st[18][X], x3, 4) /\ Is(st[18]["h"], nx3x, 5)
       /\ Is(st[18][Y], yw, 1) /\ Is(st[18]["z1"], z1, 1)
  <2>1. st[18] = Step(st[17], Mul2("y3", "y3", "f"), nm)
    BY <1>q DEF AddSameZ, Mul, Mul2
  <2>3. /\ Leaves(st[17], Mul2("y3", "y3", "f"), nm, Y, st[18])
        /\ Is(st[18][Y], y1 * (w + nu), 1)
    BY <1>17, <1>n, <1>r, <2>1, <1>i, MulStep, SMTT(30) DEF MulMax
  <2>4. y1 * (w + nu) = yw
    BY <1>i DEF yw, nu
  <2> QED BY <1>17, <1>m, <1>r, <2>3, <2>4 DEF Leaves
<1>19. /\ st[19] \in State /\ Is(st[19]["a"], h, 3) /\ Is(st[19]["c"], r, 3)
       /\ Is(st[19]["e"], u, 1) /\ Is(st[19][X], x3, 4) /\ Is(st[19]["h"], nx3x, 5)
       /\ Is(st[19][Y], nyw, 2) /\ Is(st[19]["z1"], z1, 1)
  <2>1. st[19] = Step(st[18], NegateOf("y3", "y3", 1), nm)
    BY <1>q DEF AddSameZ, Negate, NegateOf
  <2>3. /\ Leaves(st[18], NegateOf("y3", "y3", 1), nm, Y, st[19])
        /\ Is(st[19][Y], -yw, 2)
    BY <1>18, <1>n, <1>r, <2>1, <1>i, NegateStep, SMTT(30) DEF MaxMagnitude
  <2>4. -yw = nyw
    BY <1>i DEF nyw
  <2> QED BY <1>18, <1>m, <1>r, <2>3, <2>4 DEF Leaves
<1>20. /\ st[20] \in State /\ Is(st[20]["a"], h, 3) /\ Is(st[20]["c"], r, 3)
       /\ Is(st[20]["e"], u + nx3x, 6) /\ Is(st[20][X], x3, 4) /\ Is(st[20][Y], nyw, 2)
       /\ Is(st[20]["z1"], z1, 1)
  <2>1. st[20] = Step(st[19], Add2("e", "e", "h"), nm)
    BY <1>q DEF AddSameZ, Add, Add2
  <2>3. /\ Leaves(st[19], Add2("e", "e", "h"), nm, "e", st[20])
        /\ Is(st[20]["e"], u + nx3x, 6)
    BY <1>19, <1>n, <1>r, <2>1, <1>i, AddStep, SMTT(30) DEF MaxMagnitude
  <2> QED BY <1>19, <1>m, <1>r, <2>3 DEF Leaves
<1>21. /\ st[21] \in State /\ Is(st[21]["a"], h, 3) /\ Is(st[21]["e"], ur, 1)
       /\ Is(st[21][X], x3, 4) /\ Is(st[21][Y], nyw, 2) /\ Is(st[21]["z1"], z1, 1)
  <2>1. st[21] = Step(st[20], Mul2("e", "e", "c"), nm)
    BY <1>q DEF AddSameZ, Mul, Mul2
  <2>3. /\ Leaves(st[20], Mul2("e", "e", "c"), nm, "e", st[21])
        /\ Is(st[21]["e"], (u + nx3x) * r, 1)
    BY <1>20, <1>n, <1>r, <2>1, <1>i, MulStep, SMTT(30) DEF MulMax
  <2>4. (u + nx3x) * r = ur
    BY <1>i DEF ur, nx3x
  <2> QED BY <1>20, <1>m, <1>r, <2>3, <2>4 DEF Leaves
<1>22. /\ st[22] \in State /\ Is(st[22]["a"], h, 3) /\ Is(st[22][X], x3, 4)
       /\ Is(st[22][Y], y3, 3) /\ Is(st[22]["z1"], z1, 1)
  <2>1. st[22] = Step(st[21], Add2("y3", "y3", "e"), nm)
    BY <1>q DEF AddSameZ, Add, Add2
  <2>3. /\ Leaves(st[21], Add2("y3", "y3", "e"), nm, Y, st[22])
        /\ Is(st[22][Y], nyw + ur, 3)
    BY <1>21, <1>n, <1>r, <2>1, <1>i, AddStep, SMTT(30) DEF MaxMagnitude
  <2>4. nyw + ur = y3
    BY <1>i DEF y3, nyw
  <2> QED BY <1>21, <1>m, <1>r, <2>3, <2>4 DEF Leaves
<1>23. /\ st[23] \in State /\ Is(st[23][X], x3, 4) /\ Is(st[23][Y], y3, 3)
       /\ Is(st[23][Z], z3, 1)
  <2>1. st[23] = Step(st[22], Mul2("z3", "z1", "a"), nm)
    BY <1>q DEF AddSameZ, Mul2
  <2>3. /\ Leaves(st[22], Mul2("z3", "z1", "a"), nm, Z, st[23])
        /\ Is(st[23][Z], z1 * h, 1)
    BY <1>22, <1>n, <1>r, <2>1, <1>i, MulStep, SMTT(30) DEF MulMax
  <2>4. z1 * h = z3
    BY <1>i DEF z3
  <2> QED BY <1>22, <1>m, <1>r, <2>3, <2>4 DEF Leaves
<1>e. /\ x3 = SumX(x1, x2 - x1, y2 - y1)
      /\ y3 = SumY(x1, y1, x2 - x1, y2 - y1)
      /\ z3 = z1 * (x2 - x1)
  BY DEF h, hh, r, rr, u, w, x3, yw, ur, y3, z3, nx1, ny1, nu, nx3, nx3x, nyw, SumX, SumY
<1> QED BY <1>p, <1>23, <1>e DEF nm, X, Y, Z

LEMMA MixedAddFirstGives ==
    ASSUME NEW g \in State, NEW x1 \in Int, NEW y1 \in Int, NEW z1 \in Int, NEW x2 \in Int,
           NEW y2 \in Int,
           Is(g["x1"], x1, 1), Is(g["y1"], y1, 1), Is(g["z1"], z1, 1), Is(g["x2"], x2, 1),
           Is(g["y2"], y2, 1)
    PROVE  LET t == Run(MixedAddFirst, g, <<>>)
           IN  /\ t \in State /\ Is(t["x1"], x1, 1) /\ Is(t["y1"], y1, 1)
               /\ Is(t["z1"], z1, 1) /\ Is(t["z1z1"], z1 * z1, 1)
               /\ Is(t["u2"], x2 * (z1 * z1), 1) /\ Is(t["s2"], y2 * (z1 * z1 * z1), 1)
<1> DEFINE zz == z1 * z1
           u2 == x2 * zz
           yz == y2 * zz
           s2 == yz * z1
<1>i. /\ zz \in Int /\ u2 \in Int /\ yz \in Int /\ s2 \in Int
  OBVIOUS
<1> HIDE DEF zz, u2, yz, s2
<1> DEFINE nm == <<>>
<1>n. /\ Called("z1z1", nm) = "z1z1" /\ Called("z1", nm) = "z1" /\ Called("u2", nm) = "u2"
      /\ Called("x2", nm) = "x2" /\ Called("s2", nm) = "s2" /\ Called("y2", nm) = "y2"
      /\ Called("x1", nm) = "x1" /\ Called("y1", nm) = "y1"
  BY CalledPlain
<1>r. /\ "z1z1" \in Registers /\ "z1" \in Registers /\ "u2" \in Registers
      /\ "x2" \in Registers /\ "s2" \in Registers /\ "y2" \in Registers /\ "x1" \in Registers
      /\ "y1" \in Registers
  BY DEF Registers
<1> HIDE DEF nm
<1>p. PICK st : States(MixedAddFirst, g, nm, 8, st) /\ Run(MixedAddFirst, g, nm) = st[8]
  <2>1. Len(MixedAddFirst) = 8 /\ Len(MixedAddFirst) \in Nat
    BY DEF MixedAddFirst
  <2> QED BY <2>1, RunIs
<1>q. st[0] = g /\ \A k \in 1..8 : st[k] = Step(st[k - 1], MixedAddFirst[k], nm)
  BY <1>p DEF States
<1>0. /\ st[0] \in State /\ Is(st[0]["z1"], z1, 1) /\ Is(st[0]["x2"], x2, 1)
      /\ Is(st[0]["y2"], y2, 1) /\ Is(st[0]["x1"], x1, 1) /\ Is(st[0]["y1"], y1, 1)
  BY <1>q
<1>1. /\ st[1] \in State /\ Is(st[1]["z1z1"], zz, 1) /\ Is(st[1]["z1"], z1, 1)
      /\ Is(st[1]["x2"], x2, 1) /\ Is(st[1]["y2"], y2, 1) /\ Is(st[1]["x1"], x1, 1)
      /\ Is(st[1]["y1"], y1, 1)
  <2>1. st[1] = Step(st[0], Mul2("z1z1", "z1", "z1"), nm)
    BY <1>q DEF MixedAddFirst, SquareVal, Mul2
  <2>3. /\ Leaves(st[0], Mul2("z1z1", "z1", "z1"), nm, "z1z1", st[1])
        /\ Is(st[1]["z1z1"], z1 * z1, 1)
    BY <1>0, <1>n, <1>r, <2>1, <1>i, MulStep, SMTT(30) DEF MulMax
  <2>4. z1 * z1 = zz
    BY <1>i DEF zz
  <2> QED BY <1>0, <1>r, <2>3, <2>4 DEF Leaves
<1>2. /\ st[2] \in State /\ Is(st[2]["z1z1"], zz, 1) /\ Is(st[2]["z1"], z1, 1)
      /\ Is(st[2]["u2"], x2, 1) /\ Is(st[2]["y2"], y2, 1) /\ Is(st[2]["x1"], x1, 1)
      /\ Is(st[2]["y1"], y1, 1)
  <2>1. st[2] = Step(st[1], Set("u2", "x2"), nm)
    BY <1>q DEF MixedAddFirst, Set
  <2>3. /\ Leaves(st[1], Set("u2", "x2"), nm, "u2", st[2])
        /\ Is(st[2]["u2"], x2, 1)
    BY <1>1, <1>n, <1>r, <2>1, <1>i, SetStep
  <2> QED BY <1>1, <1>r, <2>3 DEF Leaves
<1>3. /\ st[3] \in State /\ Is(st[3]["z1z1"], zz, 1) /\ Is(st[3]["z1"], z1, 1)
      /\ Is(st[3]["u2"], u2, 1) /\ Is(st[3]["y2"], y2, 1) /\ Is(st[3]["x1"], x1, 1)
      /\ Is(st[3]["y1"], y1, 1)
  <2>1. st[3] = Step(st[2], Mul2("u2", "u2", "z1z1"), nm)
    BY <1>q DEF MixedAddFirst, Mul, Mul2
  <2>3. /\ Leaves(st[2], Mul2("u2", "u2", "z1z1"), nm, "u2", st[3])
        /\ Is(st[3]["u2"], x2 * zz, 1)
    BY <1>2, <1>n, <1>r, <2>1, <1>i, MulStep, SMTT(30) DEF MulMax
  <2>4. x2 * zz = u2
    BY <1>i DEF u2
  <2> QED BY <1>2, <1>r, <2>3, <2>4 DEF Leaves
<1>4. /\ st[4] \in State /\ Is(st[4]["z1z1"], zz, 1) /\ Is(st[4]["z1"], z1, 1)
      /\ Is(st[4]["u2"], u2, 1) /\ Is(st[4]["y2"], y2, 1) /\ Is(st[4]["x1"], x1, 1)
      /\ Is(st[4]["y1"], y1, 1)
  <2>1. st[4] = Step(st[3], Normalize("u2"), nm)
    BY <1>q DEF MixedAddFirst, Normalize
  <2>2. /\ st[3] \in State /\ Is(st[3]["u2"], u2, 1) /\ Called("u2", nm) = "u2"
        /\ "u2" \in Registers /\ u2 \in Int
    BY <1>3, <1>n, <1>r, <1>i
  <2>3. /\ Leaves(st[3], Normalize("u2"), nm, "u2", st[4])
        /\ Is(st[4]["u2"], u2, 1)
    BY <2>1, <2>2, NormalizeStep
  <2> QED BY <1>3, <1>r, <2>3 DEF Leaves
<1>5. /\ st[5] \in State /\ Is(st[5]["z1z1"], zz, 1) /\ Is(st[5]["z1"], z1, 1)
      /\ Is(st[5]["u2"], u2, 1) /\ Is(st[5]["s2"], y2, 1) /\ Is(st[5]["x1"], x1, 1)
      /\ Is(st[5]["y1"], y1, 1)
  <2>1. st[5] = Step(st[4], Set("s2", "y2"), nm)
    BY <1>q DEF MixedAddFirst, Set
  <2>3. /\ Leaves(st[4], Set("s2", "y2"), nm, "s2", st[5])
        /\ Is(st[5]["s2"], y2, 1)
    BY <1>4, <1>n, <1>r, <2>1, <1>i, SetStep
  <2> QED BY <1>4, <1>r, <2>3 DEF Leaves
<1>6. /\ st[6] \in State /\ Is(st[6]["z1z1"], zz, 1) /\ Is(st[6]["z1"], z1, 1)
      /\ Is(st[6]["u2"], u2, 1) /\ Is(st[6]["s2"], yz, 1) /\ Is(st[6]["x1"], x1, 1)
      /\ Is(st[6]["y1"], y1, 1)
  <2>1. st[6] = Step(st[5], Mul2("s2", "s2", "z1z1"), nm)
    BY <1>q DEF MixedAddFirst, Mul, Mul2
  <2>3. /\ Leaves(st[5], Mul2("s2", "s2", "z1z1"), nm, "s2", st[6])
        /\ Is(st[6]["s2"], y2 * zz, 1)
    BY <1>5, <1>n, <1>r, <2>1, <1>i, MulStep, SMTT(30) DEF MulMax
  <2>4. y2 * zz = yz
    BY <1>i DEF yz
  <2> QED BY <1>5, <1>r, <2>3, <2>4 DEF Leaves
<1>7. /\ st[7] \in State /\ Is(st[7]["z1z1"], zz, 1) /\ Is(st[7]["z1"], z1, 1)
      /\ Is(st[7]["u2"], u2, 1) /\ Is(st[7]["s2"], s2, 1) /\ Is(st[7]["x1"], x1, 1)
      /\ Is(st[7]["y1"], y1, 1)
  <2>1. st[7] = Step(st[6], Mul2("s2", "s2", "z1"), nm)
    BY <1>q DEF MixedAddFirst, Mul, Mul2
  <2>2. /\ st[6] \in State /\ Is(st[6][Called("s2", nm)], yz, 1)
        /\ Is(st[6][Called("z1", nm)], z1, 1) /\ Called("s2", nm) = "s2"
        /\ Called("z1", nm) = "z1" /\ "s2" \in Registers /\ yz \in Int
    BY <1>6, <1>n, <1>r, <1>i
  <2>3. /\ Leaves(st[6], Mul2("s2", "s2", "z1"), nm, "s2", st[7])
        /\ Is(st[7]["s2"], yz * z1, 1)
    BY <2>1, <2>2, MulStep DEF MulMax
  <2>4. yz * z1 = s2
    BY <1>i DEF s2
  <2> QED BY <1>6, <1>r, <2>3, <2>4 DEF Leaves
<1>8. /\ st[8] \in State /\ Is(st[8]["z1z1"], zz, 1) /\ Is(st[8]["z1"], z1, 1)
      /\ Is(st[8]["u2"], u2, 1) /\ Is(st[8]["s2"], s2, 1) /\ Is(st[8]["x1"], x1, 1)
      /\ Is(st[8]["y1"], y1, 1)
  <2>1. st[8] = Step(st[7], Normalize("s2"), nm)
    BY <1>q DEF MixedAddFirst, Normalize
  <2>2. /\ st[7] \in State /\ Is(st[7]["s2"], s2, 1) /\ Called("s2", nm) = "s2"
        /\ "s2" \in Registers /\ s2 \in Int
    BY <1>7, <1>n, <1>r, <1>i
  <2>3. /\ Leaves(st[7], Normalize("s2"), nm, "s2", st[8])
        /\ Is(st[8]["s2"], s2, 1)
    BY <2>1, <2>2, NormalizeStep
  <2> QED BY <1>7, <1>r, <2>3 DEF Leaves
<1>e. /\ zz = z1 * z1
      /\ u2 = x2 * (z1 * z1)
      /\ s2 = y2 * (z1 * z1 * z1)
  BY DEF zz, u2, yz, s2
<1> QED BY <1>p, <1>8, <1>e DEF nm

LEMMA MixedAddRestGives ==
    ASSUME NEW g \in State, NEW which \in Ways, NEW x1 \in Int, NEW y1 \in Int, NEW z1 \in Int,
           NEW u2 \in Int, NEW s2 \in Int,
           Is(g["x1"], x1, 1), Is(g["y1"], y1, 1), Is(g["z1"], z1, 1),
           Is(g["z1z1"], z1 * z1, 1), Is(g["u2"], u2, 1), Is(g["s2"], s2, 1)
    PROVE  LET t == Run(MixedAddRest, g, Alias(which))
           IN  /\ t \in State
               /\ Is(t[Called("x3", Alias(which))], 4 * SumX(x1, u2 - x1, s2 - y1), 5)
               /\ Is(t[Called("y3", Alias(which))], 8 * SumY(x1, y1, u2 - x1, s2 - y1), 4)
               /\ Is(t[Called("z3", Alias(which))], 2 * (z1 * (u2 - x1)), 4)
<1> DEFINE h == u2 - x1
           hh == h * h
           i == 4 * hh
           j == h * i
           r == 2 * (s2 - y1)
           rr == r * r
           v == x1 * i
           x3 == rr - j - 2 * v
           yj == y1 * j
           vx == (v - x3) * r
           y3 == vx - 2 * yj
           zh == (z1 + h) * (z1 + h)
           z3 == zh - (z1 * z1) - hh
           nx1 == -x1
           ny1 == -y1
           nx3 == -((v * 2) + j)
           nx3x == -x3
           ny3 == -(yj * 2)
           nz1z1 == -((z1 * z1) + hh)
<1>i. /\ h \in Int /\ hh \in Int /\ i \in Int /\ j \in Int /\ r \in Int /\ rr \in Int
      /\ v \in Int /\ x3 \in Int /\ yj \in Int /\ vx \in Int /\ y3 \in Int /\ zh \in Int
      /\ z3 \in Int /\ nx1 \in Int /\ ny1 \in Int /\ nx3 \in Int /\ nx3x \in Int
      /\ ny3 \in Int /\ nz1z1 \in Int
  OBVIOUS
<1> HIDE DEF h, hh, i, j, r, rr, v, x3, yj, vx, y3, zh, z3, nx1, ny1, nx3, nx3x, ny3, nz1z1
<1> DEFINE nm == Alias(which)
           X == Called("x3", nm)
           Y == Called("y3", nm)
           Z == Called("z3", nm)
<1>m. /\ X \in {"x3", "x1", "x2"} /\ Y \in {"y3", "y1", "y2"} /\ Z \in {"z3", "z1", "z2"}
  BY CalledIs
<1>n. /\ Called("x3", nm) = X /\ Called("y3", nm) = Y /\ Called("z3", nm) = Z
      /\ Called("t1", nm) = "t1" /\ Called("x1", nm) = "x1" /\ Called("h", nm) = "h"
      /\ Called("u2", nm) = "u2" /\ Called("hh", nm) = "hh" /\ Called("i", nm) = "i"
      /\ Called("j", nm) = "j" /\ Called("t2", nm) = "t2" /\ Called("y1", nm) = "y1"
      /\ Called("r", nm) = "r" /\ Called("s2", nm) = "s2" /\ Called("rr", nm) = "rr"
      /\ Called("v", nm) = "v" /\ Called("t3", nm) = "t3" /\ Called("z1", nm) = "z1"
      /\ Called("z1z1", nm) = "z1z1"
  BY CalledIs DEF Registers, Plain
<1>r. /\ "t1" \in Registers /\ "x1" \in Registers /\ "h" \in Registers /\ "u2" \in Registers
      /\ "hh" \in Registers /\ "i" \in Registers /\ "j" \in Registers /\ "t2" \in Registers
      /\ "y1" \in Registers /\ "r" \in Registers /\ "s2" \in Registers /\ "rr" \in Registers
      /\ "v" \in Registers /\ "t3" \in Registers /\ "z1" \in Registers
      /\ "z1z1" \in Registers /\ X \in Registers /\ Y \in Registers /\ Z \in Registers
  BY <1>m DEF Registers
<1> HIDE DEF nm, X, Y, Z
<1>p. PICK st : States(MixedAddRest, g, nm, 30, st) /\ Run(MixedAddRest, g, nm) = st[30]
  <2>1. Len(MixedAddRest) = 30 /\ Len(MixedAddRest) \in Nat
    BY DEF MixedAddRest
  <2> QED BY <2>1, RunIs
<1>q. st[0] = g /\ \A k \in 1..30 : st[k] = Step(st[k - 1], MixedAddRest[k], nm)
  BY <1>p DEF States
<1>0. /\ st[0] \in State /\ Is(st[0]["x1"], x1, 1) /\ Is(st[0]["u2"], u2, 1)
      /\ Is(st[0]["y1"], y1, 1) /\ Is(st[0]["s2"], s2, 1) /\ Is(st[0]["z1"], z1, 1)
      /\ Is(st[0]["z1z1"], z1 * z1, 1)
  BY <1>q
<1>1. /\ st[1] \in State /\ Is(st[1]["t1"], nx1, 2) /\ Is(st[1]["x1"], x1, 1)
      /\ Is(st[1]["u2"], u2, 1) /\ Is(st[1]["y1"], y1, 1) /\ Is(st[1]["s2"], s2, 1)
      /\ Is(st[1]["z1"], z1, 1) /\ Is(st[1]["z1z1"], z1 * z1, 1)
  <2>1. st[1] = Step(st[0], NegateOf("t1", "x1", 1), nm)
    BY <1>q DEF MixedAddRest, NegateOf
  <2>3. /\ Leaves(st[0], NegateOf("t1", "x1", 1), nm, "t1", st[1])
        /\ Is(st[1]["t1"], -x1, 2)
    BY <1>0, <1>n, <1>r, <2>1, <1>i, NegateStep, SMTT(30) DEF MaxMagnitude
  <2>4. -x1 = nx1
    BY <1>i DEF nx1
  <2> QED BY <1>0, <1>m, <1>r, <2>3, <2>4 DEF Leaves
<1>2. /\ st[2] \in State /\ Is(st[2]["x1"], x1, 1) /\ Is(st[2]["h"], h, 3)
      /\ Is(st[2]["y1"], y1, 1) /\ Is(st[2]["s2"], s2, 1) /\ Is(st[2]["z1"], z1, 1)
      /\ Is(st[2]["z1z1"], z1 * z1, 1)
  <2>1. st[2] = Step(st[1], Add2("h", "u2", "t1"), nm)
    BY <1>q DEF MixedAddRest, Add2
  <2>3. /\ Leaves(st[1], Add2("h", "u2", "t1"), nm, "h", st[2])
        /\ Is(st[2]["h"], u2 + nx1, 3)
    BY <1>1, <1>n, <1>r, <2>1, <1>i, AddStep, SMTT(30) DEF MaxMagnitude
  <2>4. u2 + nx1 = h
    BY <1>i DEF h, nx1
  <2> QED BY <1>1, <1>m, <1>r, <2>3, <2>4 DEF Leaves
<1>3. /\ st[3] \in State /\ Is(st[3]["x1"], x1, 1) /\ Is(st[3]["h"], h, 3)
      /\ Is(st[3]["hh"], hh, 1) /\ Is(st[3]["y1"], y1, 1) /\ Is(st[3]["s2"], s2, 1)
      /\ Is(st[3]["z1"], z1, 1) /\ Is(st[3]["z1z1"], z1 * z1, 1)
  <2>1. st[3] = Step(st[2], Mul2("hh", "h", "h"), nm)
    BY <1>q DEF MixedAddRest, SquareVal, Mul2
  <2>3. /\ Leaves(st[2], Mul2("hh", "h", "h"), nm, "hh", st[3])
        /\ Is(st[3]["hh"], h * h, 1)
    BY <1>2, <1>n, <1>r, <2>1, <1>i, MulStep, SMTT(30) DEF MulMax
  <2>4. h * h = hh
    BY <1>i DEF hh
  <2> QED BY <1>2, <1>m, <1>r, <2>3, <2>4 DEF Leaves
<1>4. /\ st[4] \in State /\ Is(st[4]["x1"], x1, 1) /\ Is(st[4]["h"], h, 3)
      /\ Is(st[4]["hh"], hh, 1) /\ Is(st[4]["i"], hh, 1) /\ Is(st[4]["y1"], y1, 1)
      /\ Is(st[4]["s2"], s2, 1) /\ Is(st[4]["z1"], z1, 1) /\ Is(st[4]["z1z1"], z1 * z1, 1)
  <2>1. st[4] = Step(st[3], Set("i", "hh"), nm)
    BY <1>q DEF MixedAddRest, Set
  <2>3. /\ Leaves(st[3], Set("i", "hh"), nm, "i", st[4])
        /\ Is(st[4]["i"], hh, 1)
    BY <1>3, <1>n, <1>r, <2>1, <1>i, SetStep
  <2> QED BY <1>3, <1>m, <1>r, <2>3 DEF Leaves
<1>5. /\ st[5] \in State /\ Is(st[5]["x1"], x1, 1) /\ Is(st[5]["h"], h, 3)
      /\ Is(st[5]["hh"], hh, 1) /\ Is(st[5]["i"], i, 4) /\ Is(st[5]["y1"], y1, 1)
      /\ Is(st[5]["s2"], s2, 1) /\ Is(st[5]["z1"], z1, 1) /\ Is(st[5]["z1z1"], z1 * z1, 1)
  <2>1. st[5] = Step(st[4], MulInt("i", 4), nm)
    BY <1>q DEF MixedAddRest, MulInt
  <2>3. /\ Leaves(st[4], MulInt("i", 4), nm, "i", st[5])
        /\ Is(st[5]["i"], hh * 4, 4)
    BY <1>4, <1>n, <1>r, <2>1, <1>i, IntStep DEF MaxMagnitude
  <2>4. hh * 4 = i
    BY <1>i DEF i
  <2> QED BY <1>4, <1>m, <1>r, <2>3, <2>4 DEF Leaves
<1>6. /\ st[6] \in State /\ Is(st[6]["x1"], x1, 1) /\ Is(st[6]["h"], h, 3)
      /\ Is(st[6]["hh"], hh, 1) /\ Is(st[6]["i"], i, 4) /\ Is(st[6]["j"], j, 1)
      /\ Is(st[6]["y1"], y1, 1) /\ Is(st[6]["s2"], s2, 1) /\ Is(st[6]["z1"], z1, 1)
      /\ Is(st[6]["z1z1"], z1 * z1, 1)
  <2>1. st[6] = Step(st[5], Mul2("j", "h", "i"), nm)
    BY <1>q DEF MixedAddRest, Mul2
  <2>3. /\ Leaves(st[5], Mul2("j", "h", "i"), nm, "j", st[6])
        /\ Is(st[6]["j"], h * i, 1)
    BY <1>5, <1>n, <1>r, <2>1, <1>i, MulStep, SMTT(30) DEF MulMax
  <2>4. h * i = j
    BY <1>i DEF j
  <2> QED BY <1>5, <1>m, <1>r, <2>3, <2>4 DEF Leaves
<1>7. /\ st[7] \in State /\ Is(st[7]["x1"], x1, 1) /\ Is(st[7]["h"], h, 3)
      /\ Is(st[7]["hh"], hh, 1) /\ Is(st[7]["i"], i, 4) /\ Is(st[7]["j"], j, 1)
      /\ Is(st[7]["t2"], ny1, 2) /\ Is(st[7]["y1"], y1, 1) /\ Is(st[7]["s2"], s2, 1)
      /\ Is(st[7]["z1"], z1, 1) /\ Is(st[7]["z1z1"], z1 * z1, 1)
  <2>1. st[7] = Step(st[6], NegateOf("t2", "y1", 1), nm)
    BY <1>q DEF MixedAddRest, NegateOf
  <2>3. /\ Leaves(st[6], NegateOf("t2", "y1", 1), nm, "t2", st[7])
        /\ Is(st[7]["t2"], -y1, 2)
    BY <1>6, <1>n, <1>r, <2>1, <1>i, NegateStep, SMTT(30) DEF MaxMagnitude
  <2>4. -y1 = ny1
    BY <1>i DEF ny1
  <2> QED BY <1>6, <1>m, <1>r, <2>3, <2>4 DEF Leaves
<1>8. /\ st[8] \in State /\ Is(st[8]["x1"], x1, 1) /\ Is(st[8]["h"], h, 3)
      /\ Is(st[8]["hh"], hh, 1) /\ Is(st[8]["i"], i, 4) /\ Is(st[8]["j"], j, 1)
      /\ Is(st[8]["t2"], ny1, 2) /\ Is(st[8]["y1"], y1, 1) /\ Is(st[8]["r"], s2, 1)
      /\ Is(st[8]["z1"], z1, 1) /\ Is(st[8]["z1z1"], z1 * z1, 1)
  <2>1. st[8] = Step(st[7], Set("r", "s2"), nm)
    BY <1>q DEF MixedAddRest, Set
  <2>3. /\ Leaves(st[7], Set("r", "s2"), nm, "r", st[8])
        /\ Is(st[8]["r"], s2, 1)
    BY <1>7, <1>n, <1>r, <2>1, <1>i, SetStep
  <2> QED BY <1>7, <1>m, <1>r, <2>3 DEF Leaves
<1>9. /\ st[9] \in State /\ Is(st[9]["x1"], x1, 1) /\ Is(st[9]["h"], h, 3)
      /\ Is(st[9]["hh"], hh, 1) /\ Is(st[9]["i"], i, 4) /\ Is(st[9]["j"], j, 1)
      /\ Is(st[9]["y1"], y1, 1) /\ Is(st[9]["r"], s2 + ny1, 3) /\ Is(st[9]["z1"], z1, 1)
      /\ Is(st[9]["z1z1"], z1 * z1, 1)
  <2>1. st[9] = Step(st[8], Add2("r", "r", "t2"), nm)
    BY <1>q DEF MixedAddRest, Add, Add2
  <2>3. /\ Leaves(st[8], Add2("r", "r", "t2"), nm, "r", st[9])
        /\ Is(st[9]["r"], s2 + ny1, 3)
    BY <1>8, <1>n, <1>r, <2>1, <1>i, AddStep, SMTT(30) DEF MaxMagnitude
  <2> QED BY <1>8, <1>m, <1>r, <2>3 DEF Leaves
<1>10. /\ st[10] \in State /\ Is(st[10]["x1"], x1, 1) /\ Is(st[10]["h"], h, 3)
       /\ Is(st[10]["hh"], hh, 1) /\ Is(st[10]["i"], i, 4) /\ Is(st[10]["j"], j, 1)
       /\ Is(st[10]["y1"], y1, 1) /\ Is(st[10]["r"], r, 6) /\ Is(st[10]["z1"], z1, 1)
       /\ Is(st[10]["z1z1"], z1 * z1, 1)
  <2>1. st[10] = Step(st[9], MulInt("r", 2), nm)
    BY <1>q DEF MixedAddRest, MulInt
  <2>3. /\ Leaves(st[9], MulInt("r", 2), nm, "r", st[10])
        /\ Is(st[10]["r"], (s2 + ny1) * 2, 6)
    BY <1>9, <1>n, <1>r, <2>1, <1>i, IntStep DEF MaxMagnitude
  <2>4. (s2 + ny1) * 2 = r
    BY <1>i DEF r, ny1
  <2> QED BY <1>9, <1>m, <1>r, <2>3, <2>4 DEF Leaves
<1>11. /\ st[11] \in State /\ Is(st[11]["x1"], x1, 1) /\ Is(st[11]["h"], h, 3)
       /\ Is(st[11]["hh"], hh, 1) /\ Is(st[11]["i"], i, 4) /\ Is(st[11]["j"], j, 1)
       /\ Is(st[11]["y1"], y1, 1) /\ Is(st[11]["r"], r, 6) /\ Is(st[11]["rr"], rr, 1)
       /\ Is(st[11]["z1"], z1, 1) /\ Is(st[11]["z1z1"], z1 * z1, 1)
  <2>1. st[11] = Step(st[10], Mul2("rr", "r", "r"), nm)
    BY <1>q DEF MixedAddRest, SquareVal, Mul2
  <2>3. /\ Leaves(st[10], Mul2("rr", "r", "r"), nm, "rr", st[11])
        /\ Is(st[11]["rr"], r * r, 1)
    BY <1>10, <1>n, <1>r, <2>1, <1>i, MulStep, SMTT(30) DEF MulMax
  <2>4. r * r = rr
    BY <1>i DEF rr
  <2> QED BY <1>10, <1>m, <1>r, <2>3, <2>4 DEF Leaves
<1>12. /\ st[12] \in State /\ Is(st[12]["h"], h, 3) /\ Is(st[12]["hh"], hh, 1)
       /\ Is(st[12]["j"], j, 1) /\ Is(st[12]["y1"], y1, 1) /\ Is(st[12]["r"], r, 6)
       /\ Is(st[12]["rr"], rr, 1) /\ Is(st[12]["v"], v, 1) /\ Is(st[12]["z1"], z1, 1)
       /\ Is(st[12]["z1z1"], z1 * z1, 1)
  <2>1. st[12] = Step(st[11], Mul2("v", "x1", "i"), nm)
    BY <1>q DEF MixedAddRest, Mul2
  <2>3. /\ Leaves(st[11], Mul2("v", "x1", "i"), nm, "v", st[12])
        /\ Is(st[12]["v"], x1 * i, 1)
    BY <1>11, <1>n, <1>r, <2>1, <1>i, MulStep, SMTT(30) DEF MulMax
  <2>4. x1 * i = v
    BY <1>i DEF v
  <2> QED BY <1>11, <1>m, <1>r, <2>3, <2>4 DEF Leaves
<1>13. /\ st[13] \in State /\ Is(st[13]["h"], h, 3) /\ Is(st[13]["hh"], hh, 1)
       /\ Is(st[13]["j"], j, 1) /\ Is(st[13]["y1"], y1, 1) /\ Is(st[13]["r"], r, 6)
       /\ Is(st[13]["rr"], rr, 1) /\ Is(st[13]["v"], v, 1) /\ Is(st[13][X], v, 1)
       /\ Is(st[13]["z1"], z1, 1) /\ Is(st[13]["z1z1"], z1 * z1, 1)
  <2>1. st[13] = Step(st[12], Set("x3", "v"), nm)
    BY <1>q DEF MixedAddRest, Set
  <2>3. /\ Leaves(st[12], Set("x3", "v"), nm, X, st[13])
        /\ Is(st[13][X], v, 1)
    BY <1>12, <1>n, <1>r, <2>1, <1>i, SetStep
  <2> QED BY <1>12, <1>m, <1>r, <2>3 DEF Leaves
<1>14. /\ st[14] \in State /\ Is(st[14]["h"], h, 3) /\ Is(st[14]["hh"], hh, 1)
       /\ Is(st[14]["j"], j, 1) /\ Is(st[14]["y1"], y1, 1) /\ Is(st[14]["r"], r, 6)
       /\ Is(st[14]["rr"], rr, 1) /\ Is(st[14]["v"], v, 1) /\ Is(st[14][X], v * 2, 2)
       /\ Is(st[14]["z1"], z1, 1) /\ Is(st[14]["z1z1"], z1 * z1, 1)
  <2>1. st[14] = Step(st[13], MulInt("x3", 2), nm)
    BY <1>q DEF MixedAddRest, MulInt
  <2>3. /\ Leaves(st[13], MulInt("x3", 2), nm, X, st[14])
        /\ Is(st[14][X], v * 2, 2)
    BY <1>13, <1>n, <1>r, <2>1, <1>i, IntStep DEF MaxMagnitude
  <2> QED BY <1>13, <1>m, <1>r, <2>3 DEF Leaves
<1>15. /\ st[15] \in State /\ Is(st[15]["h"], h, 3) /\ Is(st[15]["hh"], hh, 1)
       /\ Is(st[15]["j"], j, 1) /\ Is(st[15]["y1"], y1, 1) /\ Is(st[15]["r"], r, 6)
       /\ Is(st[15]["rr"], rr, 1) /\ Is(st[15]["v"], v, 1) /\ Is(st[15][X], (v * 2) + j, 3)
       /\ Is(st[15]["z1"], z1, 1) /\ Is(st[15]["z1z1"], z1 * z1, 1)
  <2>1. st[15] = Step(st[14], Add2("x3", "x3", "j"), nm)
    BY <1>q DEF MixedAddRest, Add, Add2
  <2>3. /\ Leaves(st[14], Add2("x3", "x3", "j"), nm, X, st[15])
        /\ Is(st[15][X], (v * 2) + j, 3)
    BY <1>14, <1>n, <1>r, <2>1, <1>i, AddStep, SMTT(30) DEF MaxMagnitude
  <2> QED BY <1>14, <1>m, <1>r, <2>3 DEF Leaves
<1>16. /\ st[16] \in State /\ Is(st[16]["h"], h, 3) /\ Is(st[16]["hh"], hh, 1)
       /\ Is(st[16]["j"], j, 1) /\ Is(st[16]["y1"], y1, 1) /\ Is(st[16]["r"], r, 6)
       /\ Is(st[16]["rr"], rr, 1) /\ Is(st[16]["v"], v, 1) /\ Is(st[16][X], nx3, 4)
       /\ Is(st[16]["z1"], z1, 1) /\ Is(st[16]["z1z1"], z1 * z1, 1)
  <2>1. st[16] = Step(st[15], NegateOf("x3", "x3", 3), nm)
    BY <1>q DEF MixedAddRest, Negate, NegateOf
  <2>3. /\ Leaves(st[15], NegateOf("x3", "x3", 3), nm, X, st[16])
        /\ Is(st[16][X], -((v * 2) + j), 4)
    BY <1>15, <1>n, <1>r, <2>1, <1>i, NegateStep, SMTT(30) DEF MaxMagnitude
  <2>4. -((v * 2) + j) = nx3
    BY <1>i DEF nx3
  <2> QED BY <1>15, <1>m, <1>r, <2>3, <2>4 DEF Leaves
<1>17. /\ st[17] \in State /\ Is(st[17]["h"], h, 3) /\ Is(st[17]["hh"], hh, 1)
       /\ Is(st[17]["j"], j, 1) /\ Is(st[17]["y1"], y1, 1) /\ Is(st[17]["r"], r, 6)
       /\ Is(st[17]["v"], v, 1) /\ Is(st[17][X], x3, 5) /\ Is(st[17]["z1"], z1, 1)
       /\ Is(st[17]["z1z1"], z1 * z1, 1)
  <2>1. st[17] = Step(st[16], Add2("x3", "x3", "rr"), nm)
    BY <1>q DEF MixedAddRest, Add, Add2
  <2>3. /\ Leaves(st[16], Add2("x3", "x3", "rr"), nm, X, st[17])
        /\ Is(st[17][X], nx3 + rr, 5)
    BY <1>16, <1>n, <1>r, <2>1, <1>i, AddStep, SMTT(30) DEF MaxMagnitude
  <2>4. nx3 + rr = x3
    BY <1>i DEF x3, nx3
  <2> QED BY <1>16, <1>m, <1>r, <2>3, <2>4 DEF Leaves
<1>18. /\ st[18] \in State /\ Is(st[18]["h"], h, 3) /\ Is(st[18]["hh"], hh, 1)
       /\ Is(st[18]["j"], j, 1) /\ Is(st[18]["y1"], y1, 1) /\ Is(st[18]["r"], r, 6)
       /\ Is(st[18]["v"], v, 1) /\ Is(st[18][X], x3, 5) /\ Is(st[18]["t3"], nx3x, 6)
       /\ Is(st[18]["z1"], z1, 1) /\ Is(st[18]["z1z1"], z1 * z1, 1)
  <2>1. st[18] = Step(st[17], NegateOf("t3", "x3", 5), nm)
    BY <1>q DEF MixedAddRest, NegateOf
  <2>3. /\ Leaves(st[17], NegateOf("t3", "x3", 5), nm, "t3", st[18])
        /\ Is(st[18]["t3"], -x3, 6)
    BY <1>17, <1>n, <1>r, <2>1, <1>i, NegateStep, SMTT(30) DEF MaxMagnitude
  <2>4. -x3 = nx3x
    BY <1>i DEF nx3x
  <2> QED BY <1>17, <1>m, <1>r, <2>3, <2>4 DEF Leaves
<1>19. /\ st[19] \in State /\ Is(st[19]["h"], h, 3) /\ Is(st[19]["hh"], hh, 1)
       /\ Is(st[19]["j"], j, 1) /\ Is(st[19]["r"], r, 6) /\ Is(st[19]["v"], v, 1)
       /\ Is(st[19][X], x3, 5) /\ Is(st[19]["t3"], nx3x, 6) /\ Is(st[19][Y], y1, 1)
       /\ Is(st[19]["z1"], z1, 1) /\ Is(st[19]["z1z1"], z1 * z1, 1)
  <2>1. st[19] = Step(st[18], Set("y3", "y1"), nm)
    BY <1>q DEF MixedAddRest, Set
  <2>3. /\ Leaves(st[18], Set("y3", "y1"), nm, Y, st[19])
        /\ Is(st[19][Y], y1, 1)
    BY <1>18, <1>n, <1>r, <2>1, <1>i, SetStep
  <2> QED BY <1>18, <1>m, <1>r, <2>3 DEF Leaves
<1>20. /\ st[20] \in State /\ Is(st[20]["h"], h, 3) /\ Is(st[20]["hh"], hh, 1)
       /\ Is(st[20]["r"], r, 6) /\ Is(st[20]["v"], v, 1) /\ Is(st[20][X], x3, 5)
       /\ Is(st[20]["t3"], nx3x, 6) /\ Is(st[20][Y], yj, 1) /\ Is(st[20]["z1"], z1, 1)
       /\ Is(st[20]["z1z1"], z1 * z1, 1)
  <2>1. st[20] = Step(st[19], Mul2("y3", "y3", "j"), nm)
    BY <1>q DEF MixedAddRest, Mul, Mul2
  <2>3. /\ Leaves(st[19], Mul2("y3", "y3", "j"), nm, Y, st[20])
        /\ Is(st[20][Y], y1 * j, 1)
    BY <1>19, <1>n, <1>r, <2>1, <1>i, MulStep, SMTT(30) DEF MulMax
  <2>4. y1 * j = yj
    BY <1>i DEF yj
  <2> QED BY <1>19, <1>m, <1>r, <2>3, <2>4 DEF Leaves
<1>21. /\ st[21] \in State /\ Is(st[21]["h"], h, 3) /\ Is(st[21]["hh"], hh, 1)
       /\ Is(st[21]["r"], r, 6) /\ Is(st[21]["v"], v, 1) /\ Is(st[21][X], x3, 5)
       /\ Is(st[21]["t3"], nx3x, 6) /\ Is(st[21][Y], yj * 2, 2) /\ Is(st[21]["z1"], z1, 1)
       /\ Is(st[21]["z1z1"], z1 * z1, 1)
  <2>1. st[21] = Step(st[20], MulInt("y3", 2), nm)
    BY <1>q DEF MixedAddRest, MulInt
  <2>3. /\ Leaves(st[20], MulInt("y3", 2), nm, Y, st[21])
        /\ Is(st[21][Y], yj * 2, 2)
    BY <1>20, <1>n, <1>r, <2>1, <1>i, IntStep DEF MaxMagnitude
  <2> QED BY <1>20, <1>m, <1>r, <2>3 DEF Leaves
<1>22. /\ st[22] \in State /\ Is(st[22]["h"], h, 3) /\ Is(st[22]["hh"], hh, 1)
       /\ Is(st[22]["r"], r, 6) /\ Is(st[22]["v"], v, 1) /\ Is(st[22][X], x3, 5)
       /\ Is(st[22]["t3"], nx3x, 6) /\ Is(st[22][Y], ny3, 3) /\ Is(st[22]["z1"], z1, 1)
       /\ Is(st[22]["z1z1"], z1 * z1, 1)
  <2>1. st[22] = Step(st[21], NegateOf("y3", "y3", 2), nm)
    BY <1>q DEF MixedAddRest, Negate, NegateOf
  <2>3. /\ Leaves(st[21], NegateOf("y3", "y3", 2), nm, Y, st[22])
        /\ Is(st[22][Y], -(yj * 2), 3)
    BY <1>21, <1>n, <1>r, <2>1, <1>i, NegateStep, SMTT(30) DEF MaxMagnitude
  <2>4. -(yj * 2) = ny3
    BY <1>i DEF ny3
  <2> QED BY <1>21, <1>m, <1>r, <2>3, <2>4 DEF Leaves
<1>23. /\ st[23] \in State /\ Is(st[23]["h"], h, 3) /\ Is(st[23]["hh"], hh, 1)
       /\ Is(st[23]["r"], r, 6) /\ Is(st[23]["v"], v + nx3x, 7) /\ Is(st[23][X], x3, 5)
       /\ Is(st[23][Y], ny3, 3) /\ Is(st[23]["z1"], z1, 1) /\ Is(st[23]["z1z1"], z1 * z1, 1)
  <2>1. st[23] = Step(st[22], Add2("v", "v", "t3"), nm)
    BY <1>q DEF MixedAddRest, Add, Add2
  <2>3. /\ Leaves(st[22], Add2("v", "v", "t3"), nm, "v", st[23])
        /\ Is(st[23]["v"], v + nx3x, 7)
    BY <1>22, <1>n, <1>r, <2>1, <1>i, AddStep, SMTT(30) DEF MaxMagnitude
  <2> QED BY <1>22, <1>m, <1>r, <2>3 DEF Leaves
<1>24. /\ st[24] \in State /\ Is(st[24]["h"], h, 3) /\ Is(st[24]["hh"], hh, 1)
       /\ Is(st[24]["v"], vx, 1) /\ Is(st[24][X], x3, 5) /\ Is(st[24][Y], ny3, 3)
       /\ Is(st[24]["z1"], z1, 1) /\ Is(st[24]["z1z1"], z1 * z1, 1)
  <2>1. st[24] = Step(st[23], Mul2("v", "v", "r"), nm)
    BY <1>q DEF MixedAddRest, Mul, Mul2
  <2>3. /\ Leaves(st[23], Mul2("v", "v", "r"), nm, "v", st[24])
        /\ Is(st[24]["v"], (v + nx3x) * r, 1)
    BY <1>23, <1>n, <1>r, <2>1, <1>i, MulStep, SMTT(30) DEF MulMax
  <2>4. (v + nx3x) * r = vx
    BY <1>i DEF vx, nx3x
  <2> QED BY <1>23, <1>m, <1>r, <2>3, <2>4 DEF Leaves
<1>25. /\ st[25] \in State /\ Is(st[25]["h"], h, 3) /\ Is(st[25]["hh"], hh, 1)
       /\ Is(st[25][X], x3, 5) /\ Is(st[25][Y], y3, 4) /\ Is(st[25]["z1"], z1, 1)
       /\ Is(st[25]["z1z1"], z1 * z1, 1)
  <2>1. st[25] = Step(st[24], Add2("y3", "y3", "v"), nm)
    BY <1>q DEF MixedAddRest, Add, Add2
  <2>3. /\ Leaves(st[24], Add2("y3", "y3", "v"), nm, Y, st[25])
        /\ Is(st[25][Y], ny3 + vx, 4)
    BY <1>24, <1>n, <1>r, <2>1, <1>i, AddStep, SMTT(30) DEF MaxMagnitude
  <2>4. ny3 + vx = y3
    BY <1>i DEF y3, ny3
  <2> QED BY <1>24, <1>m, <1>r, <2>3, <2>4 DEF Leaves
<1>26. /\ st[26] \in State /\ Is(st[26]["hh"], hh, 1) /\ Is(st[26][X], x3, 5)
       /\ Is(st[26][Y], y3, 4) /\ Is(st[26][Z], z1 + h, 4) /\ Is(st[26]["z1z1"], z1 * z1, 1)
  <2>1. st[26] = Step(st[25], Add2("z3", "z1", "h"), nm)
    BY <1>q DEF MixedAddRest, Add2
  <2>3. /\ Leaves(st[25], Add2("z3", "z1", "h"), nm, Z, st[26])
        /\ Is(st[26][Z], z1 + h, 4)
    BY <1>25, <1>n, <1>r, <2>1, <1>i, AddStep, SMTT(30) DEF MaxMagnitude
  <2> QED BY <1>25, <1>m, <1>r, <2>3 DEF Leaves
<1>27. /\ st[27] \in State /\ Is(st[27]["hh"], hh, 1) /\ Is(st[27][X], x3, 5)
       /\ Is(st[27][Y], y3, 4) /\ Is(st[27][Z], zh, 1) /\ Is(st[27]["z1z1"], z1 * z1, 1)
  <2>1. st[27] = Step(st[26], Mul2("z3", "z3", "z3"), nm)
    BY <1>q DEF MixedAddRest, Square, Mul2
  <2>3. /\ Leaves(st[26], Mul2("z3", "z3", "z3"), nm, Z, st[27])
        /\ Is(st[27][Z], (z1 + h) * (z1 + h), 1)
    BY <1>26, <1>n, <1>r, <2>1, <1>i, MulStep, SMTT(30) DEF MulMax
  <2>4. (z1 + h) * (z1 + h) = zh
    BY <1>i DEF zh
  <2> QED BY <1>26, <1>m, <1>r, <2>3, <2>4 DEF Leaves
<1>28. /\ st[28] \in State /\ Is(st[28][X], x3, 5) /\ Is(st[28][Y], y3, 4)
       /\ Is(st[28][Z], zh, 1) /\ Is(st[28]["z1z1"], (z1 * z1) + hh, 2)
  <2>1. st[28] = Step(st[27], Add2("z1z1", "z1z1", "hh"), nm)
    BY <1>q DEF MixedAddRest, Add, Add2
  <2>3. /\ Leaves(st[27], Add2("z1z1", "z1z1", "hh"), nm, "z1z1", st[28])
        /\ Is(st[28]["z1z1"], (z1 * z1) + hh, 2)
    BY <1>27, <1>n, <1>r, <2>1, <1>i, AddStep, SMTT(30) DEF MaxMagnitude
  <2> QED BY <1>27, <1>m, <1>r, <2>3 DEF Leaves
<1>29. /\ st[29] \in State /\ Is(st[29][X], x3, 5) /\ Is(st[29][Y], y3, 4)
       /\ Is(st[29][Z], zh, 1) /\ Is(st[29]["z1z1"], nz1z1, 3)
  <2>1. st[29] = Step(st[28], NegateOf("z1z1", "z1z1", 2), nm)
    BY <1>q DEF MixedAddRest, Negate, NegateOf
  <2>3. /\ Leaves(st[28], NegateOf("z1z1", "z1z1", 2), nm, "z1z1", st[29])
        /\ Is(st[29]["z1z1"], -((z1 * z1) + hh), 3)
    BY <1>28, <1>n, <1>r, <2>1, <1>i, NegateStep, SMTT(30) DEF MaxMagnitude
  <2>4. -((z1 * z1) + hh) = nz1z1
    BY <1>i DEF nz1z1
  <2> QED BY <1>28, <1>m, <1>r, <2>3, <2>4 DEF Leaves
<1>30. /\ st[30] \in State /\ Is(st[30][X], x3, 5) /\ Is(st[30][Y], y3, 4)
       /\ Is(st[30][Z], z3, 4)
  <2>1. st[30] = Step(st[29], Add2("z3", "z3", "z1z1"), nm)
    BY <1>q DEF MixedAddRest, Add, Add2
  <2>3. /\ Leaves(st[29], Add2("z3", "z3", "z1z1"), nm, Z, st[30])
        /\ Is(st[30][Z], zh + nz1z1, 4)
    BY <1>29, <1>n, <1>r, <2>1, <1>i, AddStep, SMTT(30) DEF MaxMagnitude
  <2>4. zh + nz1z1 = z3
    BY <1>i DEF z3, nz1z1
  <2> QED BY <1>29, <1>m, <1>r, <2>3, <2>4 DEF Leaves
<1>e. /\ x3 = 4 * SumX(x1, u2 - x1, s2 - y1)
      /\ y3 = 8 * SumY(x1, y1, u2 - x1, s2 - y1)
      /\ z3 = 2 * (z1 * (u2 - x1))
  BY DEF h, hh, i, j, r, rr, v, x3, yj, vx, y3, zh, z3, nx1, ny1, nx3, nx3x, ny3, nz1z1, SumX, SumY
<1> QED BY <1>p, <1>30, <1>e DEF nm, X, Y, Z

LEMMA GenericAddFirstGives ==
    ASSUME NEW g \in State, NEW x1 \in Int, NEW y1 \in Int, NEW z1 \in Int, NEW x2 \in Int,
           NEW y2 \in Int, NEW z2 \in Int,
           Is(g["x1"], x1, 1), Is(g["y1"], y1, 1), Is(g["z1"], z1, 1), Is(g["x2"], x2, 1),
           Is(g["y2"], y2, 1), Is(g["z2"], z2, 1)
    PROVE  LET t == Run(GenericAddFirst, g, <<>>)
           IN  /\ t \in State /\ Is(t["z1"], z1, 1) /\ Is(t["z2"], z2, 1)
               /\ Is(t["z1z1"], z1 * z1, 1) /\ Is(t["z2z2"], z2 * z2, 1)
               /\ Is(t["u1"], x1 * (z2 * z2), 1) /\ Is(t["u2"], x2 * (z1 * z1), 1)
               /\ Is(t["s1"], y1 * (z2 * z2 * z2), 1) /\ Is(t["s2"], y2 * (z1 * z1 * z1), 1)
<1> DEFINE zz == z1 * z1
           ww == z2 * z2
           u1 == x1 * ww
           u2 == x2 * zz
           yw == y1 * ww
           s1 == yw * z2
           yz == y2 * zz
           s2 == yz * z1
<1>i. /\ zz \in Int /\ ww \in Int /\ u1 \in Int /\ u2 \in Int /\ yw \in Int /\ s1 \in Int
      /\ yz \in Int /\ s2 \in Int
  OBVIOUS
<1> HIDE DEF zz, ww, u1, u2, yw, s1, yz, s2
<1> DEFINE nm == <<>>
<1>n. /\ Called("z1z1", nm) = "z1z1" /\ Called("z1", nm) = "z1"
      /\ Called("z2z2", nm) = "z2z2" /\ Called("z2", nm) = "z2" /\ Called("u1", nm) = "u1"
      /\ Called("x1", nm) = "x1" /\ Called("u2", nm) = "u2" /\ Called("x2", nm) = "x2"
      /\ Called("s1", nm) = "s1" /\ Called("y1", nm) = "y1" /\ Called("s2", nm) = "s2"
      /\ Called("y2", nm) = "y2"
  BY CalledPlain
<1>r. /\ "z1z1" \in Registers /\ "z1" \in Registers /\ "z2z2" \in Registers
      /\ "z2" \in Registers /\ "u1" \in Registers /\ "x1" \in Registers /\ "u2" \in Registers
      /\ "x2" \in Registers /\ "s1" \in Registers /\ "y1" \in Registers /\ "s2" \in Registers
      /\ "y2" \in Registers
  BY DEF Registers
<1> HIDE DEF nm
<1>p. PICK st : States(GenericAddFirst, g, nm, 16, st) /\ Run(GenericAddFirst, g, nm) = st[16]
  <2>1. Len(GenericAddFirst) = 16 /\ Len(GenericAddFirst) \in Nat
    BY DEF GenericAddFirst
  <2> QED BY <2>1, RunIs
<1>q. st[0] = g /\ \A k \in 1..16 : st[k] = Step(st[k - 1], GenericAddFirst[k], nm)
  BY <1>p DEF States
<1>0. /\ st[0] \in State /\ Is(st[0]["z1"], z1, 1) /\ Is(st[0]["z2"], z2, 1)
      /\ Is(st[0]["x1"], x1, 1) /\ Is(st[0]["x2"], x2, 1) /\ Is(st[0]["y1"], y1, 1)
      /\ Is(st[0]["y2"], y2, 1)
  BY <1>q
<1>1. /\ st[1] \in State /\ Is(st[1]["z1z1"], zz, 1) /\ Is(st[1]["z1"], z1, 1)
      /\ Is(st[1]["z2"], z2, 1) /\ Is(st[1]["x1"], x1, 1) /\ Is(st[1]["x2"], x2, 1)
      /\ Is(st[1]["y1"], y1, 1) /\ Is(st[1]["y2"], y2, 1)
  <2>1. st[1] = Step(st[0], Mul2("z1z1", "z1", "z1"), nm)
    BY <1>q DEF GenericAddFirst, SquareVal, Mul2
  <2>3. /\ Leaves(st[0], Mul2("z1z1", "z1", "z1"), nm, "z1z1", st[1])
        /\ Is(st[1]["z1z1"], z1 * z1, 1)
    BY <1>0, <1>n, <1>r, <2>1, <1>i, MulStep, SMTT(30) DEF MulMax
  <2>4. z1 * z1 = zz
    BY <1>i DEF zz
  <2> QED BY <1>0, <1>r, <2>3, <2>4 DEF Leaves
<1>2. /\ st[2] \in State /\ Is(st[2]["z1z1"], zz, 1) /\ Is(st[2]["z1"], z1, 1)
      /\ Is(st[2]["z2z2"], ww, 1) /\ Is(st[2]["z2"], z2, 1) /\ Is(st[2]["x1"], x1, 1)
      /\ Is(st[2]["x2"], x2, 1) /\ Is(st[2]["y1"], y1, 1) /\ Is(st[2]["y2"], y2, 1)
  <2>1. st[2] = Step(st[1], Mul2("z2z2", "z2", "z2"), nm)
    BY <1>q DEF GenericAddFirst, SquareVal, Mul2
  <2>3. /\ Leaves(st[1], Mul2("z2z2", "z2", "z2"), nm, "z2z2", st[2])
        /\ Is(st[2]["z2z2"], z2 * z2, 1)
    BY <1>1, <1>n, <1>r, <2>1, <1>i, MulStep, SMTT(30) DEF MulMax
  <2>4. z2 * z2 = ww
    BY <1>i DEF ww
  <2> QED BY <1>1, <1>r, <2>3, <2>4 DEF Leaves
<1>3. /\ st[3] \in State /\ Is(st[3]["z1z1"], zz, 1) /\ Is(st[3]["z1"], z1, 1)
      /\ Is(st[3]["z2z2"], ww, 1) /\ Is(st[3]["z2"], z2, 1) /\ Is(st[3]["u1"], x1, 1)
      /\ Is(st[3]["x2"], x2, 1) /\ Is(st[3]["y1"], y1, 1) /\ Is(st[3]["y2"], y2, 1)
  <2>1. st[3] = Step(st[2], Set("u1", "x1"), nm)
    BY <1>q DEF GenericAddFirst, Set
  <2>3. /\ Leaves(st[2], Set("u1", "x1"), nm, "u1", st[3])
        /\ Is(st[3]["u1"], x1, 1)
    BY <1>2, <1>n, <1>r, <2>1, <1>i, SetStep
  <2> QED BY <1>2, <1>r, <2>3 DEF Leaves
<1>4. /\ st[4] \in State /\ Is(st[4]["z1z1"], zz, 1) /\ Is(st[4]["z1"], z1, 1)
      /\ Is(st[4]["z2z2"], ww, 1) /\ Is(st[4]["z2"], z2, 1) /\ Is(st[4]["u1"], u1, 1)
      /\ Is(st[4]["x2"], x2, 1) /\ Is(st[4]["y1"], y1, 1) /\ Is(st[4]["y2"], y2, 1)
  <2>1. st[4] = Step(st[3], Mul2("u1", "u1", "z2z2"), nm)
    BY <1>q DEF GenericAddFirst, Mul, Mul2
  <2>3. /\ Leaves(st[3], Mul2("u1", "u1", "z2z2"), nm, "u1", st[4])
        /\ Is(st[4]["u1"], x1 * ww, 1)
    BY <1>3, <1>n, <1>r, <2>1, <1>i, MulStep, SMTT(30) DEF MulMax
  <2>4. x1 * ww = u1
    BY <1>i DEF u1
  <2> QED BY <1>3, <1>r, <2>3, <2>4 DEF Leaves
<1>5. /\ st[5] \in State /\ Is(st[5]["z1z1"], zz, 1) /\ Is(st[5]["z1"], z1, 1)
      /\ Is(st[5]["z2z2"], ww, 1) /\ Is(st[5]["z2"], z2, 1) /\ Is(st[5]["u1"], u1, 1)
      /\ Is(st[5]["x2"], x2, 1) /\ Is(st[5]["y1"], y1, 1) /\ Is(st[5]["y2"], y2, 1)
  <2>1. st[5] = Step(st[4], Normalize("u1"), nm)
    BY <1>q DEF GenericAddFirst, Normalize
  <2>2. /\ st[4] \in State /\ Is(st[4]["u1"], u1, 1) /\ Called("u1", nm) = "u1"
        /\ "u1" \in Registers /\ u1 \in Int
    BY <1>4, <1>n, <1>r, <1>i
  <2>3. /\ Leaves(st[4], Normalize("u1"), nm, "u1", st[5])
        /\ Is(st[5]["u1"], u1, 1)
    BY <2>1, <2>2, NormalizeStep
  <2> QED BY <1>4, <1>r, <2>3 DEF Leaves
<1>6. /\ st[6] \in State /\ Is(st[6]["z1z1"], zz, 1) /\ Is(st[6]["z1"], z1, 1)
      /\ Is(st[6]["z2z2"], ww, 1) /\ Is(st[6]["z2"], z2, 1) /\ Is(st[6]["u1"], u1, 1)
      /\ Is(st[6]["u2"], x2, 1) /\ Is(st[6]["y1"], y1, 1) /\ Is(st[6]["y2"], y2, 1)
  <2>1. st[6] = Step(st[5], Set("u2", "x2"), nm)
    BY <1>q DEF GenericAddFirst, Set
  <2>3. /\ Leaves(st[5], Set("u2", "x2"), nm, "u2", st[6])
        /\ Is(st[6]["u2"], x2, 1)
    BY <1>5, <1>n, <1>r, <2>1, <1>i, SetStep
  <2> QED BY <1>5, <1>r, <2>3 DEF Leaves
<1>7. /\ st[7] \in State /\ Is(st[7]["z1z1"], zz, 1) /\ Is(st[7]["z1"], z1, 1)
      /\ Is(st[7]["z2z2"], ww, 1) /\ Is(st[7]["z2"], z2, 1) /\ Is(st[7]["u1"], u1, 1)
      /\ Is(st[7]["u2"], u2, 1) /\ Is(st[7]["y1"], y1, 1) /\ Is(st[7]["y2"], y2, 1)
  <2>1. st[7] = Step(st[6], Mul2("u2", "u2", "z1z1"), nm)
    BY <1>q DEF GenericAddFirst, Mul, Mul2
  <2>3. /\ Leaves(st[6], Mul2("u2", "u2", "z1z1"), nm, "u2", st[7])
        /\ Is(st[7]["u2"], x2 * zz, 1)
    BY <1>6, <1>n, <1>r, <2>1, <1>i, MulStep, SMTT(30) DEF MulMax
  <2>4. x2 * zz = u2
    BY <1>i DEF u2
  <2> QED BY <1>6, <1>r, <2>3, <2>4 DEF Leaves
<1>8. /\ st[8] \in State /\ Is(st[8]["z1z1"], zz, 1) /\ Is(st[8]["z1"], z1, 1)
      /\ Is(st[8]["z2z2"], ww, 1) /\ Is(st[8]["z2"], z2, 1) /\ Is(st[8]["u1"], u1, 1)
      /\ Is(st[8]["u2"], u2, 1) /\ Is(st[8]["y1"], y1, 1) /\ Is(st[8]["y2"], y2, 1)
  <2>1. st[8] = Step(st[7], Normalize("u2"), nm)
    BY <1>q DEF GenericAddFirst, Normalize
  <2>2. /\ st[7] \in State /\ Is(st[7]["u2"], u2, 1) /\ Called("u2", nm) = "u2"
        /\ "u2" \in Registers /\ u2 \in Int
    BY <1>7, <1>n, <1>r, <1>i
  <2>3. /\ Leaves(st[7], Normalize("u2"), nm, "u2", st[8])
        /\ Is(st[8]["u2"], u2, 1)
    BY <2>1, <2>2, NormalizeStep
  <2> QED BY <1>7, <1>r, <2>3 DEF Leaves
<1>9. /\ st[9] \in State /\ Is(st[9]["z1z1"], zz, 1) /\ Is(st[9]["z1"], z1, 1)
      /\ Is(st[9]["z2z2"], ww, 1) /\ Is(st[9]["z2"], z2, 1) /\ Is(st[9]["u1"], u1, 1)
      /\ Is(st[9]["u2"], u2, 1) /\ Is(st[9]["s1"], y1, 1) /\ Is(st[9]["y2"], y2, 1)
  <2>1. st[9] = Step(st[8], Set("s1", "y1"), nm)
    BY <1>q DEF GenericAddFirst, Set
  <2>3. /\ Leaves(st[8], Set("s1", "y1"), nm, "s1", st[9])
        /\ Is(st[9]["s1"], y1, 1)
    BY <1>8, <1>n, <1>r, <2>1, <1>i, SetStep
  <2> QED BY <1>8, <1>r, <2>3 DEF Leaves
<1>10. /\ st[10] \in State /\ Is(st[10]["z1z1"], zz, 1) /\ Is(st[10]["z1"], z1, 1)
       /\ Is(st[10]["z2z2"], ww, 1) /\ Is(st[10]["z2"], z2, 1) /\ Is(st[10]["u1"], u1, 1)
       /\ Is(st[10]["u2"], u2, 1) /\ Is(st[10]["s1"], yw, 1) /\ Is(st[10]["y2"], y2, 1)
  <2>1. st[10] = Step(st[9], Mul2("s1", "s1", "z2z2"), nm)
    BY <1>q DEF GenericAddFirst, Mul, Mul2
  <2>3. /\ Leaves(st[9], Mul2("s1", "s1", "z2z2"), nm, "s1", st[10])
        /\ Is(st[10]["s1"], y1 * ww, 1)
    BY <1>9, <1>n, <1>r, <2>1, <1>i, MulStep, SMTT(30) DEF MulMax
  <2>4. y1 * ww = yw
    BY <1>i DEF yw
  <2> QED BY <1>9, <1>r, <2>3, <2>4 DEF Leaves
<1>11. /\ st[11] \in State /\ Is(st[11]["z1z1"], zz, 1) /\ Is(st[11]["z1"], z1, 1)
       /\ Is(st[11]["z2z2"], ww, 1) /\ Is(st[11]["z2"], z2, 1) /\ Is(st[11]["u1"], u1, 1)
       /\ Is(st[11]["u2"], u2, 1) /\ Is(st[11]["s1"], s1, 1) /\ Is(st[11]["y2"], y2, 1)
  <2>1. st[11] = Step(st[10], Mul2("s1", "s1", "z2"), nm)
    BY <1>q DEF GenericAddFirst, Mul, Mul2
  <2>2. /\ st[10] \in State /\ Is(st[10][Called("s1", nm)], yw, 1)
        /\ Is(st[10][Called("z2", nm)], z2, 1) /\ Called("s1", nm) = "s1"
        /\ Called("z2", nm) = "z2" /\ "s1" \in Registers /\ yw \in Int
        /\ 1 \in Nat /\ 1 <= MulMax
    BY <1>10, <1>n, <1>r, <1>i DEF MulMax
  <2>3. /\ Leaves(st[10], Mul2("s1", "s1", "z2"), nm, "s1", st[11])
        /\ Is(st[11]["s1"], yw * z2, 1)
    BY <2>1, <2>2, MulStep
  <2>4. yw * z2 = s1
    BY <1>i DEF s1
  <2> QED BY <1>10, <1>r, <2>3, <2>4 DEF Leaves
<1>12. /\ st[12] \in State /\ Is(st[12]["z1z1"], zz, 1) /\ Is(st[12]["z1"], z1, 1)
       /\ Is(st[12]["z2z2"], ww, 1) /\ Is(st[12]["z2"], z2, 1) /\ Is(st[12]["u1"], u1, 1)
       /\ Is(st[12]["u2"], u2, 1) /\ Is(st[12]["s1"], s1, 1) /\ Is(st[12]["y2"], y2, 1)
  <2>1. st[12] = Step(st[11], Normalize("s1"), nm)
    BY <1>q DEF GenericAddFirst, Normalize
  <2>2. /\ st[11] \in State /\ Is(st[11]["s1"], s1, 1) /\ Called("s1", nm) = "s1"
        /\ "s1" \in Registers /\ s1 \in Int
    BY <1>11, <1>n, <1>r, <1>i
  <2>3. /\ Leaves(st[11], Normalize("s1"), nm, "s1", st[12])
        /\ Is(st[12]["s1"], s1, 1)
    BY <2>1, <2>2, NormalizeStep
  <2> QED BY <1>11, <1>r, <2>3 DEF Leaves
<1>13. /\ st[13] \in State /\ Is(st[13]["z1z1"], zz, 1) /\ Is(st[13]["z1"], z1, 1)
       /\ Is(st[13]["z2z2"], ww, 1) /\ Is(st[13]["z2"], z2, 1) /\ Is(st[13]["u1"], u1, 1)
       /\ Is(st[13]["u2"], u2, 1) /\ Is(st[13]["s1"], s1, 1) /\ Is(st[13]["s2"], y2, 1)
  <2>1. st[13] = Step(st[12], Set("s2", "y2"), nm)
    BY <1>q DEF GenericAddFirst, Set
  <2>3. /\ Leaves(st[12], Set("s2", "y2"), nm, "s2", st[13])
        /\ Is(st[13]["s2"], y2, 1)
    BY <1>12, <1>n, <1>r, <2>1, <1>i, SetStep
  <2> QED BY <1>12, <1>r, <2>3 DEF Leaves
<1>14. /\ st[14] \in State /\ Is(st[14]["z1z1"], zz, 1) /\ Is(st[14]["z1"], z1, 1)
       /\ Is(st[14]["z2z2"], ww, 1) /\ Is(st[14]["z2"], z2, 1) /\ Is(st[14]["u1"], u1, 1)
       /\ Is(st[14]["u2"], u2, 1) /\ Is(st[14]["s1"], s1, 1) /\ Is(st[14]["s2"], yz, 1)
  <2>1. st[14] = Step(st[13], Mul2("s2", "s2", "z1z1"), nm)
    BY <1>q DEF GenericAddFirst, Mul, Mul2
  <2>3. /\ Leaves(st[13], Mul2("s2", "s2", "z1z1"), nm, "s2", st[14])
        /\ Is(st[14]["s2"], y2 * zz, 1)
    BY <1>13, <1>n, <1>r, <2>1, <1>i, MulStep, SMTT(30) DEF MulMax
  <2>4. y2 * zz = yz
    BY <1>i DEF yz
  <2> QED BY <1>13, <1>r, <2>3, <2>4 DEF Leaves
<1>15. /\ st[15] \in State /\ Is(st[15]["z1z1"], zz, 1) /\ Is(st[15]["z1"], z1, 1)
       /\ Is(st[15]["z2z2"], ww, 1) /\ Is(st[15]["z2"], z2, 1) /\ Is(st[15]["u1"], u1, 1)
       /\ Is(st[15]["u2"], u2, 1) /\ Is(st[15]["s1"], s1, 1) /\ Is(st[15]["s2"], s2, 1)
  <2>1. st[15] = Step(st[14], Mul2("s2", "s2", "z1"), nm)
    BY <1>q DEF GenericAddFirst, Mul, Mul2
  <2>3. /\ Leaves(st[14], Mul2("s2", "s2", "z1"), nm, "s2", st[15])
        /\ Is(st[15]["s2"], yz * z1, 1)
    BY <1>14, <1>n, <1>r, <2>1, <1>i, MulStep, SMTT(30) DEF MulMax
  <2>4. yz * z1 = s2
    BY <1>i DEF s2
  <2> QED BY <1>14, <1>r, <2>3, <2>4 DEF Leaves
<1>16. /\ st[16] \in State /\ Is(st[16]["z1z1"], zz, 1) /\ Is(st[16]["z1"], z1, 1)
       /\ Is(st[16]["z2z2"], ww, 1) /\ Is(st[16]["z2"], z2, 1) /\ Is(st[16]["u1"], u1, 1)
       /\ Is(st[16]["u2"], u2, 1) /\ Is(st[16]["s1"], s1, 1) /\ Is(st[16]["s2"], s2, 1)
  <2>1. st[16] = Step(st[15], Normalize("s2"), nm)
    BY <1>q DEF GenericAddFirst, Normalize
  <2>2. /\ st[15] \in State /\ Is(st[15]["s2"], s2, 1) /\ Called("s2", nm) = "s2"
        /\ "s2" \in Registers /\ s2 \in Int
    BY <1>15, <1>n, <1>r, <1>i
  <2>3. /\ Leaves(st[15], Normalize("s2"), nm, "s2", st[16])
        /\ Is(st[16]["s2"], s2, 1)
    BY <2>1, <2>2, NormalizeStep
  <2> QED BY <1>15, <1>r, <2>3 DEF Leaves
<1>e. /\ zz = z1 * z1
      /\ ww = z2 * z2
      /\ u1 = x1 * (z2 * z2)
      /\ u2 = x2 * (z1 * z1)
      /\ s1 = y1 * (z2 * z2 * z2)
      /\ s2 = y2 * (z1 * z1 * z1)
  BY DEF zz, ww, u1, u2, yw, s1, yz, s2
<1> QED BY <1>p, <1>16, <1>e DEF nm

LEMMA GenericAddRestGives ==
    ASSUME NEW g \in State, NEW which \in Ways, NEW z1 \in Int, NEW z2 \in Int, NEW u1 \in Int,
           NEW u2 \in Int, NEW s1 \in Int, NEW s2 \in Int,
           Is(g["z1"], z1, 1), Is(g["z2"], z2, 1), Is(g["z1z1"], z1 * z1, 1),
           Is(g["z2z2"], z2 * z2, 1), Is(g["u1"], u1, 1), Is(g["u2"], u2, 1),
           Is(g["s1"], s1, 1), Is(g["s2"], s2, 1)
    PROVE  LET t == Run(GenericAddRest, g, Alias(which))
           IN  /\ t \in State
               /\ Is(t[Called("x3", Alias(which))], 4 * SumX(u1, u2 - u1, s2 - s1), 5)
               /\ Is(t[Called("y3", Alias(which))], 8 * SumY(u1, s1, u2 - u1, s2 - s1), 4)
               /\ Is(t[Called("z3", Alias(which))], 2 * (z1 * z2 * (u2 - u1)), 1)
<1> DEFINE h == u2 - u1
           i == (2 * h) * (2 * h)
           j == h * i
           r == 2 * (s2 - s1)
           rr == r * r
           v == u1 * i
           x3 == rr - j - 2 * v
           sj == s1 * j
           vx == (v - x3) * r
           y3 == vx - 2 * sj
           zw == (z1 + z2) * (z1 + z2)
           zd == zw - (z1 * z1) - (z2 * z2)
           z3 == zd * h
           nu1 == -u1
           ns1 == -s1
           nx3 == -((v * 2) + j)
           nx3x == -x3
           ny3 == -(sj * 2)
           nz1z1 == -((z1 * z1) + (z2 * z2))
<1>i. /\ h \in Int /\ i \in Int /\ j \in Int /\ r \in Int /\ rr \in Int /\ v \in Int
      /\ x3 \in Int /\ sj \in Int /\ vx \in Int /\ y3 \in Int /\ zw \in Int /\ zd \in Int
      /\ z3 \in Int /\ nu1 \in Int /\ ns1 \in Int /\ nx3 \in Int /\ nx3x \in Int
      /\ ny3 \in Int /\ nz1z1 \in Int
  OBVIOUS
<1> HIDE DEF h, i, j, r, rr, v, x3, sj, vx, y3, zw, zd, z3, nu1, ns1, nx3, nx3x, ny3, nz1z1
<1> DEFINE nm == Alias(which)
           X == Called("x3", nm)
           Y == Called("y3", nm)
           Z == Called("z3", nm)
<1>m. /\ X \in {"x3", "x1", "x2"} /\ Y \in {"y3", "y1", "y2"} /\ Z \in {"z3", "z1", "z2"}
  BY CalledIs
<1>n. /\ Called("x3", nm) = X /\ Called("y3", nm) = Y /\ Called("z3", nm) = Z
      /\ Called("t1", nm) = "t1" /\ Called("u1", nm) = "u1" /\ Called("h", nm) = "h"
      /\ Called("u2", nm) = "u2" /\ Called("i", nm) = "i" /\ Called("j", nm) = "j"
      /\ Called("t2", nm) = "t2" /\ Called("s1", nm) = "s1" /\ Called("r", nm) = "r"
      /\ Called("s2", nm) = "s2" /\ Called("rr", nm) = "rr" /\ Called("v", nm) = "v"
      /\ Called("t3", nm) = "t3" /\ Called("z1", nm) = "z1" /\ Called("z2", nm) = "z2"
      /\ Called("z1z1", nm) = "z1z1" /\ Called("z2z2", nm) = "z2z2"
  BY CalledIs DEF Registers, Plain
<1>r. /\ "t1" \in Registers /\ "u1" \in Registers /\ "h" \in Registers /\ "u2" \in Registers
      /\ "i" \in Registers /\ "j" \in Registers /\ "t2" \in Registers /\ "s1" \in Registers
      /\ "r" \in Registers /\ "s2" \in Registers /\ "rr" \in Registers /\ "v" \in Registers
      /\ "t3" \in Registers /\ "z1" \in Registers /\ "z2" \in Registers
      /\ "z1z1" \in Registers /\ "z2z2" \in Registers /\ X \in Registers /\ Y \in Registers
      /\ Z \in Registers
  BY <1>m DEF Registers
<1> HIDE DEF nm, X, Y, Z
<1>p. PICK st : States(GenericAddRest, g, nm, 30, st) /\ Run(GenericAddRest, g, nm) = st[30]
  <2>1. Len(GenericAddRest) = 30 /\ Len(GenericAddRest) \in Nat
    BY DEF GenericAddRest
  <2> QED BY <2>1, RunIs
<1>q. st[0] = g /\ \A k \in 1..30 : st[k] = Step(st[k - 1], GenericAddRest[k], nm)
  BY <1>p DEF States
<1>0. /\ st[0] \in State /\ Is(st[0]["u1"], u1, 1) /\ Is(st[0]["u2"], u2, 1)
      /\ Is(st[0]["s1"], s1, 1) /\ Is(st[0]["s2"], s2, 1) /\ Is(st[0]["z1"], z1, 1)
      /\ Is(st[0]["z2"], z2, 1) /\ Is(st[0]["z1z1"], z1 * z1, 1)
      /\ Is(st[0]["z2z2"], z2 * z2, 1)
  BY <1>q
<1>1. /\ st[1] \in State /\ Is(st[1]["t1"], nu1, 2) /\ Is(st[1]["u1"], u1, 1)
      /\ Is(st[1]["u2"], u2, 1) /\ Is(st[1]["s1"], s1, 1) /\ Is(st[1]["s2"], s2, 1)
      /\ Is(st[1]["z1"], z1, 1) /\ Is(st[1]["z2"], z2, 1) /\ Is(st[1]["z1z1"], z1 * z1, 1)
      /\ Is(st[1]["z2z2"], z2 * z2, 1)
  <2>1. st[1] = Step(st[0], NegateOf("t1", "u1", 1), nm)
    BY <1>q DEF GenericAddRest, NegateOf
  <2>3. /\ Leaves(st[0], NegateOf("t1", "u1", 1), nm, "t1", st[1])
        /\ Is(st[1]["t1"], -u1, 2)
    BY <1>0, <1>n, <1>r, <2>1, <1>i, NegateStep, SMTT(30) DEF MaxMagnitude
  <2>4. -u1 = nu1
    BY <1>i DEF nu1
  <2> QED BY <1>0, <1>m, <1>r, <2>3, <2>4 DEF Leaves
<1>2. /\ st[2] \in State /\ Is(st[2]["u1"], u1, 1) /\ Is(st[2]["h"], h, 3)
      /\ Is(st[2]["s1"], s1, 1) /\ Is(st[2]["s2"], s2, 1) /\ Is(st[2]["z1"], z1, 1)
      /\ Is(st[2]["z2"], z2, 1) /\ Is(st[2]["z1z1"], z1 * z1, 1)
      /\ Is(st[2]["z2z2"], z2 * z2, 1)
  <2>1. st[2] = Step(st[1], Add2("h", "u2", "t1"), nm)
    BY <1>q DEF GenericAddRest, Add2
  <2>3. /\ Leaves(st[1], Add2("h", "u2", "t1"), nm, "h", st[2])
        /\ Is(st[2]["h"], u2 + nu1, 3)
    BY <1>1, <1>n, <1>r, <2>1, <1>i, AddStep, SMTT(30) DEF MaxMagnitude
  <2>4. u2 + nu1 = h
    BY <1>i DEF h, nu1
  <2> QED BY <1>1, <1>m, <1>r, <2>3, <2>4 DEF Leaves
<1>3. /\ st[3] \in State /\ Is(st[3]["u1"], u1, 1) /\ Is(st[3]["h"], h, 3)
      /\ Is(st[3]["i"], h, 3) /\ Is(st[3]["s1"], s1, 1) /\ Is(st[3]["s2"], s2, 1)
      /\ Is(st[3]["z1"], z1, 1) /\ Is(st[3]["z2"], z2, 1) /\ Is(st[3]["z1z1"], z1 * z1, 1)
      /\ Is(st[3]["z2z2"], z2 * z2, 1)
  <2>1. st[3] = Step(st[2], Set("i", "h"), nm)
    BY <1>q DEF GenericAddRest, Set
  <2>3. /\ Leaves(st[2], Set("i", "h"), nm, "i", st[3])
        /\ Is(st[3]["i"], h, 3)
    BY <1>2, <1>n, <1>r, <2>1, <1>i, SetStep
  <2> QED BY <1>2, <1>m, <1>r, <2>3 DEF Leaves
<1>4. /\ st[4] \in State /\ Is(st[4]["u1"], u1, 1) /\ Is(st[4]["h"], h, 3)
      /\ Is(st[4]["i"], h * 2, 6) /\ Is(st[4]["s1"], s1, 1) /\ Is(st[4]["s2"], s2, 1)
      /\ Is(st[4]["z1"], z1, 1) /\ Is(st[4]["z2"], z2, 1) /\ Is(st[4]["z1z1"], z1 * z1, 1)
      /\ Is(st[4]["z2z2"], z2 * z2, 1)
  <2>1. st[4] = Step(st[3], MulInt("i", 2), nm)
    BY <1>q DEF GenericAddRest, MulInt
  <2>3. /\ Leaves(st[3], MulInt("i", 2), nm, "i", st[4])
        /\ Is(st[4]["i"], h * 2, 6)
    BY <1>3, <1>n, <1>r, <2>1, <1>i, IntStep DEF MaxMagnitude
  <2> QED BY <1>3, <1>m, <1>r, <2>3 DEF Leaves
<1>5. /\ st[5] \in State /\ Is(st[5]["u1"], u1, 1) /\ Is(st[5]["h"], h, 3)
      /\ Is(st[5]["i"], i, 1) /\ Is(st[5]["s1"], s1, 1) /\ Is(st[5]["s2"], s2, 1)
      /\ Is(st[5]["z1"], z1, 1) /\ Is(st[5]["z2"], z2, 1) /\ Is(st[5]["z1z1"], z1 * z1, 1)
      /\ Is(st[5]["z2z2"], z2 * z2, 1)
  <2>1. st[5] = Step(st[4], Mul2("i", "i", "i"), nm)
    BY <1>q DEF GenericAddRest, Square, Mul2
  <2>3. /\ Leaves(st[4], Mul2("i", "i", "i"), nm, "i", st[5])
        /\ Is(st[5]["i"], (h * 2) * (h * 2), 1)
    BY <1>4, <1>n, <1>r, <2>1, <1>i, MulStep, SMTT(30) DEF MulMax
  <2>4. (h * 2) * (h * 2) = i
    BY <1>i DEF i
  <2> QED BY <1>4, <1>m, <1>r, <2>3, <2>4 DEF Leaves
<1>6. /\ st[6] \in State /\ Is(st[6]["u1"], u1, 1) /\ Is(st[6]["h"], h, 3)
      /\ Is(st[6]["i"], i, 1) /\ Is(st[6]["j"], j, 1) /\ Is(st[6]["s1"], s1, 1)
      /\ Is(st[6]["s2"], s2, 1) /\ Is(st[6]["z1"], z1, 1) /\ Is(st[6]["z2"], z2, 1)
      /\ Is(st[6]["z1z1"], z1 * z1, 1) /\ Is(st[6]["z2z2"], z2 * z2, 1)
  <2>1. st[6] = Step(st[5], Mul2("j", "h", "i"), nm)
    BY <1>q DEF GenericAddRest, Mul2
  <2>3. /\ Leaves(st[5], Mul2("j", "h", "i"), nm, "j", st[6])
        /\ Is(st[6]["j"], h * i, 1)
    BY <1>5, <1>n, <1>r, <2>1, <1>i, MulStep, SMTT(30) DEF MulMax
  <2>4. h * i = j
    BY <1>i DEF j
  <2> QED BY <1>5, <1>m, <1>r, <2>3, <2>4 DEF Leaves
<1>7. /\ st[7] \in State /\ Is(st[7]["u1"], u1, 1) /\ Is(st[7]["h"], h, 3)
      /\ Is(st[7]["i"], i, 1) /\ Is(st[7]["j"], j, 1) /\ Is(st[7]["t2"], ns1, 2)
      /\ Is(st[7]["s1"], s1, 1) /\ Is(st[7]["s2"], s2, 1) /\ Is(st[7]["z1"], z1, 1)
      /\ Is(st[7]["z2"], z2, 1) /\ Is(st[7]["z1z1"], z1 * z1, 1)
      /\ Is(st[7]["z2z2"], z2 * z2, 1)
  <2>1. st[7] = Step(st[6], NegateOf("t2", "s1", 1), nm)
    BY <1>q DEF GenericAddRest, NegateOf
  <2>3. /\ Leaves(st[6], NegateOf("t2", "s1", 1), nm, "t2", st[7])
        /\ Is(st[7]["t2"], -s1, 2)
    BY <1>6, <1>n, <1>r, <2>1, <1>i, NegateStep, SMTT(30) DEF MaxMagnitude
  <2>4. -s1 = ns1
    BY <1>i DEF ns1
  <2> QED BY <1>6, <1>m, <1>r, <2>3, <2>4 DEF Leaves
<1>8. /\ st[8] \in State /\ Is(st[8]["u1"], u1, 1) /\ Is(st[8]["h"], h, 3)
      /\ Is(st[8]["i"], i, 1) /\ Is(st[8]["j"], j, 1) /\ Is(st[8]["t2"], ns1, 2)
      /\ Is(st[8]["s1"], s1, 1) /\ Is(st[8]["r"], s2, 1) /\ Is(st[8]["z1"], z1, 1)
      /\ Is(st[8]["z2"], z2, 1) /\ Is(st[8]["z1z1"], z1 * z1, 1)
      /\ Is(st[8]["z2z2"], z2 * z2, 1)
  <2>1. st[8] = Step(st[7], Set("r", "s2"), nm)
    BY <1>q DEF GenericAddRest, Set
  <2>3. /\ Leaves(st[7], Set("r", "s2"), nm, "r", st[8])
        /\ Is(st[8]["r"], s2, 1)
    BY <1>7, <1>n, <1>r, <2>1, <1>i, SetStep
  <2> QED BY <1>7, <1>m, <1>r, <2>3 DEF Leaves
<1>9. /\ st[9] \in State /\ Is(st[9]["u1"], u1, 1) /\ Is(st[9]["h"], h, 3)
      /\ Is(st[9]["i"], i, 1) /\ Is(st[9]["j"], j, 1) /\ Is(st[9]["s1"], s1, 1)
      /\ Is(st[9]["r"], s2 + ns1, 3) /\ Is(st[9]["z1"], z1, 1) /\ Is(st[9]["z2"], z2, 1)
      /\ Is(st[9]["z1z1"], z1 * z1, 1) /\ Is(st[9]["z2z2"], z2 * z2, 1)
  <2>1. st[9] = Step(st[8], Add2("r", "r", "t2"), nm)
    BY <1>q DEF GenericAddRest, Add, Add2
  <2>3. /\ Leaves(st[8], Add2("r", "r", "t2"), nm, "r", st[9])
        /\ Is(st[9]["r"], s2 + ns1, 3)
    BY <1>8, <1>n, <1>r, <2>1, <1>i, AddStep, SMTT(30) DEF MaxMagnitude
  <2> QED BY <1>8, <1>m, <1>r, <2>3 DEF Leaves
<1>10. /\ st[10] \in State /\ Is(st[10]["u1"], u1, 1) /\ Is(st[10]["h"], h, 3)
       /\ Is(st[10]["i"], i, 1) /\ Is(st[10]["j"], j, 1) /\ Is(st[10]["s1"], s1, 1)
       /\ Is(st[10]["r"], r, 6) /\ Is(st[10]["z1"], z1, 1) /\ Is(st[10]["z2"], z2, 1)
       /\ Is(st[10]["z1z1"], z1 * z1, 1) /\ Is(st[10]["z2z2"], z2 * z2, 1)
  <2>1. st[10] = Step(st[9], MulInt("r", 2), nm)
    BY <1>q DEF GenericAddRest, MulInt
  <2>3. /\ Leaves(st[9], MulInt("r", 2), nm, "r", st[10])
        /\ Is(st[10]["r"], (s2 + ns1) * 2, 6)
    BY <1>9, <1>n, <1>r, <2>1, <1>i, IntStep DEF MaxMagnitude
  <2>4. (s2 + ns1) * 2 = r
    BY <1>i DEF r, ns1
  <2> QED BY <1>9, <1>m, <1>r, <2>3, <2>4 DEF Leaves
<1>11. /\ st[11] \in State /\ Is(st[11]["u1"], u1, 1) /\ Is(st[11]["h"], h, 3)
       /\ Is(st[11]["i"], i, 1) /\ Is(st[11]["j"], j, 1) /\ Is(st[11]["s1"], s1, 1)
       /\ Is(st[11]["r"], r, 6) /\ Is(st[11]["rr"], rr, 1) /\ Is(st[11]["z1"], z1, 1)
       /\ Is(st[11]["z2"], z2, 1) /\ Is(st[11]["z1z1"], z1 * z1, 1)
       /\ Is(st[11]["z2z2"], z2 * z2, 1)
  <2>1. st[11] = Step(st[10], Mul2("rr", "r", "r"), nm)
    BY <1>q DEF GenericAddRest, SquareVal, Mul2
  <2>3. /\ Leaves(st[10], Mul2("rr", "r", "r"), nm, "rr", st[11])
        /\ Is(st[11]["rr"], r * r, 1)
    BY <1>10, <1>n, <1>r, <2>1, <1>i, MulStep, SMTT(30) DEF MulMax
  <2>4. r * r = rr
    BY <1>i DEF rr
  <2> QED BY <1>10, <1>m, <1>r, <2>3, <2>4 DEF Leaves
<1>12. /\ st[12] \in State /\ Is(st[12]["h"], h, 3) /\ Is(st[12]["j"], j, 1)
       /\ Is(st[12]["s1"], s1, 1) /\ Is(st[12]["r"], r, 6) /\ Is(st[12]["rr"], rr, 1)
       /\ Is(st[12]["v"], v, 1) /\ Is(st[12]["z1"], z1, 1) /\ Is(st[12]["z2"], z2, 1)
       /\ Is(st[12]["z1z1"], z1 * z1, 1) /\ Is(st[12]["z2z2"], z2 * z2, 1)
  <2>1. st[12] = Step(st[11], Mul2("v", "u1", "i"), nm)
    BY <1>q DEF GenericAddRest, Mul2
  <2>3. /\ Leaves(st[11], Mul2("v", "u1", "i"), nm, "v", st[12])
        /\ Is(st[12]["v"], u1 * i, 1)
    BY <1>11, <1>n, <1>r, <2>1, <1>i, MulStep, SMTT(30) DEF MulMax
  <2>4. u1 * i = v
    BY <1>i DEF v
  <2> QED BY <1>11, <1>m, <1>r, <2>3, <2>4 DEF Leaves
<1>13. /\ st[13] \in State /\ Is(st[13]["h"], h, 3) /\ Is(st[13]["j"], j, 1)
       /\ Is(st[13]["s1"], s1, 1) /\ Is(st[13]["r"], r, 6) /\ Is(st[13]["rr"], rr, 1)
       /\ Is(st[13]["v"], v, 1) /\ Is(st[13][X], v, 1) /\ Is(st[13]["z1"], z1, 1)
       /\ Is(st[13]["z2"], z2, 1) /\ Is(st[13]["z1z1"], z1 * z1, 1)
       /\ Is(st[13]["z2z2"], z2 * z2, 1)
  <2>1. st[13] = Step(st[12], Set("x3", "v"), nm)
    BY <1>q DEF GenericAddRest, Set
  <2>3. /\ Leaves(st[12], Set("x3", "v"), nm, X, st[13])
        /\ Is(st[13][X], v, 1)
    BY <1>12, <1>n, <1>r, <2>1, <1>i, SetStep
  <2> QED BY <1>12, <1>m, <1>r, <2>3 DEF Leaves
<1>14. /\ st[14] \in State /\ Is(st[14]["h"], h, 3) /\ Is(st[14]["j"], j, 1)
       /\ Is(st[14]["s1"], s1, 1) /\ Is(st[14]["r"], r, 6) /\ Is(st[14]["rr"], rr, 1)
       /\ Is(st[14]["v"], v, 1) /\ Is(st[14][X], v * 2, 2) /\ Is(st[14]["z1"], z1, 1)
       /\ Is(st[14]["z2"], z2, 1) /\ Is(st[14]["z1z1"], z1 * z1, 1)
       /\ Is(st[14]["z2z2"], z2 * z2, 1)
  <2>1. st[14] = Step(st[13], MulInt("x3", 2), nm)
    BY <1>q DEF GenericAddRest, MulInt
  <2>3. /\ Leaves(st[13], MulInt("x3", 2), nm, X, st[14])
        /\ Is(st[14][X], v * 2, 2)
    BY <1>13, <1>n, <1>r, <2>1, <1>i, IntStep DEF MaxMagnitude
  <2> QED BY <1>13, <1>m, <1>r, <2>3 DEF Leaves
<1>15. /\ st[15] \in State /\ Is(st[15]["h"], h, 3) /\ Is(st[15]["j"], j, 1)
       /\ Is(st[15]["s1"], s1, 1) /\ Is(st[15]["r"], r, 6) /\ Is(st[15]["rr"], rr, 1)
       /\ Is(st[15]["v"], v, 1) /\ Is(st[15][X], (v * 2) + j, 3) /\ Is(st[15]["z1"], z1, 1)
       /\ Is(st[15]["z2"], z2, 1) /\ Is(st[15]["z1z1"], z1 * z1, 1)
       /\ Is(st[15]["z2z2"], z2 * z2, 1)
  <2>1. st[15] = Step(st[14], Add2("x3", "x3", "j"), nm)
    BY <1>q DEF GenericAddRest, Add, Add2
  <2>3. /\ Leaves(st[14], Add2("x3", "x3", "j"), nm, X, st[15])
        /\ Is(st[15][X], (v * 2) + j, 3)
    BY <1>14, <1>n, <1>r, <2>1, <1>i, AddStep, SMTT(30) DEF MaxMagnitude
  <2> QED BY <1>14, <1>m, <1>r, <2>3 DEF Leaves
<1>16. /\ st[16] \in State /\ Is(st[16]["h"], h, 3) /\ Is(st[16]["j"], j, 1)
       /\ Is(st[16]["s1"], s1, 1) /\ Is(st[16]["r"], r, 6) /\ Is(st[16]["rr"], rr, 1)
       /\ Is(st[16]["v"], v, 1) /\ Is(st[16][X], nx3, 4) /\ Is(st[16]["z1"], z1, 1)
       /\ Is(st[16]["z2"], z2, 1) /\ Is(st[16]["z1z1"], z1 * z1, 1)
       /\ Is(st[16]["z2z2"], z2 * z2, 1)
  <2>1. st[16] = Step(st[15], NegateOf("x3", "x3", 3), nm)
    BY <1>q DEF GenericAddRest, Negate, NegateOf
  <2>3. /\ Leaves(st[15], NegateOf("x3", "x3", 3), nm, X, st[16])
        /\ Is(st[16][X], -((v * 2) + j), 4)
    BY <1>15, <1>n, <1>r, <2>1, <1>i, NegateStep, SMTT(30) DEF MaxMagnitude
  <2>4. -((v * 2) + j) = nx3
    BY <1>i DEF nx3
  <2> QED BY <1>15, <1>m, <1>r, <2>3, <2>4 DEF Leaves
<1>17. /\ st[17] \in State /\ Is(st[17]["h"], h, 3) /\ Is(st[17]["j"], j, 1)
       /\ Is(st[17]["s1"], s1, 1) /\ Is(st[17]["r"], r, 6) /\ Is(st[17]["v"], v, 1)
       /\ Is(st[17][X], x3, 5) /\ Is(st[17]["z1"], z1, 1) /\ Is(st[17]["z2"], z2, 1)
       /\ Is(st[17]["z1z1"], z1 * z1, 1) /\ Is(st[17]["z2z2"], z2 * z2, 1)
  <2>1. st[17] = Step(st[16], Add2("x3", "x3", "rr"), nm)
    BY <1>q DEF GenericAddRest, Add, Add2
  <2>3. /\ Leaves(st[16], Add2("x3", "x3", "rr"), nm, X, st[17])
        /\ Is(st[17][X], nx3 + rr, 5)
    BY <1>16, <1>n, <1>r, <2>1, <1>i, AddStep, SMTT(30) DEF MaxMagnitude
  <2>4. nx3 + rr = x3
    BY <1>i DEF x3, nx3
  <2> QED BY <1>16, <1>m, <1>r, <2>3, <2>4 DEF Leaves
<1>18. /\ st[18] \in State /\ Is(st[18]["h"], h, 3) /\ Is(st[18]["j"], j, 1)
       /\ Is(st[18]["s1"], s1, 1) /\ Is(st[18]["r"], r, 6) /\ Is(st[18]["v"], v, 1)
       /\ Is(st[18][X], x3, 5) /\ Is(st[18]["t3"], nx3x, 6) /\ Is(st[18]["z1"], z1, 1)
       /\ Is(st[18]["z2"], z2, 1) /\ Is(st[18]["z1z1"], z1 * z1, 1)
       /\ Is(st[18]["z2z2"], z2 * z2, 1)
  <2>1. st[18] = Step(st[17], NegateOf("t3", "x3", 5), nm)
    BY <1>q DEF GenericAddRest, NegateOf
  <2>3. /\ Leaves(st[17], NegateOf("t3", "x3", 5), nm, "t3", st[18])
        /\ Is(st[18]["t3"], -x3, 6)
    BY <1>17, <1>n, <1>r, <2>1, <1>i, NegateStep, SMTT(30) DEF MaxMagnitude
  <2>4. -x3 = nx3x
    BY <1>i DEF nx3x
  <2> QED BY <1>17, <1>m, <1>r, <2>3, <2>4 DEF Leaves
<1>19. /\ st[19] \in State /\ Is(st[19]["h"], h, 3) /\ Is(st[19]["r"], r, 6)
       /\ Is(st[19]["v"], v, 1) /\ Is(st[19][X], x3, 5) /\ Is(st[19]["t3"], nx3x, 6)
       /\ Is(st[19][Y], sj, 1) /\ Is(st[19]["z1"], z1, 1) /\ Is(st[19]["z2"], z2, 1)
       /\ Is(st[19]["z1z1"], z1 * z1, 1) /\ Is(st[19]["z2z2"], z2 * z2, 1)
  <2>1. st[19] = Step(st[18], Mul2("y3", "s1", "j"), nm)
    BY <1>q DEF GenericAddRest, Mul2
  <2>3. /\ Leaves(st[18], Mul2("y3", "s1", "j"), nm, Y, st[19])
        /\ Is(st[19][Y], s1 * j, 1)
    BY <1>18, <1>n, <1>r, <2>1, <1>i, MulStep, SMTT(30) DEF MulMax
  <2>4. s1 * j = sj
    BY <1>i DEF sj
  <2> QED BY <1>18, <1>m, <1>r, <2>3, <2>4 DEF Leaves
<1>20. /\ st[20] \in State /\ Is(st[20]["h"], h, 3) /\ Is(st[20]["r"], r, 6)
       /\ Is(st[20]["v"], v, 1) /\ Is(st[20][X], x3, 5) /\ Is(st[20]["t3"], nx3x, 6)
       /\ Is(st[20][Y], sj * 2, 2) /\ Is(st[20]["z1"], z1, 1) /\ Is(st[20]["z2"], z2, 1)
       /\ Is(st[20]["z1z1"], z1 * z1, 1) /\ Is(st[20]["z2z2"], z2 * z2, 1)
  <2>1. st[20] = Step(st[19], MulInt("y3", 2), nm)
    BY <1>q DEF GenericAddRest, MulInt
  <2>3. /\ Leaves(st[19], MulInt("y3", 2), nm, Y, st[20])
        /\ Is(st[20][Y], sj * 2, 2)
    BY <1>19, <1>n, <1>r, <2>1, <1>i, IntStep DEF MaxMagnitude
  <2> QED BY <1>19, <1>m, <1>r, <2>3 DEF Leaves
<1>21. /\ st[21] \in State /\ Is(st[21]["h"], h, 3) /\ Is(st[21]["r"], r, 6)
       /\ Is(st[21]["v"], v, 1) /\ Is(st[21][X], x3, 5) /\ Is(st[21]["t3"], nx3x, 6)
       /\ Is(st[21][Y], ny3, 3) /\ Is(st[21]["z1"], z1, 1) /\ Is(st[21]["z2"], z2, 1)
       /\ Is(st[21]["z1z1"], z1 * z1, 1) /\ Is(st[21]["z2z2"], z2 * z2, 1)
  <2>1. st[21] = Step(st[20], NegateOf("y3", "y3", 2), nm)
    BY <1>q DEF GenericAddRest, Negate, NegateOf
  <2>3. /\ Leaves(st[20], NegateOf("y3", "y3", 2), nm, Y, st[21])
        /\ Is(st[21][Y], -(sj * 2), 3)
    BY <1>20, <1>n, <1>r, <2>1, <1>i, NegateStep, SMTT(30) DEF MaxMagnitude
  <2>4. -(sj * 2) = ny3
    BY <1>i DEF ny3
  <2> QED BY <1>20, <1>m, <1>r, <2>3, <2>4 DEF Leaves
<1>22. /\ st[22] \in State /\ Is(st[22]["h"], h, 3) /\ Is(st[22]["r"], r, 6)
       /\ Is(st[22]["v"], v + nx3x, 7) /\ Is(st[22][X], x3, 5) /\ Is(st[22][Y], ny3, 3)
       /\ Is(st[22]["z1"], z1, 1) /\ Is(st[22]["z2"], z2, 1) /\ Is(st[22]["z1z1"], z1 * z1, 1)
       /\ Is(st[22]["z2z2"], z2 * z2, 1)
  <2>1. st[22] = Step(st[21], Add2("v", "v", "t3"), nm)
    BY <1>q DEF GenericAddRest, Add, Add2
  <2>3. /\ Leaves(st[21], Add2("v", "v", "t3"), nm, "v", st[22])
        /\ Is(st[22]["v"], v + nx3x, 7)
    BY <1>21, <1>n, <1>r, <2>1, <1>i, AddStep, SMTT(30) DEF MaxMagnitude
  <2> QED BY <1>21, <1>m, <1>r, <2>3 DEF Leaves
<1>23. /\ st[23] \in State /\ Is(st[23]["h"], h, 3) /\ Is(st[23]["v"], vx, 1)
       /\ Is(st[23][X], x3, 5) /\ Is(st[23][Y], ny3, 3) /\ Is(st[23]["z1"], z1, 1)
       /\ Is(st[23]["z2"], z2, 1) /\ Is(st[23]["z1z1"], z1 * z1, 1)
       /\ Is(st[23]["z2z2"], z2 * z2, 1)
  <2>1. st[23] = Step(st[22], Mul2("v", "v", "r"), nm)
    BY <1>q DEF GenericAddRest, Mul, Mul2
  <2>3. /\ Leaves(st[22], Mul2("v", "v", "r"), nm, "v", st[23])
        /\ Is(st[23]["v"], (v + nx3x) * r, 1)
    BY <1>22, <1>n, <1>r, <2>1, <1>i, MulStep, SMTT(30) DEF MulMax
  <2>4. (v + nx3x) * r = vx
    BY <1>i DEF vx, nx3x
  <2> QED BY <1>22, <1>m, <1>r, <2>3, <2>4 DEF Leaves
<1>24. /\ st[24] \in State /\ Is(st[24]["h"], h, 3) /\ Is(st[24][X], x3, 5)
       /\ Is(st[24][Y], y3, 4) /\ Is(st[24]["z1"], z1, 1) /\ Is(st[24]["z2"], z2, 1)
       /\ Is(st[24]["z1z1"], z1 * z1, 1) /\ Is(st[24]["z2z2"], z2 * z2, 1)
  <2>1. st[24] = Step(st[23], Add2("y3", "y3", "v"), nm)
    BY <1>q DEF GenericAddRest, Add, Add2
  <2>3. /\ Leaves(st[23], Add2("y3", "y3", "v"), nm, Y, st[24])
        /\ Is(st[24][Y], ny3 + vx, 4)
    BY <1>23, <1>n, <1>r, <2>1, <1>i, AddStep, SMTT(30) DEF MaxMagnitude
  <2>4. ny3 + vx = y3
    BY <1>i DEF y3, ny3
  <2> QED BY <1>23, <1>m, <1>r, <2>3, <2>4 DEF Leaves
<1>25. /\ st[25] \in State /\ Is(st[25]["h"], h, 3) /\ Is(st[25][X], x3, 5)
       /\ Is(st[25][Y], y3, 4) /\ Is(st[25][Z], z1 + z2, 2) /\ Is(st[25]["z1z1"], z1 * z1, 1)
       /\ Is(st[25]["z2z2"], z2 * z2, 1)
  <2>1. st[25] = Step(st[24], Add2("z3", "z1", "z2"), nm)
    BY <1>q DEF GenericAddRest, Add2
  <2>3. /\ Leaves(st[24], Add2("z3", "z1", "z2"), nm, Z, st[25])
        /\ Is(st[25][Z], z1 + z2, 2)
    BY <1>24, <1>n, <1>r, <2>1, <1>i, AddStep, SMTT(30) DEF MaxMagnitude
  <2> QED BY <1>24, <1>m, <1>r, <2>3 DEF Leaves
<1>26. /\ st[26] \in State /\ Is(st[26]["h"], h, 3) /\ Is(st[26][X], x3, 5)
       /\ Is(st[26][Y], y3, 4) /\ Is(st[26][Z], zw, 1) /\ Is(st[26]["z1z1"], z1 * z1, 1)
       /\ Is(st[26]["z2z2"], z2 * z2, 1)
  <2>1. st[26] = Step(st[25], Mul2("z3", "z3", "z3"), nm)
    BY <1>q DEF GenericAddRest, Square, Mul2
  <2>3. /\ Leaves(st[25], Mul2("z3", "z3", "z3"), nm, Z, st[26])
        /\ Is(st[26][Z], (z1 + z2) * (z1 + z2), 1)
    BY <1>25, <1>n, <1>r, <2>1, <1>i, MulStep, SMTT(30) DEF MulMax
  <2>4. (z1 + z2) * (z1 + z2) = zw
    BY <1>i DEF zw
  <2> QED BY <1>25, <1>m, <1>r, <2>3, <2>4 DEF Leaves
<1>27. /\ st[27] \in State /\ Is(st[27]["h"], h, 3) /\ Is(st[27][X], x3, 5)
       /\ Is(st[27][Y], y3, 4) /\ Is(st[27][Z], zw, 1)
       /\ Is(st[27]["z1z1"], (z1 * z1) + (z2 * z2), 2)
  <2>1. st[27] = Step(st[26], Add2("z1z1", "z1z1", "z2z2"), nm)
    BY <1>q DEF GenericAddRest, Add, Add2
  <2>3. /\ Leaves(st[26], Add2("z1z1", "z1z1", "z2z2"), nm, "z1z1", st[27])
        /\ Is(st[27]["z1z1"], (z1 * z1) + (z2 * z2), 2)
    BY <1>26, <1>n, <1>r, <2>1, <1>i, AddStep, SMTT(30) DEF MaxMagnitude
  <2> QED BY <1>26, <1>m, <1>r, <2>3 DEF Leaves
<1>28. /\ st[28] \in State /\ Is(st[28]["h"], h, 3) /\ Is(st[28][X], x3, 5)
       /\ Is(st[28][Y], y3, 4) /\ Is(st[28][Z], zw, 1) /\ Is(st[28]["z1z1"], nz1z1, 3)
  <2>1. st[28] = Step(st[27], NegateOf("z1z1", "z1z1", 2), nm)
    BY <1>q DEF GenericAddRest, Negate, NegateOf
  <2>3. /\ Leaves(st[27], NegateOf("z1z1", "z1z1", 2), nm, "z1z1", st[28])
        /\ Is(st[28]["z1z1"], -((z1 * z1) + (z2 * z2)), 3)
    BY <1>27, <1>n, <1>r, <2>1, <1>i, NegateStep, SMTT(30) DEF MaxMagnitude
  <2>4. -((z1 * z1) + (z2 * z2)) = nz1z1
    BY <1>i DEF nz1z1
  <2> QED BY <1>27, <1>m, <1>r, <2>3, <2>4 DEF Leaves
<1>29. /\ st[29] \in State /\ Is(st[29]["h"], h, 3) /\ Is(st[29][X], x3, 5)
       /\ Is(st[29][Y], y3, 4) /\ Is(st[29][Z], zd, 4)
  <2>1. st[29] = Step(st[28], Add2("z3", "z3", "z1z1"), nm)
    BY <1>q DEF GenericAddRest, Add, Add2
  <2>3. /\ Leaves(st[28], Add2("z3", "z3", "z1z1"), nm, Z, st[29])
        /\ Is(st[29][Z], zw + nz1z1, 4)
    BY <1>28, <1>n, <1>r, <2>1, <1>i, AddStep, SMTT(30) DEF MaxMagnitude
  <2>4. zw + nz1z1 = zd
    BY <1>i DEF zd, nz1z1
  <2> QED BY <1>28, <1>m, <1>r, <2>3, <2>4 DEF Leaves
<1>30. /\ st[30] \in State /\ Is(st[30][X], x3, 5) /\ Is(st[30][Y], y3, 4)
       /\ Is(st[30][Z], z3, 1)
  <2>1. st[30] = Step(st[29], Mul2("z3", "z3", "h"), nm)
    BY <1>q DEF GenericAddRest, Mul, Mul2
  <2>3. /\ Leaves(st[29], Mul2("z3", "z3", "h"), nm, Z, st[30])
        /\ Is(st[30][Z], zd * h, 1)
    BY <1>29, <1>n, <1>r, <2>1, <1>i, MulStep, SMTT(30) DEF MulMax
  <2>4. zd * h = z3
    BY <1>i DEF z3
  <2> QED BY <1>29, <1>m, <1>r, <2>3, <2>4 DEF Leaves
<1>e. /\ x3 = 4 * SumX(u1, u2 - u1, s2 - s1)
      /\ y3 = 8 * SumY(u1, s1, u2 - u1, s2 - s1)
      /\ z3 = 2 * (z1 * z2 * (u2 - u1))
  BY DEF h, i, j, r, rr, v, x3, sj, vx, y3, zw, zd, z3, nu1, ns1, nx3, nx3x, ny3, nz1z1, SumX, SumY
<1> QED BY <1>p, <1>30, <1>e DEF nm, X, Y, Z

LEMMA DoubleOneGives ==
    ASSUME NEW g \in State, NEW which \in Ways, NEW x1 \in Int, NEW y1 \in Int,
           Is(g["x1"], x1, 1), Is(g["y1"], y1, 1)
    PROVE  LET t == Run(DoubleOne, g, Alias(which))
           IN  /\ t \in State /\ Is(t["x1"], x1, 1) /\ Is(t["y1"], y1, 1)
               /\ Is(t[Called("z3", Alias(which))], y1 * 2, 2)
<1> DEFINE nm == Alias(which)
           Z == Called("z3", nm)
<1>m. /\ Z \in {"z3", "z1", "z2"}
  BY CalledIs
<1>n. /\ Called("z3", nm) = Z
      /\ Called("y1", nm) = "y1" /\ Called("x1", nm) = "x1"
  BY CalledIs DEF Registers, Plain
<1>r. /\ "y1" \in Registers /\ "x1" \in Registers /\ Z \in Registers
  BY <1>m DEF Registers
<1> HIDE DEF nm, Z
<1>p. PICK st : States(DoubleOne, g, nm, 2, st) /\ Run(DoubleOne, g, nm) = st[2]
  <2>1. Len(DoubleOne) = 2 /\ Len(DoubleOne) \in Nat
    BY DEF DoubleOne
  <2> QED BY <2>1, RunIs
<1>q. st[0] = g /\ \A k \in 1..2 : st[k] = Step(st[k - 1], DoubleOne[k], nm)
  BY <1>p DEF States
<1>0. /\ st[0] \in State /\ Is(st[0]["y1"], y1, 1) /\ Is(st[0]["x1"], x1, 1)
  BY <1>q
<1>1. /\ st[1] \in State /\ Is(st[1][Z], y1, 1) /\ Is(st[1]["y1"], y1, 1)
      /\ Is(st[1]["x1"], x1, 1)
  <2>1. st[1] = Step(st[0], Set("z3", "y1"), nm)
    BY <1>q DEF DoubleOne, Set
  <2>3. /\ Leaves(st[0], Set("z3", "y1"), nm, Z, st[1])
        /\ Is(st[1][Z], y1, 1)
    BY <1>0, <1>n, <1>r, <2>1, SetStep
  <2> QED BY <1>0, <1>m, <1>r, <2>3 DEF Leaves
<1>2. /\ st[2] \in State /\ Is(st[2][Z], y1 * 2, 2) /\ Is(st[2]["y1"], y1, 1)
      /\ Is(st[2]["x1"], x1, 1)
  <2>1. st[2] = Step(st[1], MulInt("z3", 2), nm)
    BY <1>q DEF DoubleOne, MulInt
  <2>3. /\ Leaves(st[1], MulInt("z3", 2), nm, Z, st[2])
        /\ Is(st[2][Z], y1 * 2, 2)
    BY <1>1, <1>n, <1>r, <2>1, IntStep DEF MaxMagnitude
  <2> QED BY <1>1, <1>m, <1>r, <2>3 DEF Leaves
<1> QED BY <1>p, <1>2 DEF nm, Z

LEMMA DoubleAnyGives ==
    ASSUME NEW g \in State, NEW which \in Ways, NEW x1 \in Int, NEW y1 \in Int, NEW z1 \in Int,
           Is(g["x1"], x1, 1), Is(g["y1"], y1, 1), Is(g["z1"], z1, 1)
    PROVE  LET t == Run(DoubleAny, g, Alias(which))
           IN  /\ t \in State /\ Is(t["x1"], x1, 1) /\ Is(t["y1"], y1, 1)
               /\ Is(t[Called("z3", Alias(which))], y1 * z1 * 2, 2)
<1> DEFINE yz == y1 * z1
<1>i. /\ yz \in Int
  OBVIOUS
<1> HIDE DEF yz
<1> DEFINE nm == Alias(which)
           Z == Called("z3", nm)
<1>m. /\ Z \in {"z3", "z1", "z2"}
  BY CalledIs
<1>n. /\ Called("z3", nm) = Z
      /\ Called("y1", nm) = "y1" /\ Called("z1", nm) = "z1" /\ Called("x1", nm) = "x1"
  BY CalledIs DEF Registers, Plain
<1>r. /\ "y1" \in Registers /\ "z1" \in Registers /\ "x1" \in Registers /\ Z \in Registers
  BY <1>m DEF Registers
<1> HIDE DEF nm, Z
<1>p. PICK st : States(DoubleAny, g, nm, 2, st) /\ Run(DoubleAny, g, nm) = st[2]
  <2>1. Len(DoubleAny) = 2 /\ Len(DoubleAny) \in Nat
    BY DEF DoubleAny
  <2> QED BY <2>1, RunIs
<1>q. st[0] = g /\ \A k \in 1..2 : st[k] = Step(st[k - 1], DoubleAny[k], nm)
  BY <1>p DEF States
<1>0. /\ st[0] \in State /\ Is(st[0]["y1"], y1, 1) /\ Is(st[0]["z1"], z1, 1)
      /\ Is(st[0]["x1"], x1, 1)
  BY <1>q
<1>1. /\ st[1] \in State /\ Is(st[1][Z], yz, 1) /\ Is(st[1]["y1"], y1, 1)
      /\ Is(st[1]["x1"], x1, 1)
  <2>1. st[1] = Step(st[0], Mul2("z3", "y1", "z1"), nm)
    BY <1>q DEF DoubleAny, Mul2
  <2>3. /\ Leaves(st[0], Mul2("z3", "y1", "z1"), nm, Z, st[1])
        /\ Is(st[1][Z], y1 * z1, 1)
    BY <1>0, <1>n, <1>r, <2>1, <1>i, MulStep, SMTT(30) DEF MulMax
  <2>4. y1 * z1 = yz
    BY <1>i DEF yz
  <2> QED BY <1>0, <1>m, <1>r, <2>3, <2>4 DEF Leaves
<1>2. /\ st[2] \in State /\ Is(st[2][Z], yz * 2, 2) /\ Is(st[2]["y1"], y1, 1)
      /\ Is(st[2]["x1"], x1, 1)
  <2>1. st[2] = Step(st[1], MulInt("z3", 2), nm)
    BY <1>q DEF DoubleAny, MulInt
  <2>3. /\ Leaves(st[1], MulInt("z3", 2), nm, Z, st[2])
        /\ Is(st[2][Z], yz * 2, 2)
    BY <1>1, <1>n, <1>r, <2>1, <1>i, IntStep DEF MaxMagnitude
  <2> QED BY <1>1, <1>m, <1>r, <2>3 DEF Leaves
<1>e. /\ yz * 2 = y1 * z1 * 2
  BY DEF yz
<1> QED BY <1>p, <1>2, <1>e DEF nm, Z

\* The coordinates that the doublings compute, e being
\* 3 * x * x.
TangentX(x, y, e) == e * e - 8 * (x * (y * y))
TangentY(x, y, e) == e * (4 * (x * (y * y)) - TangentX(x, y, e)) - 8 * ((y * y) * (y * y))

LEMMA DoubleRestGives ==
    ASSUME NEW g \in State, NEW which \in Ways, NEW x1 \in Int, NEW y1 \in Int, NEW z3 \in Int,
           NEW ee \in Int,
           Is(g["x1"], x1, 1), Is(g["y1"], y1, 1), Is(g[Called("z3", Alias(which))], z3, 2),
           Cong(P, 3 * (x1 * x1), ee)
    PROVE  LET t == Run(DoubleRest, g, Alias(which))
           IN  /\ t \in State /\ Is(t[Called("x3", Alias(which))], TangentX(x1, y1, ee), 18)
               /\ Is(t[Called("y3", Alias(which))], TangentY(x1, y1, ee), 10)
               /\ Is(t[Called("z3", Alias(which))], z3, 2)
<1> DEFINE xx == x1 * x1
           yy == y1 * y1
           c == yy * yy
           bb == (yy + x1) * (yy + x1)
           dd == 2 * (bb - xx - c)
           ff == ee * ee
           x3 == ff - 2 * dd
           fd == dd - x3
           fe == fd * ee
           y3 == fe - 8 * c
           nd == -(xx + c)
           nx3 == -(dd * 2)
           nx3x == -x3
           ny3 == -(c * 8)
<1>i. /\ xx \in Int /\ yy \in Int /\ c \in Int /\ bb \in Int /\ dd \in Int /\ ff \in Int
      /\ x3 \in Int /\ fd \in Int /\ fe \in Int /\ y3 \in Int /\ nd \in Int /\ nx3 \in Int
      /\ nx3x \in Int /\ ny3 \in Int
  OBVIOUS
<1> HIDE DEF xx, yy, c, bb, dd, ff, x3, fd, fe, y3, nd, nx3, nx3x, ny3
<1> DEFINE nm == Alias(which)
           X == Called("x3", nm)
           Y == Called("y3", nm)
           Z == Called("z3", nm)
<1>m. /\ X \in {"x3", "x1", "x2"} /\ Y \in {"y3", "y1", "y2"} /\ Z \in {"z3", "z1", "z2"}
  BY CalledIs
<1>n. /\ Called("x3", nm) = X /\ Called("y3", nm) = Y /\ Called("z3", nm) = Z
      /\ Called("a", nm) = "a" /\ Called("x1", nm) = "x1" /\ Called("b", nm) = "b"
      /\ Called("y1", nm) = "y1" /\ Called("c", nm) = "c" /\ Called("d", nm) = "d"
      /\ Called("e", nm) = "e" /\ Called("f", nm) = "f"
  BY CalledIs DEF Registers, Plain
<1>r. /\ "a" \in Registers /\ "x1" \in Registers /\ "b" \in Registers /\ "y1" \in Registers
      /\ "c" \in Registers /\ "d" \in Registers /\ "e" \in Registers /\ "f" \in Registers
      /\ X \in Registers /\ Y \in Registers /\ Z \in Registers
  BY <1>m DEF Registers
<1> HIDE DEF nm, X, Y, Z
<1>p. PICK st : States(DoubleRest, g, nm, 25, st) /\ Run(DoubleRest, g, nm) = st[25]
  <2>1. Len(DoubleRest) = 25 /\ Len(DoubleRest) \in Nat
    BY DEF DoubleRest
  <2> QED BY <2>1, RunIs
<1>q. st[0] = g /\ \A k \in 1..25 : st[k] = Step(st[k - 1], DoubleRest[k], nm)
  BY <1>p DEF States
<1>0. /\ st[0] \in State /\ Is(st[0]["x1"], x1, 1) /\ Is(st[0]["y1"], y1, 1)
      /\ Is(st[0][Z], z3, 2)
  BY <1>q DEF nm, Z
<1>1. /\ st[1] \in State /\ Is(st[1]["a"], xx, 1) /\ Is(st[1]["x1"], x1, 1)
      /\ Is(st[1]["y1"], y1, 1) /\ Is(st[1][Z], z3, 2)
  <2>1. st[1] = Step(st[0], Mul2("a", "x1", "x1"), nm)
    BY <1>q DEF DoubleRest, SquareVal, Mul2
  <2>3. /\ Leaves(st[0], Mul2("a", "x1", "x1"), nm, "a", st[1])
        /\ Is(st[1]["a"], x1 * x1, 1)
    BY <1>0, <1>n, <1>r, <2>1, <1>i, MulStep, SMTT(30) DEF MulMax
  <2>4. x1 * x1 = xx
    BY <1>i DEF xx
  <2> QED BY <1>0, <1>m, <1>r, <2>3, <2>4 DEF Leaves
<1>2. /\ st[2] \in State /\ Is(st[2]["a"], xx, 1) /\ Is(st[2]["x1"], x1, 1)
      /\ Is(st[2]["b"], yy, 1) /\ Is(st[2][Z], z3, 2)
  <2>1. st[2] = Step(st[1], Mul2("b", "y1", "y1"), nm)
    BY <1>q DEF DoubleRest, SquareVal, Mul2
  <2>3. /\ Leaves(st[1], Mul2("b", "y1", "y1"), nm, "b", st[2])
        /\ Is(st[2]["b"], y1 * y1, 1)
    BY <1>1, <1>n, <1>r, <2>1, <1>i, MulStep, SMTT(30) DEF MulMax
  <2>4. y1 * y1 = yy
    BY <1>i DEF yy
  <2> QED BY <1>1, <1>m, <1>r, <2>3, <2>4 DEF Leaves
<1>3. /\ st[3] \in State /\ Is(st[3]["a"], xx, 1) /\ Is(st[3]["x1"], x1, 1)
      /\ Is(st[3]["b"], yy, 1) /\ Is(st[3]["c"], c, 1) /\ Is(st[3][Z], z3, 2)
  <2>1. st[3] = Step(st[2], Mul2("c", "b", "b"), nm)
    BY <1>q DEF DoubleRest, SquareVal, Mul2
  <2>3. /\ Leaves(st[2], Mul2("c", "b", "b"), nm, "c", st[3])
        /\ Is(st[3]["c"], yy * yy, 1)
    BY <1>2, <1>n, <1>r, <2>1, <1>i, MulStep, SMTT(30) DEF MulMax
  <2>4. yy * yy = c
    BY <1>i DEF c
  <2> QED BY <1>2, <1>m, <1>r, <2>3, <2>4 DEF Leaves
<1>4. /\ st[4] \in State /\ Is(st[4]["a"], xx, 1) /\ Is(st[4]["b"], yy + x1, 2)
      /\ Is(st[4]["c"], c, 1) /\ Is(st[4][Z], z3, 2)
  <2>1. st[4] = Step(st[3], Add2("b", "b", "x1"), nm)
    BY <1>q DEF DoubleRest, Add, Add2
  <2>3. /\ Leaves(st[3], Add2("b", "b", "x1"), nm, "b", st[4])
        /\ Is(st[4]["b"], yy + x1, 2)
    BY <1>3, <1>n, <1>r, <2>1, <1>i, AddStep, SMTT(30) DEF MaxMagnitude
  <2> QED BY <1>3, <1>m, <1>r, <2>3 DEF Leaves
<1>5. /\ st[5] \in State /\ Is(st[5]["a"], xx, 1) /\ Is(st[5]["b"], bb, 1)
      /\ Is(st[5]["c"], c, 1) /\ Is(st[5][Z], z3, 2)
  <2>1. st[5] = Step(st[4], Mul2("b", "b", "b"), nm)
    BY <1>q DEF DoubleRest, Square, Mul2
  <2>3. /\ Leaves(st[4], Mul2("b", "b", "b"), nm, "b", st[5])
        /\ Is(st[5]["b"], (yy + x1) * (yy + x1), 1)
    <3> DEFINE u == yy + x1
    <3>1. /\ u \in Int /\ st[4] \in State /\ Is(st[4]["b"], u, 2) /\ Called("b", nm) = "b"
          /\ "b" \in Registers
      BY <1>4, <1>n, <1>r, <1>i
    <3> HIDE DEF u
    <3>2. 2 \in Nat /\ 2 <= MulMax
      BY DEF MulMax
    <3>3. /\ Leaves(st[4], Mul2("b", "b", "b"), nm, "b", st[5])
          /\ Is(st[5]["b"], u * u, 1)
      BY <2>1, <3>1, <3>2, MulStep, Zenon
    <3> QED BY <3>3 DEF u
  <2>4. (yy + x1) * (yy + x1) = bb
    BY <1>i DEF bb
  <2> QED BY <1>4, <1>m, <1>r, <2>3, <2>4 DEF Leaves
<1>6. /\ st[6] \in State /\ Is(st[6]["a"], xx, 1) /\ Is(st[6]["b"], bb, 1)
      /\ Is(st[6]["c"], c, 1) /\ Is(st[6]["d"], xx, 1) /\ Is(st[6][Z], z3, 2)
  <2>1. st[6] = Step(st[5], Set("d", "a"), nm)
    BY <1>q DEF DoubleRest, Set
  <2>3. /\ Leaves(st[5], Set("d", "a"), nm, "d", st[6])
        /\ Is(st[6]["d"], xx, 1)
    BY <1>5, <1>n, <1>r, <2>1, <1>i, SetStep
  <2> QED BY <1>5, <1>m, <1>r, <2>3 DEF Leaves
<1>7. /\ st[7] \in State /\ Is(st[7]["a"], xx, 1) /\ Is(st[7]["b"], bb, 1)
      /\ Is(st[7]["c"], c, 1) /\ Is(st[7]["d"], xx + c, 2) /\ Is(st[7][Z], z3, 2)
  <2>1. st[7] = Step(st[6], Add2("d", "d", "c"), nm)
    BY <1>q DEF DoubleRest, Add, Add2
  <2>3. /\ Leaves(st[6], Add2("d", "d", "c"), nm, "d", st[7])
        /\ Is(st[7]["d"], xx + c, 2)
    BY <1>6, <1>n, <1>r, <2>1, <1>i, AddStep, SMTT(30) DEF MaxMagnitude
  <2> QED BY <1>6, <1>m, <1>r, <2>3 DEF Leaves
<1>8. /\ st[8] \in State /\ Is(st[8]["a"], xx, 1) /\ Is(st[8]["b"], bb, 1)
      /\ Is(st[8]["c"], c, 1) /\ Is(st[8]["d"], nd, 3) /\ Is(st[8][Z], z3, 2)
  <2>1. st[8] = Step(st[7], NegateOf("d", "d", 2), nm)
    BY <1>q DEF DoubleRest, Negate, NegateOf
  <2>3. /\ Leaves(st[7], NegateOf("d", "d", 2), nm, "d", st[8])
        /\ Is(st[8]["d"], -(xx + c), 3)
    <3> DEFINE u == xx + c
    <3>1. /\ u \in Int /\ st[7] \in State /\ Is(st[7]["d"], u, 2) /\ Called("d", nm) = "d"
          /\ "d" \in Registers
      BY <1>7, <1>n, <1>r, <1>i
    <3> HIDE DEF u
    <3>2. 2 \in 0..(MaxMagnitude - 1) /\ 2 \in Nat /\ 2 <= 2 /\ 3 \in Nat /\ 3 = 2 + 1
      BY DEF MaxMagnitude
    <3>3. /\ Leaves(st[7], NegateOf("d", "d", 2), nm, "d", st[8])
          /\ Is(st[8]["d"], -u, 3)
      BY <2>1, <3>1, <3>2, NegateStep, SMTT(30)
    <3> QED BY <3>3 DEF u
  <2>4. -(xx + c) = nd
    BY <1>i DEF nd
  <2> QED BY <1>7, <1>m, <1>r, <2>3, <2>4 DEF Leaves
<1>9. /\ st[9] \in State /\ Is(st[9]["a"], xx, 1) /\ Is(st[9]["c"], c, 1)
      /\ Is(st[9]["d"], nd + bb, 4) /\ Is(st[9][Z], z3, 2)
  <2>1. st[9] = Step(st[8], Add2("d", "d", "b"), nm)
    BY <1>q DEF DoubleRest, Add, Add2
  <2>2. /\ st[8] \in State /\ Is(st[8][Called("b", nm)], bb, 1)
        /\ Is(st[8][Called("d", nm)], nd, 3) /\ Called("b", nm) = "b" /\ Called("d", nm) = "d"
        /\ "d" \in Registers /\ bb \in Int /\ nd \in Int
    BY <1>8, <1>n, <1>r, <1>i
  <2>3. /\ Leaves(st[8], Add2("d", "d", "b"), nm, "d", st[9])
        /\ Is(st[9]["d"], nd + bb, 4)
    <3> DEFINE s == st[8]
               t == st[9]
    <3>1. /\ t = Step(s, Add2("d", "d", "b"), nm) /\ s \in State
          /\ Is(s[Called("b", nm)], bb, 1) /\ Is(s[Called("d", nm)], nd, 3)
          /\ Called("d", nm) = "d" /\ "d" \in Registers /\ bb \in Int /\ nd \in Int
      BY <2>1, <2>2
    <3> HIDE DEF s, t
    <3>2. /\ 3 \in Nat /\ 1 \in Nat /\ 4 \in Nat /\ 3 + 1 <= MaxMagnitude /\ 4 = 3 + 1
          /\ "b" # "zero"
      BY DEF MaxMagnitude
    <3>3. Leaves(s, Add2("d", "d", "b"), nm, "d", t) /\ Is(t["d"], nd + bb, 4)
      <4>1. /\ Leaves(s, Add2("d", "d", "b"), nm, "d", Step(s, Add2("d", "d", "b"), nm))
            /\ Is(Step(s, Add2("d", "d", "b"), nm)["d"], nd + bb, 4)
        BY <3>1, <3>2, AddStep, ZenonT(30)
      <4> QED BY <3>1, <4>1
    <3> QED BY <3>3 DEF s, t
  <2> QED BY <1>8, <1>m, <1>r, <2>3 DEF Leaves
<1>10. /\ st[10] \in State /\ Is(st[10]["a"], xx, 1) /\ Is(st[10]["c"], c, 1)
       /\ Is(st[10]["d"], dd, 8) /\ Is(st[10][Z], z3, 2)
  <2>1. st[10] = Step(st[9], MulInt("d", 2), nm)
    BY <1>q DEF DoubleRest, MulInt
  <2>3. /\ Leaves(st[9], MulInt("d", 2), nm, "d", st[10])
        /\ Is(st[10]["d"], (nd + bb) * 2, 8)
    BY <1>9, <1>n, <1>r, <2>1, <1>i, IntStep DEF MaxMagnitude
  <2>4. (nd + bb) * 2 = dd
    BY <1>i DEF dd, nd
  <2> QED BY <1>9, <1>m, <1>r, <2>3, <2>4 DEF Leaves
<1>11. /\ st[11] \in State /\ Is(st[11]["c"], c, 1) /\ Is(st[11]["d"], dd, 8)
       /\ Is(st[11]["e"], xx, 1) /\ Is(st[11][Z], z3, 2)
  <2>1. st[11] = Step(st[10], Set("e", "a"), nm)
    BY <1>q DEF DoubleRest, Set
  <2>3. /\ Leaves(st[10], Set("e", "a"), nm, "e", st[11])
        /\ Is(st[11]["e"], xx, 1)
    BY <1>10, <1>n, <1>r, <2>1, <1>i, SetStep
  <2> QED BY <1>10, <1>m, <1>r, <2>3 DEF Leaves
<1>12. /\ st[12] \in State /\ Is(st[12]["c"], c, 1) /\ Is(st[12]["d"], dd, 8)
       /\ Is(st[12]["e"], ee, 3) /\ Is(st[12][Z], z3, 2)
  <2>1. st[12] = Step(st[11], MulInt("e", 3), nm)
    BY <1>q DEF DoubleRest, MulInt
  <2>2. /\ st[11] \in State /\ Is(st[11]["e"], xx, 1) /\ Called("e", nm) = "e"
        /\ "e" \in Registers /\ xx \in Int
    BY <1>11, <1>n, <1>r, <1>i
  <2>3. /\ Leaves(st[11], MulInt("e", 3), nm, "e", st[12])
        /\ Is(st[12]["e"], xx * 3, 3)
    <3>1. 3 \in Nat /\ 1 \in Nat /\ 1 * 3 <= MaxMagnitude /\ 3 = 1 * 3
      BY DEF MaxMagnitude
    <3> QED BY <2>1, <2>2, <3>1, IntStep, Zenon
  <2>4. Is(st[12]["e"], ee, 3)
    <3>1. xx * 3 \in Int /\ xx * 3 = 3 * (x1 * x1)
      BY <1>i DEF xx
    <3> QED BY <2>3, <3>1, IsCong
  <2> QED BY <1>11, <1>m, <1>r, <2>3, <2>4 DEF Leaves
<1>13. /\ st[13] \in State /\ Is(st[13]["c"], c, 1) /\ Is(st[13]["d"], dd, 8)
       /\ Is(st[13]["e"], ee, 3) /\ Is(st[13]["f"], ff, 1) /\ Is(st[13][Z], z3, 2)
  <2>1. st[13] = Step(st[12], Mul2("f", "e", "e"), nm)
    BY <1>q DEF DoubleRest, SquareVal, Mul2
  <2>3. /\ Leaves(st[12], Mul2("f", "e", "e"), nm, "f", st[13])
        /\ Is(st[13]["f"], ee * ee, 1)
    BY <1>12, <1>n, <1>r, <2>1, <1>i, MulStep, SMTT(30) DEF MulMax
  <2>4. ee * ee = ff
    BY <1>i DEF ff
  <2> QED BY <1>12, <1>m, <1>r, <2>3, <2>4 DEF Leaves
<1>14. /\ st[14] \in State /\ Is(st[14]["c"], c, 1) /\ Is(st[14]["d"], dd, 8)
       /\ Is(st[14]["e"], ee, 3) /\ Is(st[14]["f"], ff, 1) /\ Is(st[14][X], dd, 8)
       /\ Is(st[14][Z], z3, 2)
  <2>1. st[14] = Step(st[13], Set("x3", "d"), nm)
    BY <1>q DEF DoubleRest, Set
  <2>3. /\ Leaves(st[13], Set("x3", "d"), nm, X, st[14])
        /\ Is(st[14][X], dd, 8)
    BY <1>13, <1>n, <1>r, <2>1, <1>i, SetStep
  <2> QED BY <1>13, <1>m, <1>r, <2>3 DEF Leaves
<1>15. /\ st[15] \in State /\ Is(st[15]["c"], c, 1) /\ Is(st[15]["d"], dd, 8)
       /\ Is(st[15]["e"], ee, 3) /\ Is(st[15]["f"], ff, 1) /\ Is(st[15][X], dd * 2, 16)
       /\ Is(st[15][Z], z3, 2)
  <2>1. st[15] = Step(st[14], MulInt("x3", 2), nm)
    BY <1>q DEF DoubleRest, MulInt
  <2>3. /\ Leaves(st[14], MulInt("x3", 2), nm, X, st[15])
        /\ Is(st[15][X], dd * 2, 16)
    BY <1>14, <1>n, <1>r, <2>1, <1>i, IntStep DEF MaxMagnitude
  <2> QED BY <1>14, <1>m, <1>r, <2>3 DEF Leaves
<1>16. /\ st[16] \in State /\ Is(st[16]["c"], c, 1) /\ Is(st[16]["d"], dd, 8)
       /\ Is(st[16]["e"], ee, 3) /\ Is(st[16]["f"], ff, 1) /\ Is(st[16][X], nx3, 17)
       /\ Is(st[16][Z], z3, 2)
  <2>1. st[16] = Step(st[15], NegateOf("x3", "x3", 16), nm)
    BY <1>q DEF DoubleRest, Negate, NegateOf
  <2>3. /\ Leaves(st[15], NegateOf("x3", "x3", 16), nm, X, st[16])
        /\ Is(st[16][X], -(dd * 2), 17)
    BY <1>15, <1>n, <1>r, <2>1, <1>i, NegateStep, SMTT(30) DEF MaxMagnitude
  <2>4. -(dd * 2) = nx3
    BY <1>i DEF nx3
  <2> QED BY <1>15, <1>m, <1>r, <2>3, <2>4 DEF Leaves
<1>17. /\ st[17] \in State /\ Is(st[17]["c"], c, 1) /\ Is(st[17]["d"], dd, 8)
       /\ Is(st[17]["e"], ee, 3) /\ Is(st[17][X], x3, 18) /\ Is(st[17][Z], z3, 2)
  <2>1. st[17] = Step(st[16], Add2("x3", "x3", "f"), nm)
    BY <1>q DEF DoubleRest, Add, Add2
  <2>3. /\ Leaves(st[16], Add2("x3", "x3", "f"), nm, X, st[17])
        /\ Is(st[17][X], nx3 + ff, 18)
    BY <1>16, <1>n, <1>r, <2>1, <1>i, AddStep, SMTT(30) DEF MaxMagnitude
  <2>4. nx3 + ff = x3
    BY <1>i DEF x3, nx3
  <2> QED BY <1>16, <1>m, <1>r, <2>3, <2>4 DEF Leaves
<1>18. /\ st[18] \in State /\ Is(st[18]["c"], c, 1) /\ Is(st[18]["d"], dd, 8)
       /\ Is(st[18]["e"], ee, 3) /\ Is(st[18]["f"], nx3x, 19) /\ Is(st[18][X], x3, 18)
       /\ Is(st[18][Z], z3, 2)
  <2>1. st[18] = Step(st[17], NegateOf("f", "x3", 18), nm)
    BY <1>q DEF DoubleRest, NegateOf
  <2>3. /\ Leaves(st[17], NegateOf("f", "x3", 18), nm, "f", st[18])
        /\ Is(st[18]["f"], -x3, 19)
    BY <1>17, <1>n, <1>r, <2>1, <1>i, NegateStep, SMTT(30) DEF MaxMagnitude
  <2>4. -x3 = nx3x
    BY <1>i DEF nx3x
  <2> QED BY <1>17, <1>m, <1>r, <2>3, <2>4 DEF Leaves
<1>19. /\ st[19] \in State /\ Is(st[19]["c"], c, 1) /\ Is(st[19]["e"], ee, 3)
       /\ Is(st[19]["f"], fd, 27) /\ Is(st[19][X], x3, 18) /\ Is(st[19][Z], z3, 2)
  <2>1. st[19] = Step(st[18], Add2("f", "f", "d"), nm)
    BY <1>q DEF DoubleRest, Add, Add2
  <2>3. /\ Leaves(st[18], Add2("f", "f", "d"), nm, "f", st[19])
        /\ Is(st[19]["f"], nx3x + dd, 27)
    BY <1>18, <1>n, <1>r, <2>1, <1>i, AddStep, SMTT(30) DEF MaxMagnitude
  <2>4. nx3x + dd = fd
    BY <1>i DEF fd, nx3x
  <2> QED BY <1>18, <1>m, <1>r, <2>3, <2>4 DEF Leaves
<1>20. /\ st[20] \in State /\ Is(st[20]["c"], c, 1) /\ Is(st[20]["e"], ee, 3)
       /\ Is(st[20]["f"], fd, 1) /\ Is(st[20][X], x3, 18) /\ Is(st[20][Z], z3, 2)
  <2>1. st[20] = Step(st[19], Normalize("f"), nm)
    BY <1>q DEF DoubleRest, Normalize
  <2>2. /\ st[19] \in State /\ Is(st[19]["f"], fd, 27) /\ Called("f", nm) = "f"
        /\ "f" \in Registers /\ fd \in Int
    BY <1>19, <1>n, <1>r, <1>i
  <2>3. /\ Leaves(st[19], Normalize("f"), nm, "f", st[20])
        /\ Is(st[20]["f"], fd, 1)
    BY <2>1, <2>2, NormalizeStep
  <2> QED BY <1>19, <1>m, <1>r, <2>3 DEF Leaves
<1>21. /\ st[21] \in State /\ Is(st[21]["e"], ee, 3) /\ Is(st[21]["f"], fd, 1)
       /\ Is(st[21][X], x3, 18) /\ Is(st[21][Y], c, 1) /\ Is(st[21][Z], z3, 2)
  <2>1. st[21] = Step(st[20], Set("y3", "c"), nm)
    BY <1>q DEF DoubleRest, Set
  <2>3. /\ Leaves(st[20], Set("y3", "c"), nm, Y, st[21])
        /\ Is(st[21][Y], c, 1)
    BY <1>20, <1>n, <1>r, <2>1, <1>i, SetStep
  <2> QED BY <1>20, <1>m, <1>r, <2>3 DEF Leaves
<1>22. /\ st[22] \in State /\ Is(st[22]["e"], ee, 3) /\ Is(st[22]["f"], fd, 1)
       /\ Is(st[22][X], x3, 18) /\ Is(st[22][Y], c * 8, 8) /\ Is(st[22][Z], z3, 2)
  <2>1. st[22] = Step(st[21], MulInt("y3", 8), nm)
    BY <1>q DEF DoubleRest, MulInt
  <2>3. /\ Leaves(st[21], MulInt("y3", 8), nm, Y, st[22])
        /\ Is(st[22][Y], c * 8, 8)
    BY <1>21, <1>n, <1>r, <2>1, <1>i, IntStep DEF MaxMagnitude
  <2> QED BY <1>21, <1>m, <1>r, <2>3 DEF Leaves
<1>23. /\ st[23] \in State /\ Is(st[23]["e"], ee, 3) /\ Is(st[23]["f"], fd, 1)
       /\ Is(st[23][X], x3, 18) /\ Is(st[23][Y], ny3, 9) /\ Is(st[23][Z], z3, 2)
  <2>1. st[23] = Step(st[22], NegateOf("y3", "y3", 8), nm)
    BY <1>q DEF DoubleRest, Negate, NegateOf
  <2>3. /\ Leaves(st[22], NegateOf("y3", "y3", 8), nm, Y, st[23])
        /\ Is(st[23][Y], -(c * 8), 9)
    BY <1>22, <1>n, <1>r, <2>1, <1>i, NegateStep, SMTT(30) DEF MaxMagnitude
  <2>4. -(c * 8) = ny3
    BY <1>i DEF ny3
  <2> QED BY <1>22, <1>m, <1>r, <2>3, <2>4 DEF Leaves
<1>24. /\ st[24] \in State /\ Is(st[24]["f"], fe, 1) /\ Is(st[24][X], x3, 18)
       /\ Is(st[24][Y], ny3, 9) /\ Is(st[24][Z], z3, 2)
  <2>1. st[24] = Step(st[23], Mul2("f", "f", "e"), nm)
    BY <1>q DEF DoubleRest, Mul, Mul2
  <2>3. /\ Leaves(st[23], Mul2("f", "f", "e"), nm, "f", st[24])
        /\ Is(st[24]["f"], fd * ee, 1)
    BY <1>23, <1>n, <1>r, <2>1, <1>i, MulStep, SMTT(30) DEF MulMax
  <2>4. fd * ee = fe
    BY <1>i DEF fe
  <2> QED BY <1>23, <1>m, <1>r, <2>3, <2>4 DEF Leaves
<1>25. /\ st[25] \in State /\ Is(st[25][X], x3, 18) /\ Is(st[25][Y], y3, 10)
       /\ Is(st[25][Z], z3, 2)
  <2>1. st[25] = Step(st[24], Add2("y3", "y3", "f"), nm)
    BY <1>q DEF DoubleRest, Add, Add2
  <2>3. /\ Leaves(st[24], Add2("y3", "y3", "f"), nm, Y, st[25])
        /\ Is(st[25][Y], ny3 + fe, 10)
    BY <1>24, <1>n, <1>r, <2>1, <1>i, AddStep, SMTT(30) DEF MaxMagnitude
  <2>4. ny3 + fe = y3
    BY <1>i DEF y3, ny3
  <2> QED BY <1>24, <1>m, <1>r, <2>3, <2>4 DEF Leaves
<1>e. /\ x3 = TangentX(x1, y1, ee)
      /\ y3 = TangentY(x1, y1, ee)
  BY DEF xx, yy, c, bb, dd, ff, x3, fd, fe, y3, nd, nx3, nx3x, ny3, TangentX, TangentY
<1> QED BY <1>p, <1>25, <1>e DEF nm, X, Y, Z

LEMMA AffineProgGives ==
    ASSUME NEW g \in State, NEW which \in Ways, NEW x1 \in Int, NEW y1 \in Int, NEW i \in Int,
           Is(g["x1"], x1, 1), Is(g["y1"], y1, 1), Is(g["a"], i, 1), Is(g["zero"], 0, 1)
    PROVE  LET t == Run(AffineProg, g, Alias(which))
           IN  /\ t \in State /\ Is(t[Called("x3", Alias(which))], x1 * (i * i), 1)
               /\ Is(t[Called("y3", Alias(which))], y1 * (i * i * i), 1)
               /\ Is(t[Called("z3", Alias(which))], -0, 2)
<1> DEFINE ii == i * i
           x3 == x1 * ii
           iii == ii * i
           y3 == y1 * iii
           nz == -0
<1>i. /\ ii \in Int /\ x3 \in Int /\ iii \in Int /\ y3 \in Int /\ nz \in Int
  OBVIOUS
<1> HIDE DEF ii, x3, iii, y3, nz
<1> DEFINE nm == Alias(which)
           X == Called("x3", nm)
           Y == Called("y3", nm)
           Z == Called("z3", nm)
<1>m. /\ X \in {"x3", "x1", "x2"} /\ Y \in {"y3", "y1", "y2"} /\ Z \in {"z3", "z1", "z2"}
  BY CalledIs
<1>n. /\ Called("x3", nm) = X /\ Called("y3", nm) = Y /\ Called("z3", nm) = Z
      /\ Called("b", nm) = "b" /\ Called("a", nm) = "a" /\ Called("x1", nm) = "x1"
      /\ Called("y1", nm) = "y1" /\ Called("zero", nm) = "zero"
  BY CalledIs DEF Registers, Plain
<1>r. /\ "b" \in Registers /\ "a" \in Registers /\ "x1" \in Registers /\ "y1" \in Registers
      /\ "zero" \in Registers /\ X \in Registers /\ Y \in Registers /\ Z \in Registers
  BY <1>m DEF Registers
<1> HIDE DEF nm, X, Y, Z
<1>p. PICK st : States(AffineProg, g, nm, 7, st) /\ Run(AffineProg, g, nm) = st[7]
  <2>1. Len(AffineProg) = 7 /\ Len(AffineProg) \in Nat
    BY DEF AffineProg
  <2> QED BY <2>1, RunIs
<1>q. st[0] = g /\ \A k \in 1..7 : st[k] = Step(st[k - 1], AffineProg[k], nm)
  BY <1>p DEF States
<1>0. /\ st[0] \in State /\ Is(st[0]["a"], i, 1) /\ Is(st[0]["x1"], x1, 1)
      /\ Is(st[0]["y1"], y1, 1) /\ Is(st[0]["zero"], 0, 1)
  BY <1>q
<1>1. /\ st[1] \in State /\ Is(st[1]["b"], ii, 1) /\ Is(st[1]["a"], i, 1)
      /\ Is(st[1]["x1"], x1, 1) /\ Is(st[1]["y1"], y1, 1) /\ Is(st[1]["zero"], 0, 1)
  <2>1. st[1] = Step(st[0], Mul2("b", "a", "a"), nm)
    BY <1>q DEF AffineProg, SquareVal, Mul2
  <2>3. /\ Leaves(st[0], Mul2("b", "a", "a"), nm, "b", st[1])
        /\ Is(st[1]["b"], i * i, 1)
    BY <1>0, <1>n, <1>r, <2>1, <1>i, MulStep, SMTT(30) DEF MulMax
  <2>4. i * i = ii
    BY <1>i DEF ii
  <2> QED BY <1>0, <1>m, <1>r, <2>3, <2>4 DEF Leaves
<1>2. /\ st[2] \in State /\ Is(st[2]["b"], ii, 1) /\ Is(st[2]["a"], i, 1)
      /\ Is(st[2][X], x1, 1) /\ Is(st[2]["y1"], y1, 1) /\ Is(st[2]["zero"], 0, 1)
  <2>1. st[2] = Step(st[1], Set("x3", "x1"), nm)
    BY <1>q DEF AffineProg, Set
  <2>3. /\ Leaves(st[1], Set("x3", "x1"), nm, X, st[2])
        /\ Is(st[2][X], x1, 1)
    BY <1>1, <1>n, <1>r, <2>1, <1>i, SetStep
  <2> QED BY <1>1, <1>m, <1>r, <2>3 DEF Leaves
<1>3. /\ st[3] \in State /\ Is(st[3]["b"], ii, 1) /\ Is(st[3]["a"], i, 1)
      /\ Is(st[3][X], x3, 1) /\ Is(st[3]["y1"], y1, 1) /\ Is(st[3]["zero"], 0, 1)
  <2>1. st[3] = Step(st[2], Mul2("x3", "x3", "b"), nm)
    BY <1>q DEF AffineProg, Mul, Mul2
  <2>3. /\ Leaves(st[2], Mul2("x3", "x3", "b"), nm, X, st[3])
        /\ Is(st[3][X], x1 * ii, 1)
    BY <1>2, <1>n, <1>r, <2>1, <1>i, MulStep, SMTT(30) DEF MulMax
  <2>4. x1 * ii = x3
    BY <1>i DEF x3
  <2> QED BY <1>2, <1>m, <1>r, <2>3, <2>4 DEF Leaves
<1>4. /\ st[4] \in State /\ Is(st[4]["b"], iii, 1) /\ Is(st[4][X], x3, 1)
      /\ Is(st[4]["y1"], y1, 1) /\ Is(st[4]["zero"], 0, 1)
  <2>1. st[4] = Step(st[3], Mul2("b", "b", "a"), nm)
    BY <1>q DEF AffineProg, Mul, Mul2
  <2>3. /\ Leaves(st[3], Mul2("b", "b", "a"), nm, "b", st[4])
        /\ Is(st[4]["b"], ii * i, 1)
    BY <1>3, <1>n, <1>r, <2>1, <1>i, MulStep, SMTT(30) DEF MulMax
  <2>4. ii * i = iii
    BY <1>i DEF iii
  <2> QED BY <1>3, <1>m, <1>r, <2>3, <2>4 DEF Leaves
<1>5. /\ st[5] \in State /\ Is(st[5]["b"], iii, 1) /\ Is(st[5][X], x3, 1)
      /\ Is(st[5][Y], y1, 1) /\ Is(st[5]["zero"], 0, 1)
  <2>1. st[5] = Step(st[4], Set("y3", "y1"), nm)
    BY <1>q DEF AffineProg, Set
  <2>3. /\ Leaves(st[4], Set("y3", "y1"), nm, Y, st[5])
        /\ Is(st[5][Y], y1, 1)
    BY <1>4, <1>n, <1>r, <2>1, <1>i, SetStep
  <2> QED BY <1>4, <1>m, <1>r, <2>3 DEF Leaves
<1>6. /\ st[6] \in State /\ Is(st[6][X], x3, 1) /\ Is(st[6][Y], y3, 1)
      /\ Is(st[6]["zero"], 0, 1)
  <2>1. st[6] = Step(st[5], Mul2("y3", "y3", "b"), nm)
    BY <1>q DEF AffineProg, Mul, Mul2
  <2>3. /\ Leaves(st[5], Mul2("y3", "y3", "b"), nm, Y, st[6])
        /\ Is(st[6][Y], y1 * iii, 1)
    BY <1>5, <1>n, <1>r, <2>1, <1>i, MulStep, SMTT(30) DEF MulMax
  <2>4. y1 * iii = y3
    BY <1>i DEF y3
  <2> QED BY <1>5, <1>m, <1>r, <2>3, <2>4 DEF Leaves
<1>7. /\ st[7] \in State /\ Is(st[7][X], x3, 1) /\ Is(st[7][Y], y3, 1) /\ Is(st[7][Z], nz, 2)
  <2>1. st[7] = Step(st[6], NegateOf("z3", "zero", 1), nm)
    BY <1>q DEF AffineProg, NegateOf
  <2>3. /\ Leaves(st[6], NegateOf("z3", "zero", 1), nm, Z, st[7])
        /\ Is(st[7][Z], -0, 2)
    BY <1>6, <1>n, <1>r, <2>1, <1>i, NegateStep, SMTT(30) DEF MaxMagnitude
  <2>4. -0 = nz
    BY <1>i DEF nz
  <2> QED BY <1>6, <1>m, <1>r, <2>3, <2>4 DEF Leaves
<1>e. /\ x3 = x1 * (i * i)
      /\ y3 = y1 * (i * i * i)
      /\ nz = -0
  BY DEF ii, x3, iii, y3, nz
<1> QED BY <1>p, <1>7, <1>e DEF nm, X, Y, Z

\* Normalizing the result leaves what its coordinates stand for.
LEMMA NormalizedGives ==
    ASSUME NEW g \in State, NEW which \in Ways, NEW x \in Int, NEW y \in Int, NEW z \in Int,
           NEW k \in Nat, NEW l \in Nat, NEW m \in Nat,
           Is(g[Called("x3", Alias(which))], x, k), Is(g[Called("y3", Alias(which))], y, l),
           Is(g[Called("z3", Alias(which))], z, m)
    PROVE  Gives(Normalized(g, Alias(which)), x, y, z)
<1> DEFINE nm == Alias(which)
           X == Called("x3", nm)
           Y == Called("y3", nm)
           Z == Called("z3", nm)
<1>1. /\ X \in {"x3", "x1", "x2"} /\ Y \in {"y3", "y1", "y2"} /\ Z \in {"z3", "z1", "z2"}
      /\ Called("x3", nm) = X /\ Called("y3", nm) = Y /\ Called("z3", nm) = Z
      /\ Is(g[X], x, k) /\ Is(g[Y], y, l) /\ Is(g[Z], z, m)
  BY CalledIs
<1> HIDE DEF nm, X, Y, Z
<1>2. X \in Registers /\ Y \in Registers /\ Z \in Registers /\ X # Y /\ X # Z /\ Y # Z
  BY <1>1 DEF Registers
<1>3. PICK st : States(NormalizeAll, g, nm, 3, st) /\ Run(NormalizeAll, g, nm) = st[3]
  <2>1. Len(NormalizeAll) = 3 /\ Len(NormalizeAll) \in Nat
    BY DEF NormalizeAll
  <2> QED BY <2>1, RunIs
<1>4. /\ st[1] = Step(g, Normalize("x3"), nm)
      /\ st[2] = Step(st[1], Normalize("y3"), nm)
      /\ st[3] = Step(st[2], Normalize("z3"), nm)
  BY <1>3 DEF States, NormalizeAll, Normalize
<1>5. /\ Leaves(g, Normalize("x3"), nm, X, st[1])
      /\ Is(st[1][X], x, 1) /\ st[1][X].norm = TRUE
  BY <1>1, <1>2, <1>4, NormalizeStep
<1>6. st[1] \in State /\ Is(st[1][Y], y, l) /\ Is(st[1][Z], z, m)
  BY <1>1, <1>2, <1>5 DEF Leaves
<1>7. /\ Leaves(st[1], Normalize("y3"), nm, Y, st[2])
      /\ Is(st[2][Y], y, 1) /\ st[2][Y].norm = TRUE
  BY <1>1, <1>2, <1>4, <1>6, NormalizeStep
<1>8. st[2] \in State /\ st[2][X] = st[1][X] /\ Is(st[2][Z], z, m)
  BY <1>2, <1>6, <1>7 DEF Leaves
<1>9. /\ Leaves(st[2], Normalize("z3"), nm, Z, st[3])
      /\ Is(st[3][Z], z, 1) /\ st[3][Z].norm = TRUE
  <2>1. st[2] \in State /\ Is(st[2][Z], z, m) /\ Called("z3", nm) = Z /\ Z \in Registers
    BY <1>1, <1>2, <1>8
  <2> QED BY <1>4, <2>1, NormalizeStep
<1>10. st[3][X] = st[1][X] /\ st[3][Y] = st[2][Y]
  BY <1>2, <1>8, <1>9 DEF Leaves
<1>11. Normalized(g, nm) = [X |-> st[3][X], Y |-> st[3][Y], Z |-> st[3][Z]]
  BY <1>1, <1>3 DEF Normalized, Taken
<1>12. Gives(Normalized(g, nm), x, y, z)
  <2> DEFINE p == [X |-> st[3][X], Y |-> st[3][Y], Z |-> st[3][Z]]
  <2>1. p.X = st[3][X] /\ p.Y = st[3][Y] /\ p.Z = st[3][Z] /\ p = [X |-> p.X, Y |-> p.Y, Z |-> p.Z]
    OBVIOUS
  <2> HIDE DEF p
  <2>2. Gives(p, x, y, z)
    BY <1>5, <1>7, <1>9, <1>10, <2>1 DEF Gives
  <2> QED BY <1>11, <2>2 DEF p
<1> QED BY <1>12 DEF nm

\* The registers that a formula begins with.
LEMMA LoadedState ==
    ASSUME NEW p, NEW q, NEW x \in Int, NEW y \in Int, NEW z \in Int, Gives(p, x, y, z),
           NEW u \in Int, NEW v \in Int, NEW w \in Int, Gives(q, u, v, w)
    PROVE  LET g == Loaded(p, q)
           IN  /\ g \in State
               /\ Is(g["x1"], x, 1) /\ Is(g["y1"], y, 1) /\ Is(g["z1"], z, 1)
               /\ Is(g["x2"], u, 1) /\ Is(g["y2"], v, 1) /\ Is(g["z2"], w, 1)
               /\ Is(g["zero"], 0, 1)
<1> DEFINE g == Loaded(p, q)
<1>1. /\ p.X \in FE /\ p.Y \in FE /\ p.Z \in FE /\ q.X \in FE /\ q.Y \in FE /\ q.Z \in FE
  BY DEF Gives, Is
<1>2. Field(0) \in FE /\ Is(Field(0), 0, 1)
  <2>1. P \in Nat \ {0} /\ 0 \in 0..(P - 1) /\ 0 \in Int
    BY CurveNumbers
  <2>2. Cong(P, 0, 0)
    BY <2>1, CongRefl
  <2> QED BY <2>1, <2>2 DEF Field, FE, MaxMagnitude, Is
<1>3. \A r \in Registers : g[r] \in FE
  BY <1>1, <1>2 DEF Loaded
<1>4. /\ g["x1"] = p.X /\ g["y1"] = p.Y /\ g["z1"] = p.Z
      /\ g["x2"] = q.X /\ g["y2"] = q.Y /\ g["z2"] = q.Z /\ g["zero"] = Field(0)
  BY DEF Loaded, Registers
<1>5. g = [r \in Registers |-> g[r]]
  BY DEF Loaded
<1> HIDE DEF g
<1>6. g \in State
  BY <1>3, <1>5 DEF State
<1> QED BY <1>2, <1>4, <1>6 DEF Gives, g

\* What a coordinate stands for may be replaced by what is congruent to it.
LEMMA GivesCong ==
    ASSUME NEW p, NEW x \in Int, NEW y \in Int, NEW z \in Int, Gives(p, x, y, z),
           NEW u \in Int, NEW v \in Int, NEW w \in Int,
           Cong(P, x, u), Cong(P, y, v), Cong(P, z, w)
    PROVE  Gives(p, u, v, w)
<1>1. Is(p.X, u, 1) /\ Is(p.Y, v, 1) /\ Is(p.Z, w, 1)
  BY IsCong DEF Gives
<1> QED BY <1>1 DEF Gives

-----------------------------------------------------------------------------
(* The sums and doubles of chords and tangents.                            *)

LEMMA GroupPlus ==
    ASSUME NEW a \in Group, NEW b \in Group
    PROVE  Plus(a, b) \in Group /\ Plus(a, b) = Plus(b, a)
<1>1. PICK k \in 0..(N - 1) : a = Multiples[k]
  BY PointIsMultiple, Zenon
<1>2. PICK l \in 0..(N - 1) : b = Multiples[l]
  BY PointIsMultiple, Zenon
<1>3. Plus(a, b) = Multiples[(k + l) % N] /\ Plus(b, a) = Multiples[(l + k) % N]
  BY <1>1, <1>2, GroupAssumption
<1>4. k + l = l + k /\ (k + l) % N \in 0..(N - 1)
  <2>1. k + l = l + k /\ k + l \in Int
    BY CurveNumbers
  <2> QED BY <2>1, CurveNumbers, DivMod
<1> QED BY <1>3, <1>4, MultiplesPoints

LEMMA PlusInfinity ==
    ASSUME NEW a \in Group
    PROVE  Plus(a, Infinity) = a /\ Plus(Infinity, a) = a
<1>1. Plus(Infinity, a) = a
  BY Zenon DEF Plus
<1>2. Infinity \in Group
  BY DEF Group
<1> QED BY <1>1, <1>2, GroupPlus

LEMMA TwiceIsWhole ==
    ASSUME NEW n \in Nat \ {0}, NEW k \in 1..(n - 1), (k + k) % n = 0
    PROVE  k + k = n
<1> DEFINE t == k + k
<1>1. t \in Int
  OBVIOUS
<1>2. t > 0 /\ t < 2 * n
  OBVIOUS
<1>3. Cong(n, t, 0)
  <2>1. 0 % n = 0 /\ 0 \in Int
    BY ModSmall
  <2> QED BY <1>1, <2>1, CongIff
<1> HIDE DEF t
<1>4. PICK q \in Int : t = 0 + q * n
  BY <1>3 DEF Cong
<1>5. t = q * n
  <2>1. q * n \in Int
    BY <1>4
  <2> QED BY <1>4, <2>1
<1>6. q > 0
  <2> SUFFICES ASSUME q <= 0 PROVE FALSE
    BY <1>4
  <2>1. q * n <= 0
    BY <1>4
  <2> QED BY <1>1, <1>2, <1>5, <2>1
<1>7. q < 2
  <2> SUFFICES ASSUME q >= 2 PROVE FALSE
    BY <1>4
  <2>1. q * n >= 2 * n
    BY <1>4
  <2> QED BY <1>1, <1>2, <1>5, <2>1
<1>8. q = 1
  BY <1>4, <1>6, <1>7
<1> QED BY <1>5, <1>8 DEF t

\* There is no point of order two: N is odd.
LEMMA NotItsNegation ==
    ASSUME NEW a \in OnCurve
    PROVE  a # Neg(a) /\ a[2] # 0
<1>1. PICK k \in 0..(N - 1) : a = Multiples[k]
  BY PointIsMultiple, CurvePoint, Zenon
<1>2. k # 0 /\ a # Infinity
  BY <1>1, CurvePoint, MultiplesPoints
<1>3. a # Neg(a)
  <2> SUFFICES ASSUME a = Neg(a) PROVE FALSE
    OBVIOUS
  <2>1. Plus(a, a) = Infinity
    BY <1>2, Zenon DEF Plus
  <2>2. Plus(a, a) = Multiples[(k + k) % N]
    BY <1>1, GroupAssumption
  <2>3. k + k \in Int /\ (k + k) % N \in 0..(N - 1)
    <3>1. k + k \in Int
      BY CurveNumbers
    <3> QED BY <3>1, CurveNumbers, DivMod
  <2>4. (k + k) % N = 0
    BY <2>1, <2>2, <2>3, MultiplesPoints
  <2>5. k + k = N
    BY <1>2, <2>4, CurveNumbers, TwiceIsWhole
  <2>6. N % 2 # 0
    <3>1. 2 \in 2..(N - 1)
      BY CurveNumbers
    <3> QED BY <3>1, CurveNumbers DEF Prime
  <2> QED BY <2>5, <2>6
<1>4. a[2] # 0
  <2> SUFFICES ASSUME a[2] = 0 PROVE FALSE
    OBVIOUS
  <2>1. a = <<a[1], 0>> /\ Neg(a) = <<a[1], Mod(P - 0)>>
    BY CurvePoint DEF Neg
  <2>2. Mod(P - 0) = 0
    BY CurveNumbers DEF Mod
  <2> QED BY <1>3, <2>1, <2>2
<1> QED BY <1>3, <1>4

\* Of two points with the same first coordinate the second coordinates are the
\* same or opposite.
LEMMA SameFirst ==
    ASSUME NEW a \in OnCurve, NEW b \in OnCurve, a[1] = b[1], a[2] # b[2]
    PROVE  Plus(a, b) = Infinity
<1> DEFINE x == a[1]
           y == a[2]
           w == b[2]
           c == x * x * x + 7
<1>1. /\ x \in Int /\ y \in Int /\ w \in Int /\ y \in 0..(P - 1) /\ w \in 0..(P - 1)
      /\ Mod(y * y) = Mod(c) /\ Mod(w * w) = Mod(c) /\ a = <<x, y>> /\ b = <<x, w>>
      /\ a # Infinity /\ b # Infinity /\ y # w
  BY CurvePoint
<1> HIDE DEF x, y, w, c
<1>p. P \in Nat \ {0} /\ Prime(P) /\ 0 \in Int
  BY CurveNumbers
<1>2. y * y \in Int /\ w * w \in Int /\ y - w \in Int /\ y + w \in Int /\ -(w * w) \in Int
  BY <1>1, Ring
<1>3. Cong(P, y * y, w * w)
  BY <1>1, <1>2, ModFacts
<1>4. Cong(P, (y - w) * (y + w), 0)
  <2>1. Cong(P, -(w * w), -(w * w))
    BY <1>p, <1>2, CongRefl
  <2>2. Cong(P, y * y + (-(w * w)), w * w + (-(w * w)))
    BY <1>p, <1>2, <1>3, <2>1, CongPlus
  <2>3. (y - w) * (y + w) = y * y + (-(w * w)) /\ w * w + (-(w * w)) = 0
    BY <1>1
  <2> QED BY <2>2, <2>3
<1>5. ~Cong(P, y - w, 0)
  <2> SUFFICES ASSUME Cong(P, y - w, 0) PROVE FALSE
    OBVIOUS
  <2>1. Cong(P, (y - w) + w, 0 + w)
    BY <1>p, <1>1, <1>2, CongRefl, CongPlus
  <2>2. (y - w) + w = y /\ 0 + w = w
    BY <1>1
  <2> QED BY <1>p, <1>1, <2>1, <2>2, CongSmall
<1>6. Cong(P, y + w, 0)
  BY <1>p, <1>2, <1>4, <1>5, PrimeProduct
<1>7. Cong(P, y, P - w)
  <2>1. Cong(P, P - w, -w) /\ -w \in Int /\ P - w \in Int
    <3>1. Cong(P, w, w)
      BY <1>p, <1>1, CongRefl
    <3> QED BY <1>p, <1>1, <3>1, CongNeg
  <2>2. Cong(P, (y + w) + (-w), 0 + (-w))
    BY <1>p, <1>2, <1>6, <2>1, CongRefl, CongPlus
  <2>3. (y + w) + (-w) = y /\ 0 + (-w) = -w
    BY <1>1
  <2> QED BY <1>p, <1>1, <2>1, <2>2, <2>3, CongSym, CongTrans
<1>8. y = Mod(P - w)
  <2>1. P - w \in Int
    BY <1>p, <1>1
  <2>2. Mod(y) = Mod(P - w) /\ Mod(y) = y
    BY <1>1, <1>7, <2>1, ModFacts
  <2> QED BY <2>2
<1>9. a = Neg(b)
  <2>1. Neg(b) = <<b[1], Mod(P - b[2])>>
    BY <1>1 DEF Neg
  <2> QED BY <1>1, <1>8, <2>1
<1> QED BY <1>1, <1>9, Zenon DEF Plus

\* The second coordinate on a line, from the first.
LEMMA SecondCoordinate ==
    ASSUME NEW s \in Int, NEW x1 \in Int, NEW y1 \in Int, NEW x \in Int, NEW xx \in Int,
           Cong(P, x, xx)
    PROVE  Cong(P, Mod(s * (x1 - x) - y1), s * (x1 - xx) - y1)
<1>p. P \in Nat \ {0}
  BY CurveNumbers
<1>1. Cong(P, x1 - x, x1 - xx) /\ x1 - x \in Int /\ x1 - xx \in Int
  <2>1. Cong(P, -x, -xx) /\ -x \in Int /\ -xx \in Int
    BY <1>p, CongNeg
  <2>2. Cong(P, x1 + (-x), x1 + (-xx))
    BY <1>p, <2>1, CongRefl, CongPlus
  <2>3. x1 + (-x) = x1 - x /\ x1 + (-xx) = x1 - xx
    OBVIOUS
  <2> QED BY <2>2, <2>3
<1>2. Cong(P, s * (x1 - x), s * (x1 - xx)) /\ s * (x1 - x) \in Int /\ s * (x1 - xx) \in Int
  BY <1>p, <1>1, CongScale, Ring
<1>3. Cong(P, s * (x1 - x) + (-y1), s * (x1 - xx) + (-y1)) /\ -y1 \in Int
  <2>1. -y1 \in Int /\ Cong(P, -y1, -y1)
    BY <1>p, CongRefl
  <2> QED BY <1>p, <1>2, <2>1, CongPlus
<1> DEFINE ys == s * (x1 - x) - y1
           yy == s * (x1 - xx) - y1
<1>4. s * (x1 - x) + (-y1) = ys /\ s * (x1 - xx) + (-y1) = yy /\ ys \in Int /\ yy \in Int
  BY <1>2
<1>5. Cong(P, ys, yy)
  BY <1>3, <1>4
<1> HIDE DEF ys, yy
<1>6. Mod(ys) \in Int /\ Cong(P, Mod(ys), ys)
  BY <1>4, ModFacts
<1>7. Cong(P, Mod(ys), yy)
  BY <1>p, <1>4, <1>5, <1>6, CongTrans
<1> QED BY <1>7 DEF ys, yy

\* The slope s reaches b from a, and gives the coordinates of their sum.
IsChord(a, b, s) ==
    LET gap == b[1] - a[1]
        x == s * s - gap - 2 * a[1]
    IN  /\ Cong(P, b[2], a[2] + s * gap)
        /\ Cong(P, Plus(a, b)[1], x) /\ Cong(P, Plus(a, b)[2], s * (a[1] - x) - a[2])

LEMMA ChordPoint ==
    ASSUME NEW a \in OnCurve, NEW b \in OnCurve, a[1] # b[1]
    PROVE  /\ Plus(a, b) \in OnCurve
           /\ ~Cong(P, b[1] - a[1], 0)
           /\ \E s \in Int : IsChord(a, b, s)
<1> DEFINE x1 == a[1]
           y1 == a[2]
           x2 == b[1]
           y2 == b[2]
           gap == x2 - x1
           m == Mod(gap)
           i == Inv(m)
           s == Mod((y2 - y1) * i)
           xs == s * s - x1 - x2
           x == Mod(xs)
           ys == s * (x1 - x) - y1
           y == Mod(ys)
<1>1. /\ x1 \in 0..(P - 1) /\ x2 \in 0..(P - 1)
      /\ x1 \in Int /\ x2 \in Int /\ y1 \in Int /\ y2 \in Int
      /\ a # Infinity /\ b # Infinity /\ a \in Group /\ b \in Group /\ a # b /\ x1 # x2
  BY CurvePoint
<1>2. Plus(a, b) = <<x, y>>
  <2>1. Neg(b) = <<b[1], Mod(P - b[2])>>
    BY <1>1 DEF Neg
  <2>2. a # Neg(b)
    BY <1>1, <2>1
  <2>3. Plus(a, b) = Chord(a, b, Mod((b[2] - a[2]) * Inv(Mod(b[1] - a[1]))))
    BY <1>1, <2>2, Zenon DEF Plus
  <2> QED BY <2>3 DEF Chord
<1>3. Plus(a, b) \in OnCurve
  <2>1. Plus(a, b) \in Group
    BY <1>1, GroupPlus
  <2>2. <<x, y>> # <<>>
    OBVIOUS
  <2> HIDE DEF x, y
  <2> QED BY <1>2, <2>1, <2>2 DEF Group, Infinity
<1>p. P \in Nat \ {0} /\ 0 \in Int /\ 1 \in Int
  BY CurveNumbers
<1>4. gap \in Int /\ y2 - y1 \in Int /\ gap + x1 = x2
  BY <1>1
<1> HIDE DEF x1, x2, y1, y2, gap
<1>5. ~Cong(P, gap, 0)
  <2> SUFFICES ASSUME Cong(P, gap, 0) PROVE FALSE
    OBVIOUS
  <2>1. Cong(P, gap + x1, 0 + x1) /\ 0 + x1 = x1
    BY <1>p, <1>1, <1>4, CongRefl, CongPlus
  <2> QED BY <1>p, <1>1, <1>4, <2>1, CongSmall
<1>6. m \in Int /\ Cong(P, m, gap) /\ ~Cong(P, m, 0)
  BY <1>p, <1>4, <1>5, ModFacts, CongTrans
<1> HIDE DEF m
<1>7. i \in Int /\ Cong(P, m * i, 1)
  BY <1>6, FieldInverse
<1> HIDE DEF i
<1>8. (y2 - y1) * i \in Int
  BY <1>4, <1>7, Ring
<1>9. s \in Int /\ Cong(P, s, (y2 - y1) * i)
  BY <1>8, ModFacts
<1> HIDE DEF s
<1>10. Cong(P, y2, y1 + s * gap)
  <2> DEFINE h == y2 - y1
  <2>0. h \in Int /\ h = y2 - y1
    BY <1>4
  <2> HIDE DEF h
  <2>1. /\ h * i \in Int /\ m * i \in Int /\ gap * i \in Int /\ s * gap \in Int
        /\ (h * i) * gap \in Int /\ (h * i) * gap = (gap * i) * h
    <3>1. h * i \in Int /\ m * i \in Int /\ gap * i \in Int /\ s * gap \in Int
      BY <1>4, <1>6, <1>7, <1>9, <2>0, Ring
    <3>2. (h * i) * gap = h * (i * gap) /\ i * gap = gap * i /\ h * (gap * i) = (gap * i) * h
      BY <1>4, <1>7, <2>0, <3>1, Ring
    <3>3. (h * i) * gap \in Int
      BY <1>4, <3>1, Ring
    <3> QED BY <3>1, <3>2, <3>3
  <2>2. Cong(P, gap * i, 1)
    <3>1. Cong(P, m * i, gap * i)
      BY <1>p, <1>4, <1>6, <1>7, CongScale
    <3> QED BY <1>p, <1>7, <2>1, <3>1, CongSym, CongTrans
  <2>3. Cong(P, (gap * i) * h, h)
    <3> DEFINE w == gap * i
    <3> HIDE DEF w
    <3>1. w \in Int /\ Cong(P, w, 1)
      BY <2>1, <2>2 DEF w
    <3>2. Cong(P, w * h, 1 * h) /\ 1 * h = h
      BY <1>p, <2>0, <3>1, CongScale, Ring
    <3> QED BY <3>2 DEF w
  <2>4. Cong(P, s * gap, (h * i) * gap)
    BY <1>p, <1>4, <1>9, <2>0, <2>1, CongScale
  <2>5. Cong(P, s * gap, h)
    BY <1>p, <2>0, <2>1, <2>3, <2>4, CongTrans
  <2>6. Cong(P, y1 + s * gap, y1 + h)
    BY <1>p, <1>1, <2>0, <2>1, <2>5, CongRefl, CongPlus
  <2>7. y1 + h = y2 /\ y1 + s * gap \in Int
    BY <1>1, <2>0, <2>1
  <2> QED BY <1>p, <1>1, <2>6, <2>7, CongSym
<1> DEFINE xx == s * s - gap - 2 * x1
<1>11. xx \in Int /\ xs = xx /\ xs \in Int
  <2>1. s * s \in Int
    BY <1>9, Ring
  <2> QED BY <1>1, <1>4, <2>1
<1>12. x \in Int /\ Cong(P, x, xx)
  BY <1>11, ModFacts
<1> HIDE DEF x, xs, xx
<1>13. Cong(P, y, s * (x1 - xx) - y1)
  <2>1. y = Mod(s * (x1 - x) - y1)
    OBVIOUS
  <2> HIDE DEF y
  <2> QED BY <1>1, <1>9, <1>11, <1>12, <2>1, SecondCoordinate
<1>14. Plus(a, b)[1] = x /\ Plus(a, b)[2] = y
  BY <1>2
<1> HIDE DEF y
<1>15. /\ Cong(P, Plus(a, b)[1], xx) /\ Cong(P, Plus(a, b)[2], s * (x1 - xx) - y1)
  BY <1>12, <1>13, <1>14
<1> QED BY <1>3, <1>5, <1>9, <1>10, <1>15 DEF xx, x1, y1, x2, y2, gap, IsChord

\* The slope s is that of the tangent at a, and gives the double of a.
IsTangent(a, s) ==
    LET x == s * s - 2 * a[1]
    IN  /\ Cong(P, 3 * (a[1] * a[1]), (2 * a[2]) * s)
        /\ Cong(P, Plus(a, a)[1], x) /\ Cong(P, Plus(a, a)[2], s * (a[1] - x) - a[2])

LEMMA TangentPoint ==
    ASSUME NEW a \in OnCurve
    PROVE  /\ Plus(a, a) \in OnCurve
           /\ \E s \in Int : IsTangent(a, s)
<1> DEFINE x1 == a[1]
           y1 == a[2]
           m == 2 * y1
           n == 3 * x1 * x1
           i == Inv(m)
           s == Mod(n * i)
           xs == s * s - x1 - x1
           x == Mod(xs)
           ys == s * (x1 - x) - y1
           y == Mod(ys)
<1>1. /\ x1 \in 0..(P - 1) /\ y1 \in 1..(P - 1) /\ x1 \in Int /\ y1 \in Int
      /\ a # Infinity /\ a \in Group /\ a # Neg(a)
  BY CurvePoint, NotItsNegation
<1>2. Plus(a, a) = <<x, y>>
  <2>1. Plus(a, a) = Chord(a, a, Mod(3 * a[1] * a[1] * Inv(2 * a[2])))
    BY <1>1, Zenon DEF Plus
  <2> QED BY <2>1 DEF Chord
<1>3. Plus(a, a) \in OnCurve
  <2>1. Plus(a, a) \in Group
    BY <1>1, GroupPlus
  <2>2. <<x, y>> # <<>>
    OBVIOUS
  <2> HIDE DEF x, y
  <2> QED BY <1>2, <2>1, <2>2 DEF Group, Infinity
<1>p. P \in Nat \ {0} /\ 0 \in Int /\ 1 \in Int /\ Prime(P)
  BY CurveNumbers
<1>4. m \in Int /\ n \in Int /\ n = 3 * (x1 * x1)
  BY <1>1
<1> HIDE DEF x1, y1, n
<1>5. ~Cong(P, m, 0)
  <2>1. ~Cong(P, 2, 0) /\ ~Cong(P, y1, 0) /\ 2 \in Int
    <3>1. 2 \in 1..(P - 1)
      BY CurveNumbers
    <3> QED BY <1>1, <3>1, SmallNotZero
  <2> QED BY <1>1, <2>1, ProductNotZero
<1> HIDE DEF m
<1>7. i \in Int /\ Cong(P, m * i, 1)
  BY <1>4, <1>5, FieldInverse
<1> HIDE DEF i
<1>8. n * i \in Int
  BY <1>4, <1>7, Ring
<1>9. s \in Int /\ Cong(P, s, n * i)
  BY <1>8, ModFacts
<1> HIDE DEF s
<1>10. Cong(P, n, m * s)
  <2>1. m * s \in Int /\ m * i \in Int /\ m * (n * i) \in Int /\ m * (n * i) = (m * i) * n
    <3>1. n * i = i * n /\ m * (i * n) = (m * i) * n
      BY <1>4, <1>7, Ring
    <3> QED BY <1>4, <1>7, <1>8, <1>9, <3>1, Ring
  <2>2. Cong(P, (m * i) * n, n)
    <3> DEFINE w == m * i
    <3> HIDE DEF w
    <3>1. w \in Int /\ Cong(P, w, 1)
      BY <1>7, <2>1 DEF w
    <3>2. Cong(P, w * n, 1 * n) /\ 1 * n = n
      BY <1>p, <1>4, <3>1, CongScale, Ring
    <3> QED BY <3>2 DEF w
  <2>3. Cong(P, m * s, m * (n * i))
    BY <1>p, <1>4, <1>8, <1>9, CongScale
  <2>4. Cong(P, m * s, n)
    BY <1>p, <1>4, <2>1, <2>2, <2>3, CongTrans
  <2> QED BY <1>p, <1>4, <2>1, <2>4, CongSym
<1> DEFINE xx == s * s - 2 * x1
<1>11. xx \in Int /\ xs = xx /\ xs \in Int
  <2>1. s * s \in Int
    BY <1>9, Ring
  <2> QED BY <1>1, <2>1
<1>12. x \in Int /\ Cong(P, x, xx)
  BY <1>11, ModFacts
<1> HIDE DEF x, xs, xx
<1>13. Cong(P, y, s * (x1 - xx) - y1)
  <2>1. y = Mod(s * (x1 - x) - y1)
    OBVIOUS
  <2> HIDE DEF y
  <2> QED BY <1>1, <1>9, <1>11, <1>12, <2>1, SecondCoordinate
<1>14. Plus(a, a)[1] = x /\ Plus(a, a)[2] = y
  BY <1>2
<1> HIDE DEF y
<1>15. /\ Cong(P, Plus(a, a)[1], xx) /\ Cong(P, Plus(a, a)[2], s * (x1 - xx) - y1)
  BY <1>12, <1>13, <1>14
<1> QED BY <1>3, <1>4, <1>9, <1>10, <1>15 DEF xx, x1, y1, m, n, IsTangent

-----------------------------------------------------------------------------
(* What a point in Jacobian coordinates stands for.                        *)

\* p is normalized, no precondition has been violated on the way to it, and it
\* stands for pt.
Represents(p, pt) ==
    \/ pt = Infinity /\ IsNowhere(p) /\ Gives(p, p.X.v, p.Y.v, p.Z.v)
    \/ LET z == p.Z.v
       IN  /\ pt \in OnCurve /\ ~Cong(P, z, 0)
           /\ Gives(p, pt[1] * (z * z), pt[2] * (z * z * z), z)

\* Any numbers of the right remainders may be taken for the third coordinate
\* and for those of the point.
LEMMA Scaled ==
    ASSUME NEW x \in Int, NEW u \in Int, Cong(P, x, u),
           NEW w \in Int, NEW z \in Int, Cong(P, w, z)
    PROVE  /\ Cong(P, x * (w * w), u * (z * z)) /\ Cong(P, x * (w * w * w), u * (z * z * z))
           /\ x * (w * w) \in Int /\ u * (z * z) \in Int
           /\ x * (w * w * w) \in Int /\ u * (z * z * z) \in Int
<1>p. P \in Nat \ {0}
  BY CurveNumbers
<1>1. Cong(P, w * w, z * z) /\ w * w \in Int /\ z * z \in Int
  BY <1>p, CongTimes, Ring
<1>2. Cong(P, w * w * w, z * z * z) /\ w * w * w \in Int /\ z * z * z \in Int
  <2> DEFINE a == w * w
             b == z * z
  <2> HIDE DEF a, b
  <2>1. a \in Int /\ b \in Int /\ Cong(P, a, b)
    BY <1>1 DEF a, b
  <2>2. Cong(P, a * w, b * z) /\ a * w \in Int /\ b * z \in Int
    BY <1>p, <2>1, CongTimes, Ring
  <2> QED BY <2>2 DEF a, b
<1> DEFINE a == w * w
           b == z * z
           e == w * w * w
           f == z * z * z
<1> HIDE DEF a, b, e, f
<1>3. a \in Int /\ b \in Int /\ Cong(P, a, b) /\ e \in Int /\ f \in Int /\ Cong(P, e, f)
  BY <1>1, <1>2 DEF a, b, e, f
<1>4. /\ Cong(P, x * a, u * b) /\ x * a \in Int /\ u * b \in Int
      /\ Cong(P, x * e, u * f) /\ x * e \in Int /\ u * f \in Int
  BY <1>p, <1>3, CongTimes, Ring
<1> QED BY <1>4 DEF a, b, e, f

LEMMA RepresentsAt ==
    ASSUME NEW pt \in OnCurve, NEW p, NEW w \in Int, ~Cong(P, w, 0),
           NEW x \in Int, NEW y \in Int, Cong(P, pt[1], x), Cong(P, pt[2], y),
           Gives(p, x * (w * w), y * (w * w * w), w)
    PROVE  Represents(p, pt)
<1> DEFINE z == p.Z.v
<1>p. P \in Nat \ {0} /\ pt[1] \in Int /\ pt[2] \in Int /\ 0 \in Int
  BY CurveNumbers, CurvePoint
<1>1. z \in Int /\ Cong(P, z, w)
  BY <1>p DEF Gives, Is, FE
<1> HIDE DEF z
<1>2. Cong(P, w, z) /\ Cong(P, x, pt[1]) /\ Cong(P, y, pt[2]) /\ Cong(P, z, z)
  BY <1>p, <1>1, CongSym, CongRefl
<1>3. ~Cong(P, z, 0)
  BY <1>p, <1>1, <1>2, CongTrans
<1>4. /\ Cong(P, x * (w * w), pt[1] * (z * z)) /\ Cong(P, y * (w * w * w), pt[2] * (z * z * z))
      /\ x * (w * w) \in Int /\ pt[1] * (z * z) \in Int
      /\ y * (w * w * w) \in Int /\ pt[2] * (z * z * z) \in Int
  BY <1>p, <1>1, <1>2, Scaled
<1>5. Gives(p, pt[1] * (z * z), pt[2] * (z * z * z), z)
  <2> DEFINE a == x * (w * w)
             b == y * (w * w * w)
             e == pt[1] * (z * z)
             f == pt[2] * (z * z * z)
  <2>1. /\ a \in Int /\ b \in Int /\ e \in Int /\ f \in Int /\ Cong(P, a, e) /\ Cong(P, b, f)
        /\ Gives(p, a, b, w)
    BY <1>4
  <2> HIDE DEF a, b, e, f
  <2>2. Gives(p, e, f, z)
    BY <1>1, <1>2, <2>1, GivesCong
  <2> QED BY <2>2 DEF e, f
<1> QED BY <1>3, <1>5 DEF Represents, z

LEMMA CoordinatesOf ==
    ASSUME NEW pt \in OnCurve, NEW p, Represents(p, pt),
           NEW x \in Int, NEW y \in Int, Cong(P, pt[1], x), Cong(P, pt[2], y)
    PROVE  LET z == p.Z.v
           IN  /\ z \in 0..(P - 1) /\ z \in Int /\ z # 0 /\ ~Cong(P, z, 0)
               /\ ~IsNowhere(p) /\ p.Y.v # 0
               /\ Gives(p, x * (z * z), y * (z * z * z), z)
<1> DEFINE z == p.Z.v
<1>p. P \in Nat \ {0} /\ pt[1] \in Int /\ pt[2] \in Int /\ 0 \in Int /\ pt # Infinity
  BY CurveNumbers, CurvePoint
<1>1. ~Cong(P, z, 0) /\ Gives(p, pt[1] * (z * z), pt[2] * (z * z * z), z)
  BY <1>p DEF Represents
<1>2. z \in 0..(P - 1) /\ z \in Int /\ z # 0
  <2>1. z \in 0..(P - 1)
    BY <1>1 DEF Gives, Is, FE
  <2>2. z # 0
    BY <1>p, <1>1, CongRefl
  <2> QED BY <2>1, <2>2
<1> HIDE DEF z
<1>3. Cong(P, z, z)
  BY <1>p, <1>2, CongRefl
<1>4. /\ Cong(P, pt[1] * (z * z), x * (z * z)) /\ Cong(P, pt[2] * (z * z * z), y * (z * z * z))
      /\ pt[1] * (z * z) \in Int /\ x * (z * z) \in Int
      /\ pt[2] * (z * z * z) \in Int /\ y * (z * z * z) \in Int
  BY <1>p, <1>2, <1>3, Scaled
<1>5. Gives(p, x * (z * z), y * (z * z * z), z)
  <2> DEFINE a == pt[1] * (z * z)
             b == pt[2] * (z * z * z)
             e == x * (z * z)
             f == y * (z * z * z)
  <2>1. /\ a \in Int /\ b \in Int /\ e \in Int /\ f \in Int /\ Cong(P, a, e) /\ Cong(P, b, f)
        /\ Gives(p, a, b, z)
    BY <1>1, <1>4
  <2> HIDE DEF a, b, e, f
  <2>2. Gives(p, e, f, z)
    BY <1>2, <1>3, <2>1, GivesCong
  <2> QED BY <2>2 DEF e, f
<1>6. p.Y.v # 0
  <2> DEFINE w == z * z * z
             b == pt[2] * w
  <2>1. ~Cong(P, pt[2], 0)
    <3>1. pt[2] \in 1..(P - 1)
      BY CurvePoint, NotItsNegation
    <3> QED BY <3>1, SmallNotZero
  <2>2. ~Cong(P, z * z, 0) /\ z * z \in Int
    BY <1>1, <1>2, ProductNotZero DEF z
  <2>3. ~Cong(P, w, 0) /\ w \in Int
    BY <1>1, <1>2, <2>2, ProductNotZero DEF z
  <2> HIDE DEF w
  <2>4. ~Cong(P, b, 0) /\ b \in Int
    BY <1>p, <2>1, <2>3, ProductNotZero
  <2>5. Cong(P, p.Y.v, b) /\ p.Y.v \in Int
    BY <1>1 DEF Gives, Is, FE, b, w
  <2> HIDE DEF b
  <2> SUFFICES ASSUME p.Y.v = 0 PROVE FALSE
    OBVIOUS
  <2>6. Cong(P, b, 0)
    BY <1>p, <2>4, <2>5, CongSym
  <2> QED BY <2>4, <2>6
<1>7. ~IsNowhere(p)
  BY <1>2, <1>6 DEF IsNowhere, z
<1> QED BY <1>1, <1>2, <1>5, <1>6, <1>7 DEF z

LEMMA SumTypes ==
    ASSUME NEW u \in Int, NEW q \in Int, NEW h \in Int, NEW k \in Int
    PROVE  SumX(u, h, k) \in Int /\ SumY(u, q, h, k) \in Int
<1>1. /\ k * k \in Int /\ h * h \in Int /\ h * (h * h) \in Int /\ u * (h * h) \in Int
      /\ q * (h * (h * h)) \in Int
  BY Ring
<1>2. SumX(u, h, k) \in Int
  BY <1>1 DEF SumX
<1>3. k * (u * (h * h) - SumX(u, h, k)) \in Int
  <2> DEFINE x == SumX(u, h, k)
             y == u * (h * h)
  <2>1. x \in Int /\ y \in Int
    BY <1>1, <1>2
  <2> HIDE DEF x, y
  <2>2. k * (y - x) \in Int
    BY <2>1, Ring
  <2> QED BY <2>2 DEF x, y
<1> QED BY <1>1, <1>2, <1>3 DEF SumY

\* Coordinates over the common third coordinate w, added by the formula and
\* normalized, are the sum.
LEMMA SumStored ==
    ASSUME NEW a \in OnCurve, NEW b \in OnCurve, a[1] # b[1],
           NEW s \in Int, IsChord(a, b, s), NEW w \in Int, ~Cong(P, w, 0), NEW n \in 1..2,
           NEW u \in Int, u = a[1] * (w * w), NEW q \in Int, q = a[2] * (w * w * w),
           NEW h \in Int, h = (b[1] - a[1]) * (w * w),
           NEW k \in Int, k = (s * (b[1] - a[1])) * (w * w * w),
           NEW x \in Int, x = (n * n) * SumX(u, h, k),
           NEW y \in Int, y = (n * n * n) * SumY(u, q, h, k),
           NEW z \in Int, z = n * (w * h),
           NEW g \in State, NEW which \in Ways, NEW kx \in Nat, NEW ky \in Nat, NEW kz \in Nat,
           Is(g[Called("x3", Alias(which))], x, kx), Is(g[Called("y3", Alias(which))], y, ky),
           Is(g[Called("z3", Alias(which))], z, kz)
    PROVE  Represents(Normalized(g, Alias(which)), Plus(a, b))
<1> DEFINE p == Normalized(g, Alias(which))
           x1 == a[1]
           y1 == a[2]
           gap == b[1] - a[1]
           e == s * s - gap - 2 * x1
           f == s * (x1 - e) - y1
<1>1. Gives(p, x, y, z)
  BY NormalizedGives
<1> HIDE DEF p
<1>2. x1 \in Int /\ y1 \in Int /\ gap \in Int
  BY CurvePoint
<1>3. Plus(a, b) \in OnCurve /\ ~Cong(P, gap, 0)
  BY ChordPoint
<1>4. Cong(P, Plus(a, b)[1], e) /\ Cong(P, Plus(a, b)[2], f)
  BY DEF IsChord
<1>5. /\ u = x1 * (w * w) /\ q = y1 * (w * w * w) /\ h = gap * (w * w)
      /\ k = (s * gap) * (w * w * w)
  OBVIOUS
<1> HIDE DEF x1, y1, gap
<1>6. e \in Int
  <2>1. s * s \in Int
    BY Ring
  <2> QED BY <1>2, <2>1
<1>7. f \in Int
  <2> HIDE DEF e
  <2>1. s * (x1 - e) \in Int
    BY <1>2, <1>6, Ring
  <2> QED BY <1>2, <2>1
<1>8. x = e * (z * z) /\ y = f * (z * z * z)
  <2> DEFINE hh == gap * (w * w)
             kk == (s * gap) * (w * w * w)
             m == n * (w * hh)
             r == s * s - gap - 2 * x1
  <2>1. n \in Int
    OBVIOUS
  <2>2. /\ (n * n) * SumX(x1 * (w * w), hh, kk) = r * (m * m)
        /\ (n * n * n) * SumY(x1 * (w * w), y1 * (w * w * w), hh, kk)
               = (s * (x1 - r) - y1) * (m * m * m)
    BY <1>2, <2>1 DEF SumX, SumY
  <2>3. h = hh /\ k = kk /\ z = m /\ e = r /\ f = s * (x1 - r) - y1
    BY <1>5
  <2> HIDE DEF hh, kk, m, r, e, f
  <2> QED BY <1>5, <2>2, <2>3, Zenon
<1> HIDE DEF e, f
<1>9. ~Cong(P, z, 0)
  <2>1. ~Cong(P, w * w, 0) /\ w * w \in Int
    BY ProductNotZero
  <2> DEFINE ww == w * w
  <2> HIDE DEF ww
  <2>2. ~Cong(P, h, 0)
    <3>1. ~Cong(P, ww, 0) /\ ww \in Int /\ h = gap * ww
      BY <1>5, <2>1 DEF ww
    <3>2. ~Cong(P, gap * ww, 0)
      BY <1>2, <1>3, <3>1, ProductNotZero
    <3> QED BY <3>1, <3>2
  <2>3. ~Cong(P, w * h, 0) /\ w * h \in Int
    BY <2>2, ProductNotZero
  <2>4. ~Cong(P, n, 0) /\ n \in Int
    <3>1. n \in 1..(P - 1)
      BY CurveNumbers
    <3> QED BY <3>1, SmallNotZero
  <2> DEFINE m == w * h
  <2> HIDE DEF m
  <2>5. ~Cong(P, n * m, 0)
    BY <2>3, <2>4, ProductNotZero DEF m
  <2> QED BY <2>5 DEF m
<1>10. Gives(p, e * (z * z), f * (z * z * z), z)
  BY <1>1, <1>8
<1> QED BY <1>3, <1>4, <1>6, <1>7, <1>9, <1>10, RepresentsAt DEF p

\* The registers a sum begins with.  Any number may be taken for the second
\* coordinate of the other point that is congruent to it.
LEMMA LoadedOperands ==
    ASSUME NEW a \in OnCurve, NEW b \in OnCurve, NEW f \in Int, Cong(P, b[2], f),
           NEW p1, NEW p2, Represents(p1, a), Represents(p2, b)
    PROVE  LET w == p1.Z.v
               v == p2.Z.v
               g == Loaded(p1, p2)
           IN  /\ w \in Int /\ v \in Int /\ ~Cong(P, w, 0) /\ ~Cong(P, v, 0) /\ g \in State
               /\ Is(g["x1"], a[1] * (w * w), 1) /\ Is(g["y1"], a[2] * (w * w * w), 1)
               /\ Is(g["x2"], b[1] * (v * v), 1) /\ Is(g["y2"], f * (v * v * v), 1)
               /\ Is(g["z1"], w, 1) /\ Is(g["z2"], v, 1)
<1> DEFINE w == p1.Z.v
           v == p2.Z.v
           x1 == a[1] * (w * w)
           y1 == a[2] * (w * w * w)
           x2 == b[1] * (v * v)
           y2 == f * (v * v * v)
<1>1. /\ P \in Nat \ {0} /\ a[1] \in Int /\ a[2] \in Int /\ b[1] \in Int /\ b[2] \in Int
  BY CurveNumbers, CurvePoint
<1>2. Cong(P, a[1], a[1]) /\ Cong(P, a[2], a[2]) /\ Cong(P, b[1], b[1])
  BY <1>1, CongRefl
<1>3. w \in Int /\ ~Cong(P, w, 0) /\ Gives(p1, x1, y1, w)
  BY <1>1, <1>2, CoordinatesOf
<1>4. v \in Int /\ ~Cong(P, v, 0) /\ Gives(p2, x2, y2, v)
  BY <1>1, <1>2, CoordinatesOf
<1> HIDE DEF w, v
<1>5. x1 \in Int /\ y1 \in Int /\ x2 \in Int /\ y2 \in Int
  <2>1. /\ w * w \in Int /\ v * v \in Int /\ w * w * w \in Int /\ v * v * v \in Int
    BY <1>3, <1>4
  <2> QED BY <1>1, <2>1, Ring
<1> HIDE DEF x1, y1, x2, y2
<1>6. LET g == Loaded(p1, p2)
      IN  /\ g \in State
          /\ Is(g["x1"], x1, 1) /\ Is(g["y1"], y1, 1) /\ Is(g["z1"], w, 1)
          /\ Is(g["x2"], x2, 1) /\ Is(g["y2"], y2, 1) /\ Is(g["z2"], v, 1)
  BY <1>3, <1>4, <1>5, LoadedState
<1> QED BY <1>3, <1>4, <1>6 DEF w, v, x1, y1, x2, y2

\* The slope gives one.
LEMMA ChordOperands ==
    ASSUME NEW a \in OnCurve, NEW b \in OnCurve, NEW s \in Int, IsChord(a, b, s),
           NEW p1, NEW p2, Represents(p1, a), Represents(p2, b)
    PROVE  LET w == p1.Z.v
               v == p2.Z.v
               g == Loaded(p1, p2)
           IN  /\ w \in Int /\ v \in Int /\ ~Cong(P, w, 0) /\ ~Cong(P, v, 0) /\ g \in State
               /\ Is(g["x1"], a[1] * (w * w), 1) /\ Is(g["y1"], a[2] * (w * w * w), 1)
               /\ Is(g["x2"], b[1] * (v * v), 1)
               /\ Is(g["y2"], (a[2] + s * (b[1] - a[1])) * (v * v * v), 1)
               /\ Is(g["z1"], w, 1) /\ Is(g["z2"], v, 1)
<1> DEFINE f == a[2] + s * (b[1] - a[1])
<1>1. f \in Int
  <2>1. a[1] \in Int /\ a[2] \in Int /\ b[1] \in Int /\ b[1] - a[1] \in Int
    BY CurvePoint
  <2>2. s * (b[1] - a[1]) \in Int
    BY <2>1, Ring
  <2> QED BY <2>1, <2>2
<1>2. Cong(P, b[2], f)
  BY DEF IsChord
<1> HIDE DEF f
<1> QED BY <1>1, <1>2, LoadedOperands DEF f

\* Both third coordinates are one.
LEMMA AddOnesPoint ==
    ASSUME NEW a \in OnCurve, NEW b \in OnCurve, a[1] # b[1], NEW p1, NEW p2,
           Represents(p1, a), Represents(p2, b), NEW which \in Ways, p1.Z.v = 1, p2.Z.v = 1
    PROVE  Represents(Stored(AddOnes, Loaded(p1, p2), which), Plus(a, b))
<1>1. PICK s \in Int : IsChord(a, b, s)
  BY ChordPoint
<1> DEFINE g == Loaded(p1, p2)
           w == p1.Z.v
           v == p2.Z.v
           gap == b[1] - a[1]
           x1 == a[1] * (w * w)
           y1 == a[2] * (w * w * w)
           x2 == b[1] * (v * v)
           y2 == (a[2] + s * gap) * (v * v * v)
<1>2. /\ w \in Int /\ v \in Int /\ ~Cong(P, w, 0) /\ ~Cong(P, v, 0) /\ g \in State
      /\ Is(g["x1"], x1, 1) /\ Is(g["y1"], y1, 1) /\ Is(g["x2"], x2, 1) /\ Is(g["y2"], y2, 1)
      /\ Is(g["z1"], w, 1) /\ Is(g["z2"], v, 1)
  BY <1>1, ChordOperands
<1>3. a[1] \in Int /\ a[2] \in Int /\ b[1] \in Int /\ gap \in Int /\ b[1] = a[1] + gap
  BY CurvePoint
<1> HIDE DEF g, w, v, gap
<1>4. /\ x1 \in Int /\ y1 \in Int /\ x2 \in Int /\ y2 \in Int
  <2>1. /\ w * w \in Int /\ v * v \in Int /\ w * w * w \in Int /\ v * v * v \in Int
        /\ a[2] + s * gap \in Int
    BY <1>2, <1>3
  <2> QED BY <1>3, <2>1, Ring
<1>5. w = 1 /\ v = 1
  BY DEF w, v
<1> DEFINE h == x2 - x1
           k == y2 - y1
<1>6. /\ h \in Int /\ k \in Int /\ h = gap * (w * w) /\ k = (s * gap) * (w * w * w)
  BY <1>3, <1>5
<1> DEFINE t == Run(AddOnes, g, Alias(which))
           x == 4 * SumX(x1, h, k)
           y == 8 * SumY(x1, y1, h, k)
           z == 2 * h
<1> HIDE DEF x1, y1, x2, y2
<1>7. /\ t \in State /\ Is(t[Called("x3", Alias(which))], x, 6)
      /\ Is(t[Called("y3", Alias(which))], y, 4) /\ Is(t[Called("z3", Alias(which))], z, 6)
  BY <1>2, <1>4, AddOnesGives
<1> HIDE DEF h, k, t
<1>8. /\ x \in Int /\ x = (2 * 2) * SumX(x1, h, k)
      /\ y \in Int /\ y = (2 * 2 * 2) * SumY(x1, y1, h, k)
      /\ z \in Int /\ z = 2 * (w * h)
  <2>1. SumX(x1, h, k) \in Int /\ SumY(x1, y1, h, k) \in Int
    BY <1>4, <1>6, SumTypes
  <2> QED BY <1>5, <1>6, <2>1
<1> HIDE DEF x, y, z
<1>9. x1 = a[1] * (w * w) /\ y1 = a[2] * (w * w * w) /\ 2 \in 1..2
  BY DEF x1, y1
<1>10. Represents(Normalized(t, Alias(which)), Plus(a, b))
  BY <1>1, <1>2, <1>4, <1>6, <1>7, <1>8, <1>9, SumStored DEF gap
<1> QED BY <1>10 DEF Stored, t, g

\* Both have the same third coordinate.
LEMMA AddSameZPoint ==
    ASSUME NEW a \in OnCurve, NEW b \in OnCurve, a[1] # b[1], NEW p1, NEW p2,
           Represents(p1, a), Represents(p2, b), NEW which \in Ways, p1.Z.v = p2.Z.v
    PROVE  Represents(Stored(AddSameZ, Loaded(p1, p2), which), Plus(a, b))
<1>1. PICK s \in Int : IsChord(a, b, s)
  BY ChordPoint
<1> DEFINE g == Loaded(p1, p2)
           w == p1.Z.v
           v == p2.Z.v
           gap == b[1] - a[1]
           x1 == a[1] * (w * w)
           y1 == a[2] * (w * w * w)
           x2 == b[1] * (v * v)
           y2 == (a[2] + s * gap) * (v * v * v)
<1>2. /\ w \in Int /\ v \in Int /\ ~Cong(P, w, 0) /\ ~Cong(P, v, 0) /\ g \in State
      /\ Is(g["x1"], x1, 1) /\ Is(g["y1"], y1, 1) /\ Is(g["x2"], x2, 1) /\ Is(g["y2"], y2, 1)
      /\ Is(g["z1"], w, 1) /\ Is(g["z2"], v, 1)
  BY <1>1, ChordOperands
<1>3. a[1] \in Int /\ a[2] \in Int /\ b[1] \in Int /\ gap \in Int /\ b[1] = a[1] + gap
  BY CurvePoint
<1> HIDE DEF g, w, v, gap
<1>4. /\ x1 \in Int /\ y1 \in Int /\ x2 \in Int /\ y2 \in Int
  <2>1. /\ w * w \in Int /\ v * v \in Int /\ w * w * w \in Int /\ v * v * v \in Int
        /\ a[2] + s * gap \in Int
    BY <1>2, <1>3
  <2> QED BY <1>3, <2>1, Ring
<1>5. v = w
  BY DEF w, v
<1> DEFINE h == x2 - x1
           k == y2 - y1
<1>6. /\ h \in Int /\ k \in Int /\ h = gap * (w * w) /\ k = (s * gap) * (w * w * w)
  <2>1. h = (a[1] + gap) * (w * w) - a[1] * (w * w)
    BY <1>3, <1>5
  <2>2. k = (a[2] + s * gap) * (w * w * w) - a[2] * (w * w * w)
    BY <1>5
  <2> DEFINE e == w * w
             f == w * w * w
             sg == s * gap
  <2>3. e \in Int /\ f \in Int /\ sg \in Int
    BY <1>2, <1>3
  <2>4. h \in Int /\ k \in Int
    BY <1>4
  <2> HIDE DEF e, f, sg, h, k
  <2>5. h = gap * e
    BY <1>3, <2>1, <2>3 DEF e
  <2>6. k = sg * f
    BY <1>3, <2>2, <2>3 DEF f, sg
  <2> QED BY <2>4, <2>5, <2>6 DEF e, f, sg
<1> DEFINE t == Run(AddSameZ, g, Alias(which))
           x == SumX(x1, h, k)
           y == SumY(x1, y1, h, k)
           z == w * h
<1> HIDE DEF x1, y1, x2, y2
<1>7. /\ t \in State /\ Is(t[Called("x3", Alias(which))], x, 4)
      /\ Is(t[Called("y3", Alias(which))], y, 3) /\ Is(t[Called("z3", Alias(which))], z, 1)
  BY <1>2, <1>4, AddSameZGives
<1> HIDE DEF h, k, t
<1>8. /\ x \in Int /\ x = (1 * 1) * SumX(x1, h, k)
      /\ y \in Int /\ y = (1 * 1 * 1) * SumY(x1, y1, h, k)
      /\ z \in Int /\ z = 1 * (w * h)
  <2>1. SumX(x1, h, k) \in Int /\ SumY(x1, y1, h, k) \in Int
    BY <1>4, <1>6, SumTypes
  <2> QED BY <1>2, <1>6, <2>1
<1> HIDE DEF x, y, z
<1>9. x1 = a[1] * (w * w) /\ y1 = a[2] * (w * w * w) /\ 1 \in 1..2
  BY DEF x1, y1
<1>10. Represents(Normalized(t, Alias(which)), Plus(a, b))
  BY <1>1, <1>2, <1>4, <1>6, <1>7, <1>8, <1>9, SumStored DEF gap
<1> QED BY <1>10 DEF Stored, t, g

\* The third coordinate of the second point is one.
LEMMA MixedAddPoint ==
    ASSUME NEW a \in OnCurve, NEW b \in OnCurve, a[1] # b[1], NEW p1, NEW p2,
           Represents(p1, a), Represents(p2, b), NEW which \in Ways, p2.Z.v = 1
    PROVE  Represents(Stored(MixedAddRest, Run(MixedAddFirst, Loaded(p1, p2), <<>>), which),
                      Plus(a, b))
<1>1. PICK s \in Int : IsChord(a, b, s)
  BY ChordPoint
<1> DEFINE g == Loaded(p1, p2)
           w == p1.Z.v
           v == p2.Z.v
           gap == b[1] - a[1]
           x1 == a[1] * (w * w)
           y1 == a[2] * (w * w * w)
           x2 == b[1] * (v * v)
           y2 == (a[2] + s * gap) * (v * v * v)
<1>2. /\ w \in Int /\ v \in Int /\ ~Cong(P, w, 0) /\ ~Cong(P, v, 0) /\ g \in State
      /\ Is(g["x1"], x1, 1) /\ Is(g["y1"], y1, 1) /\ Is(g["x2"], x2, 1) /\ Is(g["y2"], y2, 1)
      /\ Is(g["z1"], w, 1) /\ Is(g["z2"], v, 1)
  BY <1>1, ChordOperands
<1>3. a[1] \in Int /\ a[2] \in Int /\ b[1] \in Int /\ gap \in Int /\ b[1] = a[1] + gap
  BY CurvePoint
<1> HIDE DEF g, w, v, gap
<1>4. /\ x1 \in Int /\ y1 \in Int /\ x2 \in Int /\ y2 \in Int
  <2>1. /\ w * w \in Int /\ v * v \in Int /\ w * w * w \in Int /\ v * v * v \in Int
        /\ a[2] + s * gap \in Int
    BY <1>2, <1>3
  <2> QED BY <1>3, <2>1, Ring
<1>5. v = 1
  BY DEF v
<1> DEFINE u2 == x2 * (w * w)
           s2 == y2 * (w * w * w)
           h == u2 - x1
           k == s2 - y1
<1>6. /\ u2 \in Int /\ s2 \in Int /\ h \in Int /\ k \in Int
      /\ h = gap * (w * w) /\ k = (s * gap) * (w * w * w)
  <2> DEFINE e == w * w
             f == w * w * w
             sg == s * gap
  <2>1. e \in Int /\ f \in Int /\ sg \in Int
    BY <1>2, <1>3
  <2>2. x2 = a[1] + gap /\ y2 = a[2] + sg
    BY <1>3, <1>5, <2>1
  <2>3. x1 = a[1] * e /\ y1 = a[2] * f /\ u2 = x2 * e /\ s2 = y2 * f
    OBVIOUS
  <2>4. h = u2 - x1 /\ k = s2 - y1
    OBVIOUS
  <2> HIDE DEF e, f, sg, x1, y1, x2, y2, u2, s2, h, k
  <2>5. u2 \in Int /\ s2 \in Int /\ h \in Int /\ k \in Int
    BY <1>4, <2>1, <2>3, <2>4
  <2>6. h = gap * e
    BY <1>3, <2>1, <2>2, <2>3, <2>4
  <2>7. k = sg * f
    BY <1>3, <2>1, <2>2, <2>3, <2>4
  <2> QED BY <2>5, <2>6, <2>7 DEF e, f, sg
<1> HIDE DEF x1, y1, x2, y2
<1> DEFINE r == Run(MixedAddFirst, g, <<>>)
<1>7. /\ r \in State /\ Is(r["x1"], x1, 1) /\ Is(r["y1"], y1, 1) /\ Is(r["z1"], w, 1)
      /\ Is(r["z1z1"], w * w, 1) /\ Is(r["u2"], u2, 1) /\ Is(r["s2"], s2, 1)
  BY <1>2, <1>4, MixedAddFirstGives
<1> HIDE DEF u2, s2, r
<1> DEFINE t == Run(MixedAddRest, r, Alias(which))
           x == 4 * SumX(x1, h, k)
           y == 8 * SumY(x1, y1, h, k)
           z == 2 * (w * h)
<1>8. /\ t \in State /\ Is(t[Called("x3", Alias(which))], x, 5)
      /\ Is(t[Called("y3", Alias(which))], y, 4) /\ Is(t[Called("z3", Alias(which))], z, 4)
  BY <1>2, <1>4, <1>6, <1>7, MixedAddRestGives
<1> HIDE DEF h, k, t
<1>9. /\ x \in Int /\ x = (2 * 2) * SumX(x1, h, k)
      /\ y \in Int /\ y = (2 * 2 * 2) * SumY(x1, y1, h, k)
      /\ z \in Int /\ z = 2 * (w * h)
  <2>1. SumX(x1, h, k) \in Int /\ SumY(x1, y1, h, k) \in Int
    BY <1>4, <1>6, SumTypes
  <2> QED BY <1>2, <1>6, <2>1
<1> HIDE DEF x, y, z
<1>10. x1 = a[1] * (w * w) /\ y1 = a[2] * (w * w * w) /\ 2 \in 1..2
  BY DEF x1, y1
<1>11. Represents(Normalized(t, Alias(which)), Plus(a, b))
  BY <1>1, <1>2, <1>4, <1>6, <1>8, <1>9, <1>10, SumStored DEF gap
<1> QED BY <1>11 DEF Stored, t, r, g

\* Any third coordinates: the common one is their product.
LEMMA GenericAddPoint ==
    ASSUME NEW a \in OnCurve, NEW b \in OnCurve, a[1] # b[1], NEW p1, NEW p2,
           Represents(p1, a), Represents(p2, b), NEW which \in Ways
    PROVE  Represents(Stored(GenericAddRest, Run(GenericAddFirst, Loaded(p1, p2), <<>>), which),
                      Plus(a, b))
<1>1. PICK s \in Int : IsChord(a, b, s)
  BY ChordPoint
<1> DEFINE g == Loaded(p1, p2)
           w == p1.Z.v
           v == p2.Z.v
           gap == b[1] - a[1]
           x1 == a[1] * (w * w)
           y1 == a[2] * (w * w * w)
           x2 == b[1] * (v * v)
           y2 == (a[2] + s * gap) * (v * v * v)
<1>2. /\ w \in Int /\ v \in Int /\ ~Cong(P, w, 0) /\ ~Cong(P, v, 0) /\ g \in State
      /\ Is(g["x1"], x1, 1) /\ Is(g["y1"], y1, 1) /\ Is(g["x2"], x2, 1) /\ Is(g["y2"], y2, 1)
      /\ Is(g["z1"], w, 1) /\ Is(g["z2"], v, 1)
  BY <1>1, ChordOperands
<1>3. a[1] \in Int /\ a[2] \in Int /\ b[1] \in Int /\ gap \in Int /\ b[1] = a[1] + gap
  BY CurvePoint
<1> HIDE DEF g, w, v, gap
<1>4. /\ x1 \in Int /\ y1 \in Int /\ x2 \in Int /\ y2 \in Int
  <2>1. /\ w * w \in Int /\ v * v \in Int /\ w * w * w \in Int /\ v * v * v \in Int
        /\ a[2] + s * gap \in Int
    BY <1>2, <1>3
  <2> QED BY <1>3, <2>1, Ring
<1> DEFINE m == w * v
           u1 == x1 * (v * v)
           u2 == x2 * (w * w)
           s1 == y1 * (v * v * v)
           s2 == y2 * (w * w * w)
           h == u2 - u1
           k == s2 - s1
<1>5. m \in Int /\ ~Cong(P, m, 0)
  BY <1>2, ProductNotZero
<1>6. /\ u1 \in Int /\ u1 = a[1] * (m * m) /\ s1 \in Int /\ s1 = a[2] * (m * m * m)
      /\ u2 \in Int /\ s2 \in Int /\ h \in Int /\ k \in Int
      /\ h = gap * (m * m) /\ k = (s * gap) * (m * m * m)
  <2> DEFINE e == m * m
             f == m * m * m
             sg == s * gap
             c == b[1]
             j == a[2] + sg
  <2>1. e \in Int /\ f \in Int /\ sg \in Int /\ j \in Int /\ c \in Int /\ c = a[1] + gap
    BY <1>2, <1>3
  <2>2. u1 = a[1] * e /\ s1 = a[2] * f
    BY <1>2, <1>3
  <2>3. u2 = c * e /\ s2 = j * f
    <3>1. u2 = c * (v * v) * (w * w) /\ s2 = j * (v * v * v) * (w * w * w)
      OBVIOUS
    <3> HIDE DEF c, j, u2, s2
    <3>2. u2 = c * e
      BY <1>2, <2>1, <3>1
    <3>3. s2 = j * f
      BY <1>2, <2>1, <3>1
    <3> QED BY <3>2, <3>3
  <2>4. h = u2 - u1 /\ k = s2 - s1 /\ j = a[2] + sg
    OBVIOUS
  <2> HIDE DEF e, f, sg, c, j, u1, s1, u2, s2, h, k
  <2>5. u1 \in Int /\ s1 \in Int /\ u2 \in Int /\ s2 \in Int /\ h \in Int /\ k \in Int
    BY <1>3, <2>1, <2>2, <2>3, <2>4
  <2>6. h = gap * e
    BY <1>3, <2>1, <2>2, <2>3, <2>4
  <2>7. k = sg * f
    BY <1>3, <2>1, <2>2, <2>3, <2>4
  <2> QED BY <2>2, <2>5, <2>6, <2>7 DEF e, f, sg
<1> HIDE DEF x1, y1, x2, y2
<1> DEFINE r == Run(GenericAddFirst, g, <<>>)
<1>7. /\ r \in State /\ Is(r["z1"], w, 1) /\ Is(r["z2"], v, 1)
      /\ Is(r["z1z1"], w * w, 1) /\ Is(r["z2z2"], v * v, 1)
      /\ Is(r["u1"], u1, 1) /\ Is(r["u2"], u2, 1) /\ Is(r["s1"], s1, 1) /\ Is(r["s2"], s2, 1)
  BY <1>2, <1>4, GenericAddFirstGives
<1> HIDE DEF u1, u2, s1, s2, r
<1> DEFINE t == Run(GenericAddRest, r, Alias(which))
           x == 4 * SumX(u1, h, k)
           y == 8 * SumY(u1, s1, h, k)
           z == 2 * (w * v * h)
<1>8. /\ t \in State /\ Is(t[Called("x3", Alias(which))], x, 5)
      /\ Is(t[Called("y3", Alias(which))], y, 4) /\ Is(t[Called("z3", Alias(which))], z, 1)
  BY <1>2, <1>6, <1>7, GenericAddRestGives
<1> HIDE DEF h, k, t
<1>9. /\ x \in Int /\ x = (2 * 2) * SumX(u1, h, k)
      /\ y \in Int /\ y = (2 * 2 * 2) * SumY(u1, s1, h, k)
      /\ z \in Int /\ z = 2 * (m * h)
  <2>1. SumX(u1, h, k) \in Int /\ SumY(u1, s1, h, k) \in Int
    BY <1>6, SumTypes
  <2> QED BY <1>2, <1>5, <1>6, <2>1
<1> HIDE DEF x, y, z, m
<1>10. Represents(Normalized(t, Alias(which)), Plus(a, b))
  <2>1. 2 \in 1..2
    OBVIOUS
  <2> QED BY <1>1, <1>5, <1>6, <1>8, <1>9, <2>1, SumStored DEF gap
<1> QED BY <1>10 DEF Stored, t, r, g

LEMMA NowhereGives ==
    Gives(Nowhere, 0, 0, 0) /\ Represents(Nowhere, Infinity)
<1>1. P \in Nat \ {0} /\ 0 \in 0..(P - 1) /\ 0 \in Int
  BY CurveNumbers
<1>2. Cong(P, 0, 0)
  BY <1>1, CongRefl
<1>3. Field(0) \in FE /\ Is(Field(0), 0, 1) /\ Field(0).norm = TRUE /\ Field(0).v = 0
  BY <1>1, <1>2 DEF Field, FE, MaxMagnitude, Is
<1>4. /\ Nowhere = [X |-> Field(0), Y |-> Field(0), Z |-> Field(0)]
      /\ Nowhere.X = Field(0) /\ Nowhere.Y = Field(0) /\ Nowhere.Z = Field(0)
  BY DEF Nowhere, Point
<1>5. Gives(Nowhere, 0, 0, 0)
  BY <1>3, <1>4 DEF Gives
<1>6. IsNowhere(Nowhere)
  BY <1>3, <1>4 DEF IsNowhere
<1> QED BY <1>3, <1>4, <1>5, <1>6 DEF Represents

\* The common end of both doublings.
LEMMA DoubleRestPoint ==
    ASSUME NEW a \in OnCurve, NEW w \in Int, ~Cong(P, w, 0), NEW which \in Ways,
           NEW x \in Int, x = a[1] * (w * w), NEW y \in Int, y = a[2] * (w * w * w),
           NEW z \in Int, z = 2 * (y * w), NEW g \in State,
           Is(g["x1"], x, 1), Is(g["y1"], y, 1), Is(g[Called("z3", Alias(which))], z, 2)
    PROVE  Represents(Stored(DoubleRest, g, which), Plus(a, a))
<1>1. PICK s \in Int : IsTangent(a, s)
  BY TangentPoint
<1> DEFINE x1 == a[1]
           y1 == a[2]
           ww == w * w
           n == 3 * (x1 * x1)
           m == (2 * y1) * s
           e == m * (ww * ww)
           r == s * s - 2 * x1
           f == s * (x1 - r) - y1
           p == Stored(DoubleRest, g, which)
           xs == TangentX(x, y, e)
           ys == TangentY(x, y, e)
<1>2. x1 \in Int /\ y1 \in 1..(P - 1) /\ y1 \in Int /\ P \in Nat \ {0}
  BY CurvePoint, NotItsNegation, CurveNumbers
<1>3. /\ Cong(P, n, m) /\ Cong(P, Plus(a, a)[1], r) /\ Cong(P, Plus(a, a)[2], f)
      /\ Plus(a, a) \in OnCurve /\ x = x1 * (w * w) /\ y = y1 * (w * w * w)
  BY <1>1, TangentPoint DEF IsTangent
<1> HIDE DEF x1, y1, p
<1>4. ww \in Int /\ n \in Int /\ m \in Int /\ e \in Int /\ r \in Int /\ f \in Int
  <2>1. ww \in Int /\ n \in Int /\ m \in Int /\ r \in Int
    BY <1>2
  <2>2. e \in Int
    <3> HIDE DEF ww, m
    <3> QED BY <2>1
  <2>3. f \in Int
    <3> HIDE DEF r
    <3> QED BY <1>2, <2>1
  <2> QED BY <2>1, <2>2, <2>3
<1>5. Cong(P, 3 * (x * x), e)
  <2>1. 3 * (x * x) = n * (ww * ww)
    <3>1. 3 * ((x1 * (w * w)) * (x1 * (w * w))) = n * (ww * ww)
      BY <1>2
    <3> QED BY <1>3, <3>1
  <2>2. ww * ww \in Int
    BY <1>4, Ring
  <2> HIDE DEF n, m, ww
  <2>3. Cong(P, n * (ww * ww), m * (ww * ww))
    BY <1>2, <1>3, <1>4, <2>2, CongScale
  <2> QED BY <2>1, <2>3
<1>6. /\ xs = r * (z * z) /\ ys = f * (z * z * z)
  <2> DEFINE xx == x1 * (w * w)
             yy == y1 * (w * w * w)
             zz == 2 * (yy * w)
  <2>1. /\ TangentX(xx, yy, e) = r * (zz * zz)
        /\ TangentY(xx, yy, e) = f * (zz * zz * zz)
    BY <1>2 DEF TangentX, TangentY
  <2>2. x = xx /\ y = yy /\ z = zz
    BY <1>3
  <2> HIDE DEF xx, yy, zz, e, r, f
  <2> QED BY <2>1, <2>2
<1> HIDE DEF ww, n, m, e, r, f
<1>7. xs \in Int /\ ys \in Int
  BY <1>4, <1>6
<1>8. Gives(p, xs, ys, z)
  <2> DEFINE t == Run(DoubleRest, g, Alias(which))
  <2>1. /\ t \in State /\ Is(t[Called("x3", Alias(which))], xs, 18)
        /\ Is(t[Called("y3", Alias(which))], ys, 10) /\ Is(t[Called("z3", Alias(which))], z, 2)
    BY <1>4, <1>5, DoubleRestGives
  <2> HIDE DEF t, xs, ys
  <2>2. Gives(Normalized(t, Alias(which)), xs, ys, z)
    BY <1>7, <2>1, NormalizedGives
  <2> QED BY <2>2 DEF Stored, t, p
<1>9. ~Cong(P, z, 0)
  <2>1. 2 \in 1..(P - 1)
    BY CurveNumbers
  <2>2. ~Cong(P, 2, 0) /\ ~Cong(P, y1, 0) /\ 2 \in Int
    BY <1>2, <2>1, SmallNotZero
  <2>3. ~Cong(P, w * w, 0) /\ w * w \in Int
    BY ProductNotZero
  <2>4. ~Cong(P, w * w * w, 0) /\ w * w * w \in Int
    BY <2>3, ProductNotZero
  <2> DEFINE www == w * w * w
  <2> HIDE DEF www
  <2>5. www \in Int /\ ~Cong(P, www, 0) /\ y = y1 * www
    BY <1>3, <2>4 DEF www
  <2>6. ~Cong(P, y, 0)
    BY <1>2, <2>2, <2>5, ProductNotZero
  <2>7. ~Cong(P, y * w, 0) /\ y * w \in Int
    BY <2>6, ProductNotZero
  <2> QED BY <2>2, <2>7, ProductNotZero
<1> HIDE DEF xs, ys
<1>10. Gives(p, r * (z * z), f * (z * z * z), z)
  BY <1>6, <1>8
<1> QED BY <1>3, <1>4, <1>9, <1>10, RepresentsAt DEF p

\* A point and its double, from the second point's absence.
LEMMA DoubleOperand ==
    ASSUME NEW a \in OnCurve, NEW p, Represents(p, a)
    PROVE  LET w == p.Z.v
               g == Loaded(p, Nowhere)
           IN  /\ w \in Int /\ ~Cong(P, w, 0) /\ g \in State
               /\ a[1] * (w * w) \in Int /\ a[2] * (w * w * w) \in Int
               /\ Is(g["x1"], a[1] * (w * w), 1) /\ Is(g["y1"], a[2] * (w * w * w), 1)
               /\ Is(g["z1"], w, 1)
<1> DEFINE w == p.Z.v
           x == a[1] * (w * w)
           y == a[2] * (w * w * w)
<1>1. /\ P \in Nat \ {0} /\ a[1] \in Int /\ a[2] \in Int /\ 0 \in Int
  BY CurveNumbers, CurvePoint
<1>2. w \in Int /\ ~Cong(P, w, 0) /\ Gives(p, x, y, w)
  <2>1. Cong(P, a[1], a[1]) /\ Cong(P, a[2], a[2])
    BY <1>1, CongRefl
  <2> QED BY <1>1, <2>1, CoordinatesOf
<1> HIDE DEF w
<1>3. x \in Int /\ y \in Int
  BY <1>1, <1>2
<1> HIDE DEF x, y
<1>4. LET g == Loaded(p, Nowhere)
      IN  g \in State /\ Is(g["x1"], x, 1) /\ Is(g["y1"], y, 1) /\ Is(g["z1"], w, 1)
  BY <1>1, <1>2, <1>3, LoadedState, NowhereGives
<1> QED BY <1>2, <1>3, <1>4 DEF w, x, y

LEMMA DoublePoint ==
    ASSUME NEW a \in OnCurve, NEW p, Represents(p, a), NEW which \in Ways
    PROVE  /\ p.Z.v = 1 => Represents(doubleZ1EqualsOne(p, which), Plus(a, a))
           /\ Represents(doubleGeneric(p, which), Plus(a, a))
<1> DEFINE w == p.Z.v
           g == Loaded(p, Nowhere)
           x == a[1] * (w * w)
           y == a[2] * (w * w * w)
           z == 2 * (y * w)
<1>1. /\ w \in Int /\ ~Cong(P, w, 0) /\ g \in State /\ x \in Int /\ y \in Int
      /\ Is(g["x1"], x, 1) /\ Is(g["y1"], y, 1) /\ Is(g["z1"], w, 1)
  BY DoubleOperand
<1>2. x = a[1] * (w * w) /\ y = a[2] * (w * w * w)
  OBVIOUS
<1> HIDE DEF w, g, x, y
<1>3. z \in Int /\ z = y * w * 2
  BY <1>1
<1>4. ASSUME p.Z.v = 1 PROVE Represents(doubleZ1EqualsOne(p, which), Plus(a, a))
  <2> DEFINE t == Run(DoubleOne, g, Alias(which))
  <2>1. /\ t \in State /\ Is(t["x1"], x, 1) /\ Is(t["y1"], y, 1)
        /\ Is(t[Called("z3", Alias(which))], y * 2, 2)
    BY <1>1, DoubleOneGives
  <2>2. y * 2 = z
    BY <1>1, <1>4 DEF w
  <2> HIDE DEF t, z
  <2>3. Represents(Stored(DoubleRest, t, which), Plus(a, a))
    <3>1. z = 2 * (y * w)
      BY DEF z
    <3> QED BY <1>1, <1>2, <1>3, <2>1, <2>2, <3>1, DoubleRestPoint
  <2> QED BY <2>3 DEF doubleZ1EqualsOne, DoubleEnds, t, g
<1>5. Represents(doubleGeneric(p, which), Plus(a, a))
  <2> DEFINE t == Run(DoubleAny, g, Alias(which))
  <2>1. /\ t \in State /\ Is(t["x1"], x, 1) /\ Is(t["y1"], y, 1)
        /\ Is(t[Called("z3", Alias(which))], y * w * 2, 2)
    BY <1>1, DoubleAnyGives
  <2>2. z = 2 * (y * w)
    OBVIOUS
  <2> HIDE DEF t, z
  <2>3. Represents(Stored(DoubleRest, t, which), Plus(a, a))
    BY <1>1, <1>2, <1>3, <2>1, <2>2, DoubleRestPoint
  <2> QED BY <2>3 DEF doubleGeneric, DoubleEnds, t, g
<1> QED BY <1>4, <1>5

-----------------------------------------------------------------------------
(* The cases of an addition.                                               *)

\* Registers over a common factor are equal if the coordinates are.
LEMMA EqualWhen ==
    ASSUME NEW x \in 0..(P - 1), NEW y \in 0..(P - 1), NEW m \in Int, ~Cong(P, m, 0),
           NEW e, NEW f, NEW k, NEW l, Is(e, x * m, k), Is(f, y * m, l)
    PROVE  e.v = f.v <=> x = y
<1> DEFINE u == x * m
           v == y * m
<1>1. /\ P \in Nat \ {0} /\ Prime(P) /\ x \in Int /\ y \in Int /\ u \in Int /\ v \in Int
      /\ 0 \in Int
  BY CurveNumbers, Ring
<1>2. /\ e.v \in 0..(P - 1) /\ f.v \in 0..(P - 1) /\ e.v \in Int /\ f.v \in Int
      /\ Cong(P, e.v, u) /\ Cong(P, f.v, v)
  BY <1>1 DEF Is, FE
<1>3. ASSUME x = y PROVE e.v = f.v
  <2>1. u = v
    BY <1>3
  <2> HIDE DEF u, v
  <2>2. Cong(P, v, f.v) /\ Cong(P, e.v, v)
    BY <1>1, <1>2, <2>1, CongSym
  <2>3. Cong(P, e.v, f.v)
    BY <1>1, <1>2, <2>2, CongTrans
  <2> QED BY <1>1, <1>2, <2>3, CongSmall
<1>4. ASSUME e.v = f.v PROVE x = y
  <2> HIDE DEF u, v
  <2>1. Cong(P, u, e.v) /\ Cong(P, e.v, v)
    BY <1>1, <1>2, <1>4, CongSym
  <2>2. Cong(P, u, v)
    BY <1>1, <1>2, <2>1, CongTrans
  <2>3. Cong(P, x * m, y * m)
    BY <2>2 DEF u, v
  <2>4. Cong(P, x, y)
    BY <1>1, <2>3, PrimeCancel
  <2> QED BY <1>1, <2>4, CongSmall
<1> QED BY <1>3, <1>4

LEMMA DoubleGives ==
    ASSUME NEW pt \in Group, NEW p, Represents(p, pt), NEW which \in Ways
    PROVE  Represents(DoubleNonConst(p, which), Plus(pt, pt))
<1>1. CASE pt = Infinity
  <2>1. IsNowhere(p)
    BY <1>1, CurvePoint DEF Represents
  <2>2. p.Y.v = 0 \/ p.Z.v = 0
    BY <2>1 DEF IsNowhere
  <2>3. DoubleNonConst(p, which) = Nowhere
    BY <2>2 DEF DoubleNonConst
  <2>4. Plus(pt, pt) = Infinity
    BY <1>1, PlusInfinity
  <2> QED BY <2>3, <2>4, NowhereGives
<1>2. CASE pt # Infinity
  <2>1. pt \in OnCurve
    BY <1>2 DEF Group
  <2>2. p.Z.v # 0 /\ p.Y.v # 0
    <3>1. pt[1] \in Int /\ pt[2] \in Int /\ Cong(P, pt[1], pt[1]) /\ Cong(P, pt[2], pt[2])
      BY <2>1, CurvePoint, CurveNumbers, CongRefl
    <3> QED BY <2>1, <3>1, CoordinatesOf
  <2>4. CASE p.Z.v = 1
    <3>1. DoubleNonConst(p, which) = doubleZ1EqualsOne(p, which)
      BY <2>2, <2>4 DEF DoubleNonConst
    <3> QED BY <2>1, <2>4, <3>1, DoublePoint
  <2>5. CASE p.Z.v # 1
    <3>1. DoubleNonConst(p, which) = doubleGeneric(p, which)
      BY <2>2, <2>5 DEF DoubleNonConst
    <3> QED BY <2>1, <3>1, DoublePoint
  <2> QED BY <2>4, <2>5
<1> QED BY <1>1, <1>2

\* Where the first coordinates are the same.
LEMMA SameXPoint ==
    ASSUME NEW a \in OnCurve, NEW b \in OnCurve, a[1] = b[1], NEW p1, Represents(p1, a),
           NEW y1, NEW y2, y1.v = y2.v <=> a[2] = b[2], NEW which \in Ways
    PROVE  Represents(SameX(p1, y1, y2, which), Plus(a, b))
<1>1. CASE a[2] = b[2]
  <2>1. a = b /\ a \in Group
    BY <1>1, CurvePoint
  <2>2. (IF which = "p1" THEN which ELSE "none") \in Ways
    BY DEF Ways
  <2>3. SameX(p1, y1, y2, which) = DoubleNonConst(p1, IF which = "p1" THEN which ELSE "none")
    BY <1>1 DEF SameX
  <2> QED BY <2>1, <2>2, <2>3, DoubleGives
<1>2. CASE a[2] # b[2]
  <2>1. Plus(a, b) = Infinity
    BY <1>2, SameFirst
  <2>2. SameX(p1, y1, y2, which) = Nowhere
    BY <1>2 DEF SameX
  <2> QED BY <2>1, <2>2, NowhereGives
<1> QED BY <1>1, <1>2

\* At the same third coordinate.
LEMMA SameZGives ==
    ASSUME NEW a \in OnCurve, NEW b \in OnCurve, NEW p1, NEW p2, Represents(p1, a),
           Represents(p2, b), NEW which \in Ways, p1.Z.v = p2.Z.v
    PROVE  /\ p1.Z.v = 1 => Represents(addZ1AndZ2EqualsOne(p1, p2, which), Plus(a, b))
           /\ Represents(addZ1EqualsZ2(p1, p2, which), Plus(a, b))
<1> DEFINE w == p1.Z.v
<1>1. /\ P \in Nat \ {0} /\ a[1] \in 0..(P - 1) /\ a[2] \in 0..(P - 1) /\ b[1] \in 0..(P - 1)
      /\ b[2] \in 0..(P - 1) /\ a[1] \in Int /\ a[2] \in Int /\ b[1] \in Int /\ b[2] \in Int
  BY CurveNumbers, CurvePoint
<1>2. /\ Cong(P, a[1], a[1]) /\ Cong(P, a[2], a[2]) /\ Cong(P, b[1], b[1])
      /\ Cong(P, b[2], b[2])
  BY <1>1, CongRefl
<1>3. /\ w \in Int /\ ~Cong(P, w, 0) /\ Gives(p1, a[1] * (w * w), a[2] * (w * w * w), w)
  BY <1>1, <1>2, CoordinatesOf
<1>4. Gives(p2, b[1] * (w * w), b[2] * (w * w * w), w)
  BY <1>1, <1>2, CoordinatesOf
<1> HIDE DEF w
<1>5. /\ w * w \in Int /\ ~Cong(P, w * w, 0)
  BY <1>3, ProductNotZero
<1>6. /\ w * w * w \in Int /\ ~Cong(P, w * w * w, 0)
  BY <1>3, <1>5, ProductNotZero
<1>7. p1.X.v = p2.X.v <=> a[1] = b[1]
  BY <1>1, <1>3, <1>4, <1>5, EqualWhen DEF Gives
<1>8. p1.Y.v = p2.Y.v <=> a[2] = b[2]
  BY <1>1, <1>3, <1>4, <1>6, EqualWhen DEF Gives
<1>9. CASE a[1] = b[1]
  <2>1. Represents(SameX(p1, p1.Y, p2.Y, which), Plus(a, b))
    BY <1>8, <1>9, SameXPoint
  <2> QED BY <1>7, <1>9, <2>1 DEF addZ1AndZ2EqualsOne, addZ1EqualsZ2
<1>10. CASE a[1] # b[1]
  <2>1. p1.Z.v = 1 => Represents(Stored(AddOnes, Loaded(p1, p2), which), Plus(a, b))
    BY <1>10, AddOnesPoint
  <2>2. Represents(Stored(AddSameZ, Loaded(p1, p2), which), Plus(a, b))
    BY <1>10, AddSameZPoint
  <2> QED BY <1>7, <1>10, <2>1, <2>2 DEF addZ1AndZ2EqualsOne, addZ1EqualsZ2
<1> QED BY <1>9, <1>10

\* The second point at the third coordinate one.
LEMMA MixedGives ==
    ASSUME NEW a \in OnCurve, NEW b \in OnCurve, NEW p1, NEW p2, Represents(p1, a),
           Represents(p2, b), NEW which \in Ways, p2.Z.v = 1
    PROVE  Represents(addZ2EqualsOne(p1, p2, which), Plus(a, b))
<1> DEFINE w == p1.Z.v
           g == Loaded(p1, p2)
           x1 == a[1] * (w * w)
           y1 == a[2] * (w * w * w)
           r == Run(MixedAddFirst, g, <<>>)
<1>1. /\ P \in Nat \ {0} /\ a[1] \in 0..(P - 1) /\ a[2] \in 0..(P - 1) /\ b[1] \in 0..(P - 1)
      /\ b[2] \in 0..(P - 1) /\ a[1] \in Int /\ a[2] \in Int /\ b[1] \in Int /\ b[2] \in Int
  BY CurveNumbers, CurvePoint
<1>2. Cong(P, b[2], b[2])
  BY <1>1, CongRefl
<1>3. /\ w \in Int /\ ~Cong(P, w, 0) /\ g \in State /\ Is(g["x1"], x1, 1) /\ Is(g["y1"], y1, 1)
      /\ Is(g["x2"], b[1] * (1 * 1), 1) /\ Is(g["y2"], b[2] * (1 * 1 * 1), 1) /\ Is(g["z1"], w, 1)
  BY <1>1, <1>2, LoadedOperands
<1>4. b[1] * (1 * 1) = b[1] /\ b[2] * (1 * 1 * 1) = b[2]
  BY <1>1
<1>5. g["x1"] = p1.X /\ g["y1"] = p1.Y
  BY DEF Loaded, Registers
<1> HIDE DEF w, g
<1>6. /\ w * w \in Int /\ ~Cong(P, w * w, 0)
  BY <1>3, ProductNotZero
<1>7. /\ w * w * w \in Int /\ ~Cong(P, w * w * w, 0)
  BY <1>3, <1>6, ProductNotZero
<1>8. x1 \in Int /\ y1 \in Int
  BY <1>1, <1>6, <1>7, Ring
<1> HIDE DEF x1, y1
<1>9. Is(r["u2"], b[1] * (w * w), 1) /\ Is(r["s2"], b[2] * (w * w * w), 1)
  BY <1>1, <1>3, <1>4, <1>8, MixedAddFirstGives
<1> HIDE DEF r
<1> DEFINE n2 == w * w
           n3 == w * w * w
           u2 == r["u2"]
           s2 == r["s2"]
<1>f. /\ Is(p1.X, a[1] * n2, 1) /\ Is(u2, b[1] * n2, 1)
      /\ Is(p1.Y, a[2] * n3, 1) /\ Is(s2, b[2] * n3, 1)
      /\ n2 \in Int /\ ~Cong(P, n2, 0) /\ n3 \in Int /\ ~Cong(P, n3, 0)
  BY <1>3, <1>5, <1>6, <1>7, <1>9 DEF x1, y1
<1> HIDE DEF n2, n3, u2, s2
<1> DEFINE ex == p1.X
           ey == p1.Y
           xa == a[1]
           xb == b[1]
           ya == a[2]
           yb == b[2]
<1>k. /\ xa \in 0..(P - 1) /\ xb \in 0..(P - 1) /\ Is(ex, xa * n2, 1) /\ Is(u2, xb * n2, 1)
      /\ n2 \in Int /\ ~Cong(P, n2, 0)
  BY <1>1, <1>f
<1>l. /\ ya \in 0..(P - 1) /\ yb \in 0..(P - 1) /\ Is(ey, ya * n3, 1) /\ Is(s2, yb * n3, 1)
      /\ n3 \in Int /\ ~Cong(P, n3, 0)
  BY <1>1, <1>f
<1> HIDE DEF ex, ey, xa, xb, ya, yb
<1>g. ex.v = u2.v <=> xa = xb
  BY <1>k, EqualWhen
<1>h. ey.v = s2.v <=> ya = yb
  BY <1>l, EqualWhen
<1>10. p1.X.v = r["u2"].v <=> a[1] = b[1]
  BY <1>g DEF u2, ex, xa, xb
<1>11. p1.Y.v = r["s2"].v <=> a[2] = b[2]
  BY <1>h DEF s2, ey, ya, yb
<1>12. addZ2EqualsOne(p1, p2, which) = MixedAddEnds(r, p1, which)
  BY DEF addZ2EqualsOne, r, g
<1>13. CASE a[1] = b[1]
  <2>1. Represents(SameX(p1, p1.Y, r["s2"], which), Plus(a, b))
    BY <1>11, <1>13, SameXPoint
  <2> QED BY <1>10, <1>12, <1>13, <2>1 DEF MixedAddEnds
<1>14. CASE a[1] # b[1]
  <2>1. Represents(Stored(MixedAddRest, r, which), Plus(a, b))
    BY <1>14, MixedAddPoint DEF r, g
  <2> QED BY <1>10, <1>12, <1>14, <2>1 DEF MixedAddEnds
<1> QED BY <1>13, <1>14

\* Any third coordinates.
LEMMA GenericGives ==
    ASSUME NEW a \in OnCurve, NEW b \in OnCurve, NEW p1, NEW p2, Represents(p1, a),
           Represents(p2, b), NEW which \in Ways
    PROVE  Represents(addGeneric(p1, p2, which), Plus(a, b))
<1> DEFINE w == p1.Z.v
           v == p2.Z.v
           g == Loaded(p1, p2)
           x1 == a[1] * (w * w)
           y1 == a[2] * (w * w * w)
           x2 == b[1] * (v * v)
           y2 == b[2] * (v * v * v)
           m == w * v
           r == Run(GenericAddFirst, g, <<>>)
<1>1. /\ P \in Nat \ {0} /\ a[1] \in 0..(P - 1) /\ a[2] \in 0..(P - 1) /\ b[1] \in 0..(P - 1)
      /\ b[2] \in 0..(P - 1) /\ a[1] \in Int /\ a[2] \in Int /\ b[1] \in Int /\ b[2] \in Int
  BY CurveNumbers, CurvePoint
<1>2. Cong(P, b[2], b[2])
  BY <1>1, CongRefl
<1>3. /\ w \in Int /\ v \in Int /\ ~Cong(P, w, 0) /\ ~Cong(P, v, 0) /\ g \in State
      /\ Is(g["x1"], x1, 1) /\ Is(g["y1"], y1, 1) /\ Is(g["x2"], x2, 1) /\ Is(g["y2"], y2, 1)
      /\ Is(g["z1"], w, 1) /\ Is(g["z2"], v, 1)
  BY <1>1, <1>2, LoadedOperands
<1> HIDE DEF w, v, g
<1>4. m \in Int /\ ~Cong(P, m, 0)
  BY <1>3, ProductNotZero
<1>5. x1 \in Int /\ y1 \in Int /\ x2 \in Int /\ y2 \in Int
  <2>1. /\ w * w \in Int /\ v * v \in Int /\ w * w * w \in Int /\ v * v * v \in Int
    BY <1>3
  <2> QED BY <1>1, <2>1, Ring
<1>6. /\ x1 * (v * v) = a[1] * (m * m) /\ y1 * (v * v * v) = a[2] * (m * m * m)
      /\ x2 * (w * w) = b[1] * (m * m) /\ y2 * (w * w * w) = b[2] * (m * m * m)
  BY <1>1, <1>3
<1> HIDE DEF m, x1, y1, x2, y2
<1>7. /\ m * m \in Int /\ ~Cong(P, m * m, 0)
  BY <1>4, ProductNotZero
<1>8. /\ m * m * m \in Int /\ ~Cong(P, m * m * m, 0)
  BY <1>4, <1>7, ProductNotZero
<1>9. /\ Is(r["u1"], x1 * (v * v), 1) /\ Is(r["u2"], x2 * (w * w), 1)
      /\ Is(r["s1"], y1 * (v * v * v), 1) /\ Is(r["s2"], y2 * (w * w * w), 1)
  BY <1>3, <1>5, GenericAddFirstGives
<1> HIDE DEF r
<1> DEFINE n2 == m * m
           n3 == m * m * m
           u1 == r["u1"]
           s1 == r["s1"]
           u2 == r["u2"]
           s2 == r["s2"]
<1>f. /\ Is(u1, a[1] * n2, 1) /\ Is(u2, b[1] * n2, 1)
      /\ Is(s1, a[2] * n3, 1) /\ Is(s2, b[2] * n3, 1)
      /\ n2 \in Int /\ ~Cong(P, n2, 0) /\ n3 \in Int /\ ~Cong(P, n3, 0)
  BY <1>6, <1>7, <1>8, <1>9
<1> HIDE DEF n2, n3, u1, s1, u2, s2
<1> DEFINE xa == a[1]
           xb == b[1]
           ya == a[2]
           yb == b[2]
<1>k. /\ xa \in 0..(P - 1) /\ xb \in 0..(P - 1) /\ Is(u1, xa * n2, 1) /\ Is(u2, xb * n2, 1)
      /\ n2 \in Int /\ ~Cong(P, n2, 0)
  BY <1>1, <1>f
<1>l. /\ ya \in 0..(P - 1) /\ yb \in 0..(P - 1) /\ Is(s1, ya * n3, 1) /\ Is(s2, yb * n3, 1)
      /\ n3 \in Int /\ ~Cong(P, n3, 0)
  BY <1>1, <1>f
<1> HIDE DEF xa, xb, ya, yb
<1>g. u1.v = u2.v <=> xa = xb
  BY <1>k, EqualWhen
<1>h. s1.v = s2.v <=> ya = yb
  BY <1>l, EqualWhen
<1>10. r["u1"].v = r["u2"].v <=> a[1] = b[1]
  BY <1>g DEF u1, u2, xa, xb
<1>11. r["s1"].v = r["s2"].v <=> a[2] = b[2]
  BY <1>h DEF s1, s2, ya, yb
<1>12. addGeneric(p1, p2, which) = GenericAddEnds(r, p1, which)
  BY DEF addGeneric, r, g
<1>13. CASE a[1] = b[1]
  <2>1. Represents(SameX(p1, r["s1"], r["s2"], which), Plus(a, b))
    BY <1>11, <1>13, SameXPoint
  <2> QED BY <1>10, <1>12, <1>13, <2>1 DEF GenericAddEnds
<1>14. CASE a[1] # b[1]
  <2>1. Represents(Stored(GenericAddRest, r, which), Plus(a, b))
    BY <1>14, GenericAddPoint DEF r, g
  <2> QED BY <1>10, <1>12, <1>14, <2>1 DEF GenericAddEnds
<1> QED BY <1>13, <1>14

-----------------------------------------------------------------------------
(* The operations.                                                         *)

LEMMA RepresentsUsable ==
    ASSUME NEW pt, NEW p, Represents(p, pt)
    PROVE  /\ Usable(p) /\ p.X.ok = TRUE /\ p.Y.ok = TRUE /\ p.Z.ok = TRUE
           /\ p.X \in FE /\ p.Y \in FE /\ p.Z \in FE /\ p = [X |-> p.X, Y |-> p.Y, Z |-> p.Z]
<1>1. PICK x, y, z : Gives(p, x, y, z)
  BY Zenon DEF Represents
<1> QED BY <1>1 DEF Gives, Is, Usable

LEMMA IsNowhereWhen ==
    ASSUME NEW pt \in Group, NEW p, Represents(p, pt)
    PROVE  IsNowhere(p) <=> pt = Infinity
<1>1. CASE pt = Infinity
  BY <1>1, CurvePoint DEF Represents
<1>2. CASE pt # Infinity
  <2>1. pt \in OnCurve
    BY <1>2 DEF Group
  <2>2. pt[1] \in Int /\ pt[2] \in Int /\ P \in Nat \ {0}
    BY <2>1, CurvePoint, CurveNumbers
  <2>3. Cong(P, pt[1], pt[1]) /\ Cong(P, pt[2], pt[2])
    BY <2>2, CongRefl
  <2>4. ~IsNowhere(p)
    BY <2>1, <2>2, <2>3, CoordinatesOf
  <2> QED BY <1>2, <2>4
<1> QED BY <1>1, <1>2

LEMMA SumGives ==
    ASSUME NEW a \in Group, NEW b \in Group, NEW p1, NEW p2, Represents(p1, a),
           Represents(p2, b), NEW which \in Ways
    PROVE  Represents(AddNonConst(p1, p2, which), Plus(a, b))
<1>1. (IsNowhere(p1) <=> a = Infinity) /\ (IsNowhere(p2) <=> b = Infinity)
  BY IsNowhereWhen
<1>2. Usable(p1) /\ Usable(p2)
  BY RepresentsUsable
<1>3. CASE a = Infinity
  <2>1. AddNonConst(p1, p2, which) = p2
    BY <1>1, <1>2, <1>3 DEF AddNonConst, Checked
  <2> QED BY <1>3, <2>1, PlusInfinity
<1>4. CASE a # Infinity /\ b = Infinity
  <2>1. AddNonConst(p1, p2, which) = p1
    BY <1>1, <1>2, <1>4 DEF AddNonConst, Checked
  <2> QED BY <1>4, <2>1, PlusInfinity
<1>5. CASE a # Infinity /\ b # Infinity
  <2>1. a \in OnCurve /\ b \in OnCurve
    BY <1>5 DEF Group
  <2>2. ~IsNowhere(p1) /\ ~IsNowhere(p2)
    BY <1>1, <1>5
  <2>3. CASE p1.Z.v = 1 /\ p2.Z.v = 1
    <3>1. AddNonConst(p1, p2, which) = addZ1AndZ2EqualsOne(p1, p2, which)
      BY <1>2, <2>2, <2>3 DEF AddNonConst, Checked
    <3>2. Represents(addZ1AndZ2EqualsOne(p1, p2, which), Plus(a, b))
      BY <2>1, <2>3, SameZGives
    <3> QED BY <3>1, <3>2
  <2>4. CASE p1.Z.v = p2.Z.v /\ p1.Z.v # 1
    <3>1. AddNonConst(p1, p2, which) = addZ1EqualsZ2(p1, p2, which)
      BY <1>2, <2>2, <2>4 DEF AddNonConst, Checked
    <3>2. Represents(addZ1EqualsZ2(p1, p2, which), Plus(a, b))
      BY <2>1, <2>4, SameZGives
    <3> QED BY <3>1, <3>2
  <2>5. CASE p1.Z.v # p2.Z.v /\ p2.Z.v = 1
    <3>1. AddNonConst(p1, p2, which) = addZ2EqualsOne(p1, p2, which)
      BY <1>2, <2>2, <2>5 DEF AddNonConst, Checked
    <3>2. Represents(addZ2EqualsOne(p1, p2, which), Plus(a, b))
      BY <2>1, <2>5, MixedGives
    <3> QED BY <3>1, <3>2
  <2>6. CASE p1.Z.v # p2.Z.v /\ p2.Z.v # 1
    <3>1. AddNonConst(p1, p2, which) = addGeneric(p1, p2, which)
      BY <1>2, <2>2, <2>6 DEF AddNonConst, Checked
    <3>2. Represents(addGeneric(p1, p2, which), Plus(a, b))
      BY <2>1, GenericGives
    <3> QED BY <3>1, <3>2
  <2> QED BY <2>3, <2>4, <2>5, <2>6
<1> QED BY <1>3, <1>4, <1>5

LEMMA JacobianRepresents ==
    ASSUME NEW b \in Group, NEW z \in 1..(P - 1)
    PROVE  Represents(Jacobian(b, z), b)
<1>1. CASE b = Infinity
  <2>1. Jacobian(b, z) = Nowhere
    BY <1>1 DEF Jacobian
  <2> QED BY <1>1, <2>1, NowhereGives
<1>2. CASE b # Infinity
  <2> DEFINE p == Jacobian(b, z)
             x == b[1] * (z * z)
             y == b[2] * (z * z * z)
  <2>1. b \in OnCurve
    BY <1>2 DEF Group
  <2>2. /\ P \in Nat \ {0} /\ b[1] \in Int /\ b[2] \in Int /\ z \in Int /\ z \in 0..(P - 1)
        /\ 1 \in 0..(P - 1)
    BY <2>1, CurvePoint, CurveNumbers
  <2>3. p = Point(Mod(b[1] * z * z), Mod(b[2] * Mod(z * z * z)), z)
    BY <1>2 DEF Jacobian
  <2>4. Mod(b[1] * z * z) \in 0..(P - 1) /\ Cong(P, Mod(b[1] * z * z), x) /\ x \in Int
    <3> DEFINE t == b[1] * z * z
    <3>1. t \in Int /\ t = x
      BY <2>2
    <3> HIDE DEF t
    <3>2. Mod(t) \in 0..(P - 1) /\ Cong(P, Mod(t), t)
      BY <3>1, ModFacts
    <3> QED BY <3>1, <3>2 DEF t
  <2>5. /\ Mod(b[2] * Mod(z * z * z)) \in 0..(P - 1)
        /\ Cong(P, Mod(b[2] * Mod(z * z * z)), y) /\ y \in Int
    <3> DEFINE c == z * z * z
               m == Mod(c)
               t == b[2] * m
               by == b[2]
    <3>1. c \in Int /\ by \in Int
      BY <2>2
    <3> HIDE DEF c, by
    <3>2. m \in Int /\ Cong(P, m, c)
      BY <3>1, ModFacts
    <3> HIDE DEF m
    <3>3. by * m \in Int /\ by * c \in Int /\ by * m = m * by /\ by * c = c * by
      BY <3>1, <3>2
    <3>4. Cong(P, m * by, c * by)
      BY <2>2, <3>1, <3>2, CongScale
    <3>5. Cong(P, by * m, by * c)
      BY <3>3, <3>4
    <3>6. t = by * m /\ y = by * c
      BY DEF by, c
    <3> HIDE DEF t
    <3>7. t \in Int /\ Cong(P, t, y) /\ y \in Int
      BY <3>3, <3>5, <3>6
    <3>8. Mod(t) \in 0..(P - 1) /\ Mod(t) \in Int /\ Cong(P, Mod(t), t)
      BY <3>7, ModFacts
    <3>9. Cong(P, Mod(t), y)
      <4> HIDE DEF y
      <4> DEFINE n == Mod(t)
      <4>1. n \in Int /\ Cong(P, n, t)
        BY <3>8
      <4> HIDE DEF n
      <4>2. Cong(P, n, y)
        BY <2>2, <3>7, <4>1, CongTrans
      <4> QED BY <4>2 DEF n
    <3> QED BY <3>7, <3>8, <3>9 DEF t, m, c
  <2>6. ~Cong(P, z, 0) /\ Cong(P, z, z)
    BY <2>2, SmallNotZero, CongRefl
  <2>7. Gives(p, x, y, z)
    <3> DEFINE vx == Mod(b[1] * z * z)
               vy == Mod(b[2] * Mod(z * z * z))
    <3>1. /\ vx \in 0..(P - 1) /\ Cong(P, vx, x) /\ vy \in 0..(P - 1) /\ Cong(P, vy, y)
          /\ p = Point(vx, vy, z)
      BY <2>3, <2>4, <2>5
    <3> HIDE DEF vx, vy, x, y, p
    <3>2. \A n \in 0..(P - 1) : \A m :
             Cong(P, n, m) => Is(Field(n), m, 1) /\ Field(n).norm = TRUE
      BY DEF Is, Field, FE, MaxMagnitude
    <3>3. p = [X |-> Field(vx), Y |-> Field(vy), Z |-> Field(z)]
      BY <3>1 DEF Point
    <3>4. p.X = Field(vx) /\ p.Y = Field(vy) /\ p.Z = Field(z)
      BY <3>3
    <3> QED BY <2>2, <2>6, <3>1, <3>2, <3>3, <3>4 DEF Gives
  <2>8. Cong(P, b[1], b[1]) /\ Cong(P, b[2], b[2])
    BY <2>2, CongRefl
  <2>9. Represents(p, b)
    BY <2>1, <2>2, <2>6, <2>7, <2>8, RepresentsAt
  <2> QED BY <2>9
<1> QED BY <1>1, <1>2

\* What a point is after ToAffine, by the inverse i of its third coordinate.
LEMMA ToAffineGives ==
    ASSUME NEW p, NEW x \in Int, NEW y \in Int, NEW z \in Int, Gives(p, x, y, z),
           NEW i \in 0..(P - 1), i = (IF p.Z.v = 0 THEN 0 ELSE Inv(p.Z.v))
    PROVE  Gives(ToAffine(p), x * (i * i), y * (i * i * i), 1)
<1> DEFINE inverse == [Field(i) EXCEPT !.norm = FALSE]
           h == Loaded(p, Nowhere)
           g == [h EXCEPT !["a"] = inverse]
           t == Run(AffineProg, g, Alias("p1"))
           s == Normalized(t, Alias("p1"))
           u == x * (i * i)
           v == y * (i * i * i)
<1>1. /\ P \in Nat \ {0} /\ i \in Int /\ 1 \in 0..(P - 1) /\ 1 \in Int /\ 0 \in Int
      /\ -0 \in Int /\ "p1" \in Ways
  BY CurveNumbers DEF Ways
<1>2. Cong(P, i, i) /\ Cong(P, 1, 1)
  BY <1>1, CongRefl
<1>3. /\ inverse \in FE /\ Is(inverse, i, 1)
      /\ Field(1) \in FE /\ Is(Field(1), 1, 1) /\ Field(1).norm = TRUE
  <2> DEFINE f == Field(i)
  <2>1. f \in FE /\ Is(f, i, 1)
    BY <1>1, <1>2 DEF Field, FE, MaxMagnitude, Is
  <2> HIDE DEF f
  <2>2. \A e \in FE : LET w == [e EXCEPT !.norm = FALSE]
                       IN  w \in FE /\ w.v = e.v /\ w.mag = e.mag /\ w.ok = e.ok
    BY DEF FE
  <2>4. inverse \in FE /\ inverse.v = f.v /\ inverse.mag = f.mag /\ inverse.ok = f.ok
    BY <2>1, <2>2 DEF f
  <2>5. Is(inverse, i, 1)
    BY <2>1, <2>4 DEF Is
  <2>3. Field(1) \in FE /\ Is(Field(1), 1, 1) /\ Field(1).norm = TRUE
    BY <1>1, <1>2 DEF Field, FE, MaxMagnitude, Is
  <2> QED BY <2>3, <2>4, <2>5
<1>4. ToAffine(p) = [s EXCEPT !.Z = Field(1)]
  BY DEF ToAffine, Stored
<1> HIDE DEF inverse, s
<1>5. Gives(Nowhere, 0, 0, 0)
  BY NowhereGives
<1>6. /\ h \in State /\ Is(h["x1"], x, 1) /\ Is(h["y1"], y, 1) /\ Is(h["zero"], 0, 1)
  BY <1>1, <1>5, LoadedState
<1> HIDE DEF h
<1>7. "a" \in Registers /\ "x1" \in Registers /\ "y1" \in Registers /\ "zero" \in Registers
  BY DEF Registers
<1>8. /\ g \in State /\ g["a"] = inverse /\ g["x1"] = h["x1"] /\ g["y1"] = h["y1"]
      /\ g["zero"] = h["zero"]
  BY <1>3, <1>6, <1>7 DEF State
<1> HIDE DEF g
<1>9. /\ t \in State /\ Is(t[Called("x3", Alias("p1"))], u, 1)
      /\ Is(t[Called("y3", Alias("p1"))], v, 1)
      /\ Is(t[Called("z3", Alias("p1"))], -0, 2)
  BY <1>1, <1>3, <1>6, <1>8, AffineProgGives
<1> HIDE DEF t
<1>10. u \in Int /\ v \in Int
  <2>1. i * i \in Int /\ i * i * i \in Int
    BY <1>1, Ring
  <2> QED BY <2>1
<1> HIDE DEF u, v
<1>11. Gives(s, u, v, -0)
  <2> DEFINE nz == -0
  <2>1. nz \in Int /\ Is(t[Called("z3", Alias("p1"))], nz, 2)
    BY <1>9
  <2> HIDE DEF nz
  <2>2. Gives(s, u, v, nz)
    BY <1>1, <1>9, <1>10, <2>1, NormalizedGives DEF s
  <2> QED BY <2>2 DEF nz
<1>12. Gives([s EXCEPT !.Z = Field(1)], u, v, 1)
  <2> DEFINE e == [s EXCEPT !.Z = Field(1)]
  <2>1. s = [X |-> s.X, Y |-> s.Y, Z |-> s.Z]
    BY <1>11 DEF Gives
  <2>2. e.X = s.X /\ e.Y = s.Y /\ e.Z = Field(1) /\ e = [X |-> e.X, Y |-> e.Y, Z |-> e.Z]
    BY <2>1
  <2> HIDE DEF e
  <2>3. Gives(e, u, v, 1)
    BY <1>3, <1>11, <2>2 DEF Gives
  <2> QED BY <2>3 DEF e
<1> QED BY <1>4, <1>12 DEF u, v

LEMMA AffineGives ==
    ASSUME NEW pt \in Group, NEW p, Represents(p, pt)
    PROVE  Represents(ToAffine(p), pt)
<1> DEFINE q == ToAffine(p)
<1>p. P \in Nat \ {0} /\ 0 \in 0..(P - 1) /\ 0 \in Int /\ 1 \in Int /\ 1 \in 1..(P - 1)
  BY CurveNumbers
<1>1. CASE pt = Infinity
  <2> DEFINE x == p.X.v
             y == p.Y.v
             z == p.Z.v
             i == IF p.Z.v = 0 THEN 0 ELSE Inv(p.Z.v)
             u == x * (i * i)
             v == y * (i * i * i)
  <2>1. IsNowhere(p) /\ Gives(p, x, y, z)
    BY <1>1, CurvePoint DEF Represents
  <2>2. /\ x \in Int /\ y \in Int /\ z \in Int /\ z \in 0..(P - 1)
    BY <1>p, <2>1 DEF Gives, Is, FE
  <2>3. i \in 0..(P - 1)
    <3>1. CASE z = 0
      BY <1>p, <3>1
    <3>2. CASE z # 0
      <4>1. z \in 1..(P - 1)
        BY <1>p, <2>2, <3>2
      <4>2. ~Cong(P, z, 0)
        BY <4>1, SmallNotZero
      <4>3. Inv(z) \in 0..(P - 1)
        BY <2>2, <4>2, FieldInverse
      <4> QED BY <3>2, <4>3
    <3> QED BY <3>1, <3>2
  <2>4. i = 0 \/ (x = 0 /\ y = 0)
    BY <2>1 DEF IsNowhere
  <2>5. i = (IF p.Z.v = 0 THEN 0 ELSE Inv(p.Z.v))
    OBVIOUS
  <2> HIDE DEF x, y, z, i
  <2>6. i \in Int
    BY <1>p, <2>3
  <2>7. u = 0 /\ v = 0
    <3>1. i * i \in Int /\ i * i * i \in Int
      BY <2>6, Ring
    <3>2. CASE x = 0 /\ y = 0
      BY <3>1, <3>2
    <3>3. CASE i = 0
      BY <2>2, <3>3
    <3> QED BY <2>4, <3>2, <3>3
  <2>8. Gives(q, u, v, 1)
    BY <2>1, <2>2, <2>3, <2>5, ToAffineGives
  <2> HIDE DEF u, v, q
  <2>9. Gives(q, 0, 0, 1)
    BY <2>7, <2>8
  <2>10. /\ q.X.v \in 0..(P - 1) /\ q.Y.v \in 0..(P - 1) /\ Cong(P, q.X.v, 0) /\ Cong(P, q.Y.v, 0)
         /\ q.X.v \in Int /\ q.Y.v \in Int /\ q.Z.v \in 0..(P - 1) /\ q.Z.v \in Int
         /\ Cong(P, q.Z.v, 1)
    BY <1>p, <2>9 DEF Gives, Is, FE
  <2>11. q.X.v = 0 /\ q.Y.v = 0
    <3> DEFINE a == q.X.v
               b == q.Y.v
    <3>1. a \in 0..(P - 1) /\ b \in 0..(P - 1) /\ Cong(P, a, 0) /\ Cong(P, b, 0)
      BY <2>10
    <3> HIDE DEF a, b
    <3>2. a = 0 /\ b = 0
      BY <1>p, <3>1, CongSmall
    <3> QED BY <3>2 DEF a, b
  <2>12. Cong(P, 0, q.X.v) /\ Cong(P, 0, q.Y.v) /\ Cong(P, 1, q.Z.v)
    BY <1>p, <2>10, CongSym
  <2>13. Gives(q, q.X.v, q.Y.v, q.Z.v)
    <3> DEFINE a == q.X.v
               b == q.Y.v
               c == q.Z.v
    <3>1. /\ a \in Int /\ b \in Int /\ c \in Int
          /\ Cong(P, 0, a) /\ Cong(P, 0, b) /\ Cong(P, 1, c)
      BY <2>10, <2>12
    <3> HIDE DEF a, b, c
    <3>2. Gives(q, a, b, c)
      BY <1>p, <2>9, <3>1, GivesCong
    <3> QED BY <3>2 DEF a, b, c
  <2>14. IsNowhere(q)
    BY <2>11 DEF IsNowhere
  <2> QED BY <1>1, <2>13, <2>14 DEF Represents, q
<1>2. CASE pt # Infinity
  <2> DEFINE w == p.Z.v
             i == Inv(w)
             a == pt[1]
             b == pt[2]
             x == a * (w * w)
             y == b * (w * w * w)
             u == x * (i * i)
             v == y * (i * i * i)
  <2>1. pt \in OnCurve /\ a \in Int /\ b \in Int
    BY <1>2, CurvePoint DEF Group
  <2>2. Cong(P, a, a) /\ Cong(P, b, b)
    BY <1>p, <2>1, CongRefl
  <2>3. w \in Int /\ w # 0 /\ ~Cong(P, w, 0) /\ Gives(p, x, y, w)
    BY <2>1, <2>2, CoordinatesOf
  <2>4. i \in 0..(P - 1) /\ i \in Int /\ Cong(P, w * i, 1)
    BY <2>3, FieldInverse
  <2>5. i = (IF p.Z.v = 0 THEN 0 ELSE Inv(p.Z.v))
    BY <2>3
  <2> HIDE DEF w, i, a, b
  <2>6. x \in Int /\ y \in Int
    <3>1. w * w \in Int /\ w * w * w \in Int
      BY <2>3, Ring
    <3> QED BY <2>1, <3>1, Ring
  <2>7. Gives(q, u, v, 1)
    <3> HIDE DEF x, y
    <3>1. Gives(q, x * (i * i), y * (i * i * i), 1)
      BY <2>3, <2>4, <2>5, <2>6, ToAffineGives
    <3> QED BY <3>1
  <2> DEFINE n == w * i
  <2>8. n \in Int /\ u = a * (n * n) /\ v = b * (n * n * n) /\ u \in Int /\ v \in Int
    BY <2>1, <2>3, <2>4
  <2> HIDE DEF n, u, v, q, x, y
  <2>9. Cong(P, n, 1) /\ a * (1 * 1) \in Int /\ b * (1 * 1 * 1) \in Int
    BY <2>1, <2>4 DEF n
  <2>10. Cong(P, a * (n * n), a * (1 * 1)) /\ Cong(P, b * (n * n * n), b * (1 * 1 * 1))
    BY <1>p, <2>1, <2>2, <2>8, <2>9, Scaled
  <2>11. Cong(P, 1, 1)
    BY <1>p, CongRefl
  <2>12. Gives(q, a * (1 * 1), b * (1 * 1 * 1), 1)
    <3> DEFINE e == a * (1 * 1)
               f == b * (1 * 1 * 1)
    <3>1. e \in Int /\ f \in Int /\ Cong(P, u, e) /\ Cong(P, v, f)
      BY <2>8, <2>9, <2>10
    <3> HIDE DEF e, f
    <3>2. Gives(q, e, f, 1)
      BY <1>p, <2>7, <2>8, <2>11, <3>1, GivesCong
    <3> QED BY <3>2 DEF e, f
  <2>13. ~Cong(P, 1, 0)
    BY <1>p, SmallNotZero
  <2>14. Represents(q, pt)
    <3>1. Cong(P, pt[1], a) /\ Cong(P, pt[2], b)
      BY <2>2 DEF a, b
    <3> QED BY <1>p, <2>1, <2>12, <2>13, <3>1, RepresentsAt
  <2> QED BY <2>14 DEF q
<1> QED BY <1>1, <1>2

LEMMA AffineIs ==
    ASSUME NEW pt \in Group, NEW p, Represents(p, pt)
    PROVE  Affine(p) = pt
<1>1. CASE pt = Infinity
  <2>1. IsNowhere(p)
    BY <1>1, CurvePoint DEF Represents
  <2> QED BY <1>1, <2>1 DEF Affine
<1>2. CASE pt # Infinity
  <2> DEFINE w == p.Z.v
             a == pt[1]
             b == pt[2]
             s == w * w
             c == w * w * w
  <2>1. /\ pt \in OnCurve /\ a \in 0..(P - 1) /\ b \in 0..(P - 1) /\ a \in Int /\ b \in Int
        /\ pt = <<a, b>> /\ P \in Nat \ {0}
    BY <1>2, CurvePoint, CurveNumbers DEF Group
  <2>2. Cong(P, a, a) /\ Cong(P, b, b)
    BY <2>1, CongRefl
  <2>3. w \in Int /\ ~Cong(P, w, 0) /\ ~IsNowhere(p) /\ Gives(p, a * s, b * c, w)
    BY <2>1, <2>2, CoordinatesOf
  <2>4. Affine(p) = <<Mod(p.X.v * Inv(Mod(s))), Mod(p.Y.v * Inv(Mod(c)))>>
    BY <2>3 DEF Affine
  <2> HIDE DEF w, a, b
  <2>5. s \in Int /\ ~Cong(P, s, 0)
    BY <2>3, ProductNotZero
  <2>6. c \in Int /\ ~Cong(P, c, 0)
    BY <2>3, <2>5, ProductNotZero
  <2> HIDE DEF s, c
  <2>7. ASSUME NEW m \in Int, ~Cong(P, m, 0), NEW e \in 0..(P - 1), NEW f, Is(f, e * m, 1)
        PROVE  Mod(f.v * Inv(Mod(m))) = e
    <3> DEFINE n == Mod(m)
               r == e * m
               x == f.v
    <3>1. n \in Int /\ Cong(P, n, m) /\ Cong(P, m, n) /\ e \in Int /\ 0 \in Int
      BY <2>1, <2>7, ModFacts
    <3>2. r \in Int /\ x \in Int /\ x \in 0..(P - 1) /\ Cong(P, x, r)
      BY <2>1, <2>7, <3>1, Ring DEF Is, FE
    <3> HIDE DEF n, x, r
    <3>3. ~Cong(P, n, 0)
      BY <2>1, <2>7, <3>1, CongTrans
    <3>4. Mod(e * m) = x
      <4>1. Mod(x) = Mod(r)
        BY <3>2, ModFacts
      <4>2. Mod(x) = x
        <5>1. Mod(x) \in 0..(P - 1) /\ Cong(P, Mod(x), x)
          BY <3>2, ModFacts
        <5> DEFINE y == Mod(x)
        <5> HIDE DEF y
        <5>2. y \in 0..(P - 1) /\ Cong(P, y, x)
          BY <5>1 DEF y
        <5>3. y = x
          BY <2>1, <3>2, <5>2, CongSmall
        <5> QED BY <5>3 DEF y
      <4> QED BY <4>1, <4>2 DEF r
    <3>5. Mod(Mod(e * m) * Inv(n)) = e
      BY <2>7, <3>1, <3>3, UndoProduct
    <3> QED BY <3>4, <3>5 DEF n, x
  <2>8. Is(p.X, a * s, 1) /\ Is(p.Y, b * c, 1)
    BY <2>3 DEF Gives
  <2>9. Mod(p.X.v * Inv(Mod(s))) = a
    BY <2>1, <2>5, <2>7, <2>8
  <2>10. Mod(p.Y.v * Inv(Mod(c))) = b
    BY <2>1, <2>6, <2>7, <2>8
  <2> QED BY <2>1, <2>4, <2>9, <2>10
<1> QED BY <1>1, <1>2

\* The inductive invariant: the coordinates kept stand for the exact point.
StandsForSum == exact \in Group /\ Represents(result, exact)

LEMMA SumInit == CurveInit => StandsForSum
<1> SUFFICES ASSUME NEW a \in Group, result = Jacobian(a, 1), exact = a PROVE StandsForSum
  BY DEF CurveInit
<1>1. 1 \in 1..(P - 1)
  BY CurveNumbers
<1>2. Represents(Jacobian(a, 1), a)
  BY <1>1, JacobianRepresents
<1> QED BY <1>2 DEF StandsForSum

LEMMA SumStep == StandsForSum /\ [CurveNext]_curveVars => StandsForSum'
<1> SUFFICES ASSUME StandsForSum, [CurveNext]_curveVars PROVE StandsForSum'
  OBVIOUS
<1> DEFINE p == result
           a == exact
<1>1. a \in Group /\ Represents(p, a)
  BY DEF StandsForSum
<1>2. SUFFICES exact' \in Group /\ Represents(result', exact')
  BY DEF StandsForSum, Represents, Gives, Is, IsNowhere
<1>3. CASE CallAdd
  <2>1. PICK b \in Operands, z \in ZValues :
          /\ \/ result' = AddNonConst(p, Jacobian(b, z), "p1")
             \/ result' = AddNonConst(Jacobian(b, z), p, "p2")
          /\ exact' = Plus(a, b)
    BY <1>3 DEF CallAdd
  <2>2. b \in Group /\ z \in 1..(P - 1)
    BY AddedAssumption, CurveAssumption
  <2>3. Represents(Jacobian(b, z), b)
    BY <2>2, JacobianRepresents
  <2>4. Plus(a, b) \in Group /\ Plus(a, b) = Plus(b, a)
    BY <1>1, <2>2, GroupPlus
  <2>5. "p1" \in Ways /\ "p2" \in Ways
    BY DEF Ways
  <2>6. Represents(AddNonConst(p, Jacobian(b, z), "p1"), Plus(a, b))
    BY <1>1, <2>2, <2>3, <2>5, SumGives
  <2>7. Represents(AddNonConst(Jacobian(b, z), p, "p2"), Plus(b, a))
    BY <1>1, <2>2, <2>3, <2>5, SumGives
  <2> QED BY <2>1, <2>4, <2>6, <2>7
<1>4. CASE CallDouble
  <2>1. PICK which \in {"none", "p1"} :
          result' = DoubleNonConst(p, which) /\ exact' = Plus(a, a)
    BY <1>4 DEF CallDouble
  <2>2. which \in Ways
    BY DEF Ways
  <2>3. Represents(DoubleNonConst(p, which), Plus(a, a))
    BY <1>1, <2>2, DoubleGives
  <2>4. Plus(a, a) \in Group
    BY <1>1, GroupPlus
  <2> QED BY <2>1, <2>3, <2>4
<1>5. CASE CallToAffine
  <2>1. result' = ToAffine(p) /\ exact' = a
    BY <1>5 DEF CallToAffine
  <2>2. Represents(ToAffine(p), a)
    BY <1>1, AffineGives
  <2> QED BY <1>1, <2>1, <2>2
<1>6. CASE UNCHANGED curveVars
  BY <1>1, <1>6 DEF curveVars
<1> QED BY <1>3, <1>4, <1>5, <1>6 DEF CurveNext

LEMMA SumHolds == StandsForSum => PointIsSum
<1> SUFFICES ASSUME StandsForSum PROVE PointIsSum
  OBVIOUS
<1>1. exact \in Group /\ Represents(result, exact)
  BY DEF StandsForSum
<1>2. Affine(result) = exact
  BY <1>1, AffineIs
<1> QED BY <1>1, <1>2, RepresentsUsable DEF PointIsSum

\* Whatever points are added, doubled and made affine, at whatever third
\* coordinates and wherever the results are stored, the point kept is that of
\* the chord and tangent rule, and every precondition of the field's operations
\* is kept on the way to it (curve.go 136-631).
THEOREM PointsAddUp == CurveSpec => []PointIsSum
<1>1. CurveInit => StandsForSum
  BY SumInit
<1>2. StandsForSum /\ [CurveNext]_curveVars => StandsForSum'
  BY SumStep
<1>3. StandsForSum => PointIsSum
  BY SumHolds
<1> QED BY <1>1, <1>2, <1>3, PTL DEF CurveSpec

=============================================================================
