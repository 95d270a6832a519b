--------------------------- MODULE ArithmeticProofs ---------------------------
(***************************************************************************)
(* The arithmetic of the curve's two fields: that the addition chains end  *)
(* at the exponents of a root and of an inverse, and that a scalar holds,  *)
(* after any sequence of calls, the number the calls should have computed, *)
(* for every base and length of the words, every order of the assumed form *)
(* and every input.                                                        *)
(*                                                                         *)
(* Both rest on the same facts about numerals: the words of a number       *)
(* determine it, a carry moves a multiple of the base one place up, and a  *)
(* congruence may be taken at any point of a sum or product.               *)
(***************************************************************************)
EXTENDS ModNScalar, FieldChains, TLAPS, WellFoundedInduction

-----------------------------------------------------------------------------
(* Congruence.  The provers reason about it by the laws below.             *)

Cong(n, a, b) == \E q \in Int : a = b + q * n

LEMMA Ring ==
    ASSUME NEW a \in Int, NEW b \in Int, NEW c \in Int
    PROVE  /\ (a + b) * c = a * c + b * c /\ (a - b) * c = a * c - b * c
           /\ c * (a + b) = c * a + c * b /\ c * (a - b) = c * a - c * b
           /\ (a * b) * c = a * (b * c) /\ (a * b) * c = (a * c) * b /\ a * b = b * a
           /\ a * b \in Int /\ a + b \in Int /\ a - b \in Int /\ -a \in Int
           /\ (-a) * b = -(a * b) /\ 0 * a = 0 /\ 1 * a = a
  OBVIOUS

LEMMA DivMod ==
    ASSUME NEW n \in Nat \ {0}, NEW a \in Int
    PROVE  /\ a % n \in 0..(n - 1) /\ a % n \in Int /\ a \div n \in Int
           /\ a = (a \div n) * n + (a % n)
  OBVIOUS

LEMMA DivIs ==
    ASSUME NEW n \in Nat \ {0}, NEW q \in Int, NEW r \in 0..(n - 1)
    PROVE  (q * n + r) \div n = q /\ (q * n + r) % n = r
  OBVIOUS

LEMMA ModSmall ==
    ASSUME NEW n \in Nat \ {0}, NEW a \in 0..(n - 1)
    PROVE  a % n = a
  OBVIOUS

LEMMA CongRefl ==
    ASSUME NEW n \in Nat \ {0}, NEW a \in Int
    PROVE  Cong(n, a, a)
<1> a = a + 0 * n
  OBVIOUS
<1> QED BY DEF Cong

LEMMA CongSym ==
    ASSUME NEW n \in Nat \ {0}, NEW a \in Int, NEW b \in Int, Cong(n, a, b)
    PROVE  Cong(n, b, a)
<1>1. PICK q \in Int : a = b + q * n
  BY DEF Cong
<1>2. b = a + (-q) * n /\ -q \in Int
  BY <1>1
<1> QED BY <1>2 DEF Cong

LEMMA CongTrans ==
    ASSUME NEW n \in Nat \ {0}, NEW a \in Int, NEW b \in Int, NEW c \in Int,
           Cong(n, a, b), Cong(n, b, c)
    PROVE  Cong(n, a, c)
<1>1. PICK q \in Int : a = b + q * n
  BY DEF Cong
<1>2. PICK t \in Int : b = c + t * n
  BY DEF Cong
<1>3. a = c + (q + t) * n /\ q + t \in Int
  BY <1>1, <1>2
<1> QED BY <1>3 DEF Cong

LEMMA CongPlus ==
    ASSUME NEW n \in Nat \ {0}, NEW a \in Int, NEW b \in Int, NEW c \in Int, NEW e \in Int,
           Cong(n, a, b), Cong(n, c, e)
    PROVE  Cong(n, a + c, b + e)
<1>1. PICK q \in Int : a = b + q * n
  BY DEF Cong
<1>2. PICK t \in Int : c = e + t * n
  BY DEF Cong
<1>3. a + c = (b + e) + (q + t) * n /\ q + t \in Int
  BY <1>1, <1>2
<1> QED BY <1>3 DEF Cong

LEMMA CongNeg ==
    ASSUME NEW n \in Nat \ {0}, NEW a \in Int, NEW b \in Int, Cong(n, a, b)
    PROVE  Cong(n, -a, -b) /\ Cong(n, n - a, -b)
<1>1. PICK q \in Int : a = b + q * n
  BY DEF Cong
<1>2. -a = (-b) + (-q) * n /\ -q \in Int
  BY <1>1
<1>3. n - a = (-b) + (1 - q) * n /\ 1 - q \in Int
  BY <1>1
<1> QED BY <1>2, <1>3 DEF Cong

LEMMA CongScale ==
    ASSUME NEW n \in Nat \ {0}, NEW a \in Int, NEW b \in Int, NEW c \in Int, Cong(n, a, b)
    PROVE  Cong(n, a * c, b * c) /\ Cong(n, c * a, c * b)
<1>1. PICK q \in Int : a = b + q * n
  BY DEF Cong
<1>2. (b + q * n) * c = b * c + (q * n) * c /\ (q * n) * c = (q * c) * n /\ q * c \in Int
  BY Ring
<1>3. a * c = b * c + (q * c) * n
  BY <1>1, <1>2
<1>4. a * c = c * a /\ b * c = c * b
  BY Ring
<1> QED BY <1>2, <1>3, <1>4 DEF Cong

LEMMA CongTimes ==
    ASSUME NEW n \in Nat \ {0}, NEW a \in Int, NEW b \in Int, NEW c \in Int, NEW e \in Int,
           Cong(n, a, b), Cong(n, c, e)
    PROVE  Cong(n, a * c, b * e)
<1>1. Cong(n, a * c, b * c) /\ Cong(n, b * c, b * e)
  BY CongScale
<1>2. a * c \in Int /\ b * c \in Int /\ b * e \in Int
  BY Ring
<1> QED BY <1>1, <1>2, CongTrans

LEMMA CongMod ==
    ASSUME NEW n \in Nat \ {0}, NEW a \in Int
    PROVE  Cong(n, a % n, a) /\ Cong(n, a, a % n)
<1> DEFINE q == a \div n
           r == a % n
<1>1. q \in Int /\ r \in Int /\ a = q * n + r
  BY DivMod
<1> HIDE DEF q, r
<1>2. a = r + q * n
  BY <1>1
<1>3. Cong(n, a, r)
  BY <1>1, <1>2 DEF Cong
<1>4. Cong(n, r, a)
  BY <1>1, <1>3, CongSym
<1> QED BY <1>3, <1>4 DEF r

\* Two remainders that are congruent are the same.
LEMMA CongSmall ==
    ASSUME NEW n \in Nat \ {0}, NEW a \in 0..(n - 1), NEW b \in 0..(n - 1), Cong(n, a, b)
    PROVE  a = b
<1>1. PICK q \in Int : a = b + q * n
  BY DEF Cong
<1>2. q < 1
  <2> SUFFICES ASSUME q >= 1 PROVE FALSE
    OBVIOUS
  <2>1. q * n >= n
    OBVIOUS
  <2> QED BY <1>1, <2>1
<1>3. q > -1
  <2> SUFFICES ASSUME q <= -1 PROVE FALSE
    OBVIOUS
  <2>1. q * n <= -n
    OBVIOUS
  <2> QED BY <1>1, <2>1
<1>4. q = 0
  BY <1>2, <1>3
<1> QED BY <1>1, <1>4

LEMMA CongIff ==
    ASSUME NEW n \in Nat \ {0}, NEW a \in Int, NEW b \in Int
    PROVE  Cong(n, a, b) <=> a % n = b % n
<1> DEFINE r == a % n
           t == b % n
<1>1. /\ r \in 0..(n - 1) /\ t \in 0..(n - 1) /\ r \in Int /\ t \in Int
      /\ Cong(n, r, a) /\ Cong(n, a, r) /\ Cong(n, b, t) /\ Cong(n, t, b)
  BY DivMod, CongMod
<1> HIDE DEF r, t
<1>2. Cong(n, a, b) => r = t
  <2> SUFFICES ASSUME Cong(n, a, b) PROVE r = t
    OBVIOUS
  <2>1. Cong(n, r, b)
    BY <1>1, CongTrans
  <2>2. Cong(n, r, t)
    BY <1>1, <2>1, CongTrans
  <2> QED BY <1>1, <2>2, CongSmall
<1>3. r = t => Cong(n, a, b)
  BY <1>1, CongTrans
<1> QED BY <1>2, <1>3 DEF r, t

-----------------------------------------------------------------------------
(* Induction and recursion.                                                *)

\* A set that holds 0 and with each number the next one holds all of them.
LEMMA UpTo ==
    ASSUME NEW n \in Nat, NEW S, S \subseteq 0..n, 0 \in S,
           \A i \in 0..(n - 1) : i \in S => i + 1 \in S
    PROVE  \A i \in 0..n : i \in S
<1> DEFINE T == {i \in 0..n : i \notin S}
<1> SUFFICES ASSUME T # {} PROVE FALSE
  OBVIOUS
<1>1. T \subseteq Nat
  OBVIOUS
<1>2. PICK g \in T : \A y \in T : ~(<<y, g>> \in OpToRel(<, Nat))
  BY <1>1, NatLessThanWellFounded, WFMin
<1>3. g \in 0..n /\ g \notin S
  OBVIOUS
<1>4. g # 0 /\ g - 1 \in 0..(n - 1) /\ g - 1 \in 0..n /\ g - 1 \in Nat /\ g \in Nat
      /\ g - 1 < g /\ (g - 1) + 1 = g
  BY <1>3
<1>5. g - 1 \notin S
  BY <1>3, <1>4
<1>6. g - 1 \in T
  BY <1>4, <1>5
<1>7. <<g - 1, g>> \in OpToRel(<, Nat)
  BY <1>4, Zenon DEF OpToRel
<1> QED BY <1>2, <1>6, <1>7, Zenon

Recursion(n, A, base, step, fn) ==
    /\ fn \in [0..n -> A] /\ fn[0] = base
    /\ \A k \in 1..n : fn[k] = step[k][fn[k - 1]]

\* A function is defined by its first value and by what each makes of the last.
LEMMA RecursionExists ==
    ASSUME NEW n \in Nat, NEW A, NEW base \in A, NEW step \in [1..n -> [A -> A]]
    PROVE  \E fn : Recursion(n, A, base, step, fn)
<1> DEFINE S == {m \in 0..n : \E fn : Recursion(m, A, base, step, fn)}
<1>1. 0 \in S
  <2> DEFINE fn == [i \in 0..0 |-> base]
  <2>1. Recursion(0, A, base, step, fn)
    BY DEF Recursion
  <2> HIDE DEF fn
  <2>2. \E g : Recursion(0, A, base, step, g)
    BY <2>1, Zenon
  <2>3. 0 \in 0..n
    OBVIOUS
  <2> QED BY <2>2, <2>3
<1>2. ASSUME NEW m \in 0..(n - 1), m \in S PROVE m + 1 \in S
  <2>1. PICK fn : Recursion(m, A, base, step, fn)
    BY <1>2
  <2>2. fn \in [0..m -> A] /\ fn[0] = base /\ \A k \in 1..m : fn[k] = step[k][fn[k - 1]]
    BY <2>1 DEF Recursion
  <2> DEFINE last == step[m + 1][fn[m]]
             g == [i \in 0..(m + 1) |-> IF i = m + 1 THEN last ELSE fn[i]]
  <2>3. last \in A /\ last = step[m + 1][fn[m]]
    <3>1. m + 1 \in 1..n /\ m \in 0..m
      OBVIOUS
    <3>2. step[m + 1] \in [A -> A] /\ fn[m] \in A
      BY <2>2, <3>1
    <3> QED BY <3>2
  <2> HIDE DEF last
  <2>4. g \in [0..(m + 1) -> A] /\ g[0] = base
    BY <2>2, <2>3
  <2>5. ASSUME NEW i \in 1..(m + 1) PROVE g[i] = step[i][g[i - 1]]
    <3>1. CASE i = m + 1
      <4>1. g[i] = last /\ g[i - 1] = fn[m]
        BY <3>1
      <4> HIDE DEF g
      <4> QED BY <2>3, <3>1, <4>1, Zenon
    <3>2. CASE i # m + 1
      <4>1. g[i] = fn[i] /\ g[i - 1] = fn[i - 1] /\ i \in 1..m
        BY <3>2
      <4> HIDE DEF g
      <4> QED BY <2>2, <4>1
    <3> QED BY <3>1, <3>2
  <2> HIDE DEF g
  <2>6. \E h : Recursion(m + 1, A, base, step, h)
    BY <2>4, <2>5, Zenon DEF Recursion
  <2>7. m + 1 \in 0..n
    OBVIOUS
  <2> QED BY <2>6, <2>7
<1>3. n \in S
  <2>1. S \subseteq 0..n /\ n \in 0..n
    OBVIOUS
  <2> HIDE DEF S
  <2>2. \A m \in 0..n : m \in S
    BY <1>1, <1>2, <2>1, UpTo
  <2> QED BY <2>1, <2>2
<1> QED BY <1>3

-----------------------------------------------------------------------------
(* Numerals: sums of x[i] * b^(i - 1), by the powers pw of the base.       *)

PowersOf(b, n, pw) ==
    /\ pw \in [0..n -> Nat \ {0}] /\ pw[0] = 1
    /\ \A i \in 1..n : pw[i] = pw[i - 1] * b

Numeral(n, pw, x, v) ==
    /\ v \in [0..n -> Int] /\ v[0] = 0
    /\ \A i \in 1..n : v[i] = v[i - 1] + x[i] * pw[i - 1]

LEMMA PowersExist ==
    ASSUME NEW n \in Nat, NEW b \in Nat \ {0}
    PROVE  \E pw : PowersOf(b, n, pw)
<1> DEFINE A == Nat \ {0}
           one == 1
           step == [k \in 1..n |-> [a \in A |-> a * b]]
<1>1. \A a \in A : a * b \in A
  OBVIOUS
<1>2. step \in [1..n -> [A -> A]] /\ one \in A
  <2> HIDE DEF A
  <2>1. step \in [1..n -> [A -> A]]
    BY <1>1
  <2> QED BY <2>1 DEF A
<1>3. \A k \in 1..n : \A a \in A : step[k][a] = a * b
  OBVIOUS
<1> HIDE DEF step, A, one
<1>4. PICK fn : Recursion(n, A, one, step, fn)
  BY <1>2, RecursionExists
<1>5. fn \in [0..n -> A] /\ fn[0] = one /\ \A k \in 1..n : fn[k] = step[k][fn[k - 1]]
  BY <1>4 DEF Recursion
<1>6. ASSUME NEW k \in 1..n PROVE fn[k] = fn[k - 1] * b
  <2>1. fn[k - 1] \in A
    BY <1>5
  <2> QED BY <1>3, <1>5, <2>1
<1> QED BY <1>5, <1>6 DEF PowersOf, A, one

LEMMA NumeralExists ==
    ASSUME NEW n \in Nat, NEW pw, NEW x,
           \A i \in 1..n : x[i] * pw[i - 1] \in Int
    PROVE  \E v : Numeral(n, pw, x, v)
<1> DEFINE t == [k \in 1..n |-> x[k] * pw[k - 1]]
<1>1. t \in [1..n -> Int] /\ \A k \in 1..n : t[k] = x[k] * pw[k - 1]
  OBVIOUS
<1> HIDE DEF t
<1> DEFINE A == Int
           zero == 0
           step == [k \in 1..n |-> [a \in A |-> a + t[k]]]
<1>2. step \in [1..n -> [A -> A]] /\ zero \in A
  BY <1>1
<1>3. \A k \in 1..n : \A a \in A : step[k][a] = a + t[k]
  OBVIOUS
<1> HIDE DEF step, A, zero
<1>4. PICK fn : Recursion(n, A, zero, step, fn)
  BY <1>2, RecursionExists
<1>5. fn \in [0..n -> A] /\ fn[0] = zero /\ \A k \in 1..n : fn[k] = step[k][fn[k - 1]]
  BY <1>4 DEF Recursion
<1>6. ASSUME NEW k \in 1..n PROVE fn[k] = fn[k - 1] + x[k] * pw[k - 1]
  <2>1. fn[k - 1] \in A
    BY <1>5
  <2> QED BY <1>1, <1>3, <1>5, <2>1
<1> QED BY <1>5, <1>6 DEF Numeral, A, zero

\* Digits are below their base, and their numeral below the next power.
Digital(n, b, x) == \A i \in 1..n : x[i] \in 0..(b - 1)

LEMMA NumeralBound ==
    ASSUME NEW n \in Nat, NEW b \in Nat \ {0}, NEW pw, PowersOf(b, n, pw),
           NEW x, Digital(n, b, x), NEW v, Numeral(n, pw, x, v)
    PROVE  \A i \in 0..n : v[i] \in 0..(pw[i] - 1)
<1> DEFINE S == {m \in 0..n : v[m] \in 0..(pw[m] - 1)}
<1>1. S \subseteq 0..n /\ 0 \in S
  BY DEF PowersOf, Numeral
<1>2. ASSUME NEW m \in 0..(n - 1), m \in S PROVE m + 1 \in S
  <2>1. m + 1 \in 1..n /\ m + 1 \in 0..n /\ (m + 1) - 1 = m /\ m \in 0..n
    OBVIOUS
  <2> DEFINE p == pw[m]
             a == x[m + 1]
             u == v[m]
  <2>2. /\ p \in Nat \ {0} /\ a \in 0..(b - 1) /\ u \in 0..(p - 1)
        /\ pw[m + 1] = p * b /\ v[m + 1] = u + a * p
    BY <1>2, <2>1 DEF PowersOf, Numeral, Digital
  <2> HIDE DEF p, a, u
  <2>3. u + a * p \in 0..(p * b - 1)
    <3>1. a * p >= 0 /\ a * p <= (b - 1) * p
      BY <2>2
    <3>2. (b - 1) * p = p * b - p /\ a * p \in Int /\ p * b \in Int
      BY <2>2, Ring
    <3> QED BY <2>2, <3>1, <3>2
  <2> QED BY <2>1, <2>2, <2>3
<1> HIDE DEF S
<1>3. \A m \in 0..n : m \in S
  BY <1>1, <1>2, UpTo
<1> QED BY <1>3 DEF S

\* The digits of a number are the only ones.
LEMMA NumeralUnique ==
    ASSUME NEW n \in Nat, NEW b \in Nat \ {0}, NEW pw, PowersOf(b, n, pw),
           NEW x, Digital(n, b, x), NEW v, Numeral(n, pw, x, v),
           NEW y, Digital(n, b, y), NEW w, Numeral(n, pw, y, w), v[n] = w[n]
    PROVE  \A i \in 1..n : x[i] = y[i]
<1> DEFINE S == {m \in 0..n : v[m] = w[m] => \A i \in 1..m : x[i] = y[i]}
<1>1. S \subseteq 0..n /\ 0 \in S
  OBVIOUS
<1>2. ASSUME NEW m \in 0..(n - 1), m \in S PROVE m + 1 \in S
  <2>1. m + 1 \in 1..n /\ m + 1 \in 0..n /\ (m + 1) - 1 = m /\ m \in 0..n
    OBVIOUS
  <2> SUFFICES ASSUME v[m + 1] = w[m + 1]
               PROVE  \A i \in 1..(m + 1) : x[i] = y[i]
    BY <2>1
  <2> DEFINE p == pw[m]
             a == x[m + 1]
             c == y[m + 1]
             u == v[m]
             t == w[m]
  <2>2. u \in 0..(p - 1) /\ t \in 0..(p - 1)
    BY <2>1, NumeralBound
  <2>3. p \in Nat \ {0} /\ a \in Int /\ c \in Int
    <3>1. p \in Nat \ {0}
      BY <2>1 DEF PowersOf
    <3>2. a \in 0..(b - 1) /\ c \in 0..(b - 1)
      BY <2>1 DEF Digital
    <3> QED BY <3>1, <3>2
  <2>h. v[m + 1] = u + a * p /\ w[m + 1] = t + c * p
    BY <2>1 DEF Numeral
  <2> DEFINE vm == v[m + 1]
             wm == w[m + 1]
  <2>g. vm = u + a * p /\ wm = t + c * p /\ vm = wm
    BY <2>h
  <2> HIDE DEF p, a, c, u, t, vm, wm
  <2>4. a * p + u = c * p + t
    <3>1. a * p \in Int /\ c * p \in Int /\ u \in Int /\ t \in Int
      BY <2>2, <2>3, Ring
    <3> DEFINE ap == a * p
               cp == c * p
    <3>2. vm = u + ap /\ wm = t + cp /\ ap \in Int /\ cp \in Int
      BY <2>g, <3>1
    <3> HIDE DEF ap, cp
    <3>3. ap + u = cp + t
      BY <2>g, <3>1, <3>2
    <3> QED BY <3>3 DEF ap, cp
  <2>5. (a * p + u) \div p = a /\ (a * p + u) % p = u
    BY <2>2, <2>3, DivIs
  <2>6. (c * p + t) \div p = c /\ (c * p + t) % p = t
    BY <2>2, <2>3, DivIs
  <2>7. a = c /\ u = t
    BY <2>4, <2>5, <2>6
  <2>8. \A i \in 1..m : x[i] = y[i]
    BY <1>2, <2>7 DEF u, t
  <2> QED BY <2>7, <2>8 DEF a, c
<1> HIDE DEF S
<1>3. \A m \in 0..n : m \in S
  BY <1>1, <1>2, UpTo
<1> QED BY <1>3 DEF S

\* Columns whose carries go up: what they stand for is what the digits left
\* stand for and the last carry.
CarriedUp(n, b, col, cy, x) ==
    /\ cy \in [0..n -> Nat] /\ cy[0] = 0
    /\ \A i \in 1..n : /\ cy[i] = (col[i] + cy[i - 1]) \div b
                       /\ x[i] = (col[i] + cy[i - 1]) % b

LEMMA CarriesKeep ==
    ASSUME NEW n \in Nat, NEW b \in Nat \ {0}, NEW pw, PowersOf(b, n, pw),
           NEW col, \A i \in 1..n : col[i] \in Nat,
           NEW cy, NEW x, CarriedUp(n, b, col, cy, x),
           NEW v, Numeral(n, pw, col, v), NEW w, Numeral(n, pw, x, w)
    PROVE  Digital(n, b, x) /\ \A i \in 0..n : v[i] = w[i] + cy[i] * pw[i]
<1>1. ASSUME NEW i \in 1..n
      PROVE  /\ x[i] \in 0..(b - 1) /\ cy[i] \in Nat /\ cy[i - 1] \in Nat
             /\ col[i] + cy[i - 1] = cy[i] * b + x[i]
  <2> DEFINE s == col[i] + cy[i - 1]
  <2>1. s \in Int /\ cy[i] = s \div b /\ x[i] = s % b /\ cy[i] \in Nat /\ cy[i - 1] \in Nat
    BY DEF CarriedUp
  <2> HIDE DEF s
  <2>2. s % b \in 0..(b - 1) /\ s = (s \div b) * b + (s % b)
    BY <2>1, DivMod
  <2> QED BY <2>1, <2>2 DEF s
<1> DEFINE S == {m \in 0..n : v[m] = w[m] + cy[m] * pw[m]}
<1>2. S \subseteq 0..n /\ 0 \in S
  <2>1. v[0] = 0 /\ w[0] = 0 /\ cy[0] = 0 /\ pw[0] = 1
    BY DEF Numeral, CarriedUp, PowersOf
  <2> QED BY <2>1
<1>3. ASSUME NEW m \in 0..(n - 1), m \in S PROVE m + 1 \in S
  <2>1. m + 1 \in 1..n /\ m + 1 \in 0..n /\ (m + 1) - 1 = m /\ m \in 0..n
    OBVIOUS
  <2> DEFINE p == pw[m]
             c == cy[m]
             e == cy[m + 1]
             a == col[m + 1]
             d == x[m + 1]
             V == v[m]
             W == w[m]
  <2>2. p \in Int /\ V \in Int /\ W \in Int /\ V = W + c * p
    <3>1. p \in Nat \ {0}
      BY <2>1 DEF PowersOf
    <3>2. V \in Int /\ W \in Int
      BY <2>1 DEF Numeral
    <3> QED BY <1>3, <3>1, <3>2
  <2>3. d \in Int /\ e \in Int /\ c \in Int /\ a \in Int /\ a + c = e * b + d
    BY <1>1, <2>1
  <2>4. v[m + 1] = V + a * p /\ w[m + 1] = W + d * p /\ pw[m + 1] = p * b
    <3>1. v[m + 1] = V + a * p /\ w[m + 1] = W + d * p
      BY <2>1 DEF Numeral
    <3>2. pw[m + 1] = p * b
      BY <2>1 DEF PowersOf
    <3> QED BY <3>1, <3>2
  <2> HIDE DEF p, c, e, a, d, V, W
  <2>5. V + a * p = (W + d * p) + e * (p * b)
    <3>1. (a + c) * p = (e * b) * p + d * p
      BY <2>2, <2>3
    <3>2. (a + c) * p = a * p + c * p /\ (e * b) * p = e * (p * b)
          /\ a * p \in Int /\ c * p \in Int /\ d * p \in Int /\ e * (p * b) \in Int
      BY <2>2, <2>3
    <3> QED BY <2>2, <3>1, <3>2
  <2>6. v[m + 1] = w[m + 1] + e * pw[m + 1]
    BY <2>4, <2>5
  <2> QED BY <2>1, <2>6 DEF e
<1> HIDE DEF S
<1>4. \A m \in 0..n : m \in S
  BY <1>2, <1>3, UpTo
<1> QED BY <1>1, <1>4 DEF S, Digital

-----------------------------------------------------------------------------
(* The exponents of the addition chains: sequences of digits that stand for *)
(* a number modulo the power past the last digit.                          *)

DigitPowers == CHOOSE pw : PowersOf(DigitBase, Digits, pw)
Modulus == DigitPowers[Digits]

Holds(x, k) ==
    /\ x \in Exponents /\ k \in Int
    /\ \E v : Numeral(Digits, DigitPowers, x, v) /\ Cong(Modulus, v[Digits], k)

LEMMA ChainNumbers ==
    /\ Digits \in Nat /\ Digits > 25 /\ DigitBase \in Nat \ {0} /\ DigitBase > 979
    /\ PowersOf(DigitBase, Digits, DigitPowers) /\ Modulus \in Nat \ {0}
<1>1. Digits \in Nat /\ Digits > 25 /\ DigitBase \in Nat \ {0} /\ DigitBase > 979
  BY ChainAssumption
<1>2. PowersOf(DigitBase, Digits, DigitPowers)
  <2>1. \E pw : PowersOf(DigitBase, Digits, pw)
    BY <1>1, PowersExist
  <2> QED BY <2>1, Zenon DEF DigitPowers
<1>3. Modulus \in Nat \ {0}
  <2>1. Digits \in 0..Digits
    BY <1>1
  <2>2. DigitPowers \in [0..Digits -> Nat \ {0}]
    BY <1>2, Zenon DEF PowersOf
  <2> QED BY <2>1, <2>2 DEF Modulus
<1> QED BY <1>1, <1>2, <1>3

LEMMA ExponentNumeral ==
    ASSUME NEW x, \A i \in 1..Digits : x[i] \in Int
    PROVE  \E v : Numeral(Digits, DigitPowers, x, v)
<1>1. Digits \in Nat /\ PowersOf(DigitBase, Digits, DigitPowers)
  BY ChainNumbers
<1>2. ASSUME NEW i \in 1..Digits PROVE x[i] * DigitPowers[i - 1] \in Int
  <2>1. i - 1 \in 0..Digits
    BY <1>1
  <2>2. DigitPowers[i - 1] \in Nat \ {0} /\ x[i] \in Int
    BY <1>1, <2>1 DEF PowersOf
  <2> DEFINE a == DigitPowers[i - 1]
             c == x[i]
  <2> HIDE DEF a, c
  <2>3. c * a \in Int
    BY <2>2 DEF a, c
  <2> QED BY <2>3 DEF a, c
<1> QED BY <1>1, <1>2, NumeralExists

LEMMA SumCarries ==
    ASSUME NEW x \in Exponents, NEW y \in Exponents
    PROVE  /\ Sum(x, y) \in Exponents
           /\ \E cy : CarriedUp(Digits, DigitBase, [i \in 1..Digits |-> x[i] + y[i]], cy, Sum(x, y))
<1> DEFINE n == Digits
           b == DigitBase
           t == [i \in 1..n |-> x[i] + y[i]]
           Rec(u) == u = [i \in 0..n |-> IF i = 0 THEN 0 ELSE (x[i] + y[i] + u[i - 1]) \div b]
           u == CHOOSE u : Rec(u)
<1>1. n \in Nat /\ b \in Nat \ {0}
  BY ChainNumbers
<1>2. Sum(x, y) = [i \in 1..n |-> (x[i] + y[i] + u[i - 1]) % b]
  BY Zenon DEF Sum
<1>3. \A i \in 1..n : x[i] \in 0..(b - 1) /\ y[i] \in 0..(b - 1)
  BY DEF Exponents
<1> HIDE DEF n, b
<1>4. \A i \in 1..n : t[i] = x[i] + y[i] /\ t[i] \in Nat
  BY <1>1, <1>3
<1> DEFINE A == Nat
           zero == 0
           step == [i \in 1..n |-> [a \in A |-> (x[i] + y[i] + a) \div b]]
<1>5. \A i \in 1..n : \A a \in Nat : (x[i] + y[i] + a) \div b \in Nat
  <2> SUFFICES ASSUME NEW i \in 1..n, NEW a \in Nat PROVE (x[i] + y[i] + a) \div b \in Nat
    OBVIOUS
  <2> DEFINE s == x[i] + y[i] + a
  <2>1. s \in Nat
    BY <1>1, <1>3
  <2> HIDE DEF s
  <2>2. s \div b \in Nat
    BY <1>1, <2>1
  <2> QED BY <2>2 DEF s
<1>6. step \in [1..n -> [A -> A]] /\ zero \in A
  BY <1>5
<1>7. \A i \in 1..n : \A a \in A : step[i][a] = (x[i] + y[i] + a) \div b
  OBVIOUS
<1> HIDE DEF step, A, zero, t
<1>8. PICK fn : Recursion(n, A, zero, step, fn)
  BY <1>1, <1>6, RecursionExists
<1>9. fn \in [0..n -> A] /\ fn[0] = zero /\ \A k \in 1..n : fn[k] = step[k][fn[k - 1]]
  BY <1>8 DEF Recursion
<1>10. ASSUME NEW k \in 1..n PROVE fn[k] = (x[k] + y[k] + fn[k - 1]) \div b
  <2>1. fn[k - 1] \in A
    BY <1>1, <1>9
  <2> QED BY <1>7, <1>9, <2>1
<1>11. Rec(fn)
  <2> DEFINE g == [i \in 0..n |-> IF i = 0 THEN 0 ELSE (x[i] + y[i] + fn[i - 1]) \div b]
  <2>1. ASSUME NEW k \in 0..n PROVE fn[k] = g[k]
    <3>1. CASE k = 0
      BY <1>9, <3>1 DEF zero
    <3>2. CASE k # 0
      <4>1. k \in 1..n
        BY <1>1, <3>2
      <4> QED BY <1>10, <3>2, <4>1
    <3> QED BY <3>1, <3>2
  <2>2. fn = [k \in 0..n |-> fn[k]]
    BY <1>9
  <2>3. fn = g
    <3>1. g = [k \in 0..n |-> g[k]]
      BY Zenon
    <3> HIDE DEF g
    <3> QED BY <2>1, <2>2, <3>1
  <2> QED BY <2>3
<1>12. Rec(u)
  BY <1>11, Zenon
<1>13. ASSUME NEW k \in 0..n
       PROVE u[k] = IF k = 0 THEN 0 ELSE (x[k] + y[k] + u[k - 1]) \div b
  <2> HIDE DEF u
  <2> QED BY <1>12, Zenon
<1>14. u = [i \in 0..n |-> u[i]]
  <2> HIDE DEF u
  <2> QED BY <1>12
<1> HIDE DEF u
<1>15. 0 \in 0..n /\ \A k \in 1..n : k \in 0..n /\ k # 0 /\ k - 1 \in 0..n
  BY <1>1
<1>16. u[0] = 0 /\ \A k \in 1..n : u[k] = (x[k] + y[k] + u[k - 1]) \div b
  BY <1>13, <1>15
<1>17. \A k \in 0..n : u[k] \in Nat
  <2> DEFINE S == {m \in 0..n : u[m] \in Nat}
  <2>1. S \subseteq 0..n /\ 0 \in S
    BY <1>15, <1>16
  <2>2. ASSUME NEW m \in 0..(n - 1), m \in S PROVE m + 1 \in S
    <3>1. m + 1 \in 1..n /\ (m + 1) - 1 = m /\ u[m] \in Nat /\ m + 1 \in 0..n
      BY <1>1, <2>2
    <3>2. u[m + 1] = (x[m + 1] + y[m + 1] + u[m]) \div b
      BY <1>16, <3>1
    <3>3. u[m + 1] \in Nat
      BY <1>5, <3>1, <3>2
    <3> QED BY <3>1, <3>3
  <2> HIDE DEF S
  <2>3. \A m \in 0..n : m \in S
    BY <1>1, <2>1, <2>2, UpTo
  <2> QED BY <2>3 DEF S
<1>18. u \in [0..n -> Nat]
  BY <1>14, <1>17
<1> DEFINE w == Sum(x, y)
<1>19. \A i \in 1..n : w[i] = (x[i] + y[i] + u[i - 1]) % b
  BY <1>2
<1>20. w \in [1..n -> 0..(b - 1)]
  <2>1. \A i \in 1..n : (x[i] + y[i] + u[i - 1]) % b \in 0..(b - 1)
    <3> SUFFICES ASSUME NEW i \in 1..n PROVE (x[i] + y[i] + u[i - 1]) % b \in 0..(b - 1)
      OBVIOUS
    <3> DEFINE s == x[i] + y[i] + u[i - 1]
    <3>1. s \in Int
      BY <1>1, <1>3, <1>15, <1>17
    <3> HIDE DEF s
    <3>2. s % b \in 0..(b - 1)
      BY <1>1, <3>1, DivMod
    <3> QED BY <3>2 DEF s
  <2> QED BY <1>2, <2>1
<1> HIDE DEF w
<1>21. \A i \in 1..n : u[i] = (t[i] + u[i - 1]) \div b /\ w[i] = (t[i] + u[i - 1]) % b
  BY <1>4, <1>16, <1>19
<1>22. CarriedUp(n, b, t, u, w)
  BY <1>16, <1>18, <1>21 DEF CarriedUp
<1>23. \E cy : CarriedUp(n, b, t, cy, w)
  BY <1>22
<1> QED BY <1>20, <1>23 DEF w, n, b, t, Exponents

LEMMA HoldsSum ==
    ASSUME NEW x, NEW y, NEW a, NEW c, Holds(x, a), Holds(y, c)
    PROVE  Holds(Sum(x, y), a + c)
<1> DEFINE n == Digits
           pw == DigitPowers
           M == Modulus
           t == [i \in 1..n |-> x[i] + y[i]]
           z == Sum(x, y)
<1>1. n \in Nat /\ DigitBase \in Nat \ {0} /\ PowersOf(DigitBase, n, pw) /\ M \in Nat \ {0}
      /\ n \in 0..n /\ M = pw[n]
  BY ChainNumbers DEF Modulus
<1>2. x \in Exponents /\ y \in Exponents /\ a \in Int /\ c \in Int
  BY DEF Holds
<1>3. PICK v : Numeral(n, pw, x, v) /\ Cong(M, v[n], a)
  BY DEF Holds
<1>4. PICK w : Numeral(n, pw, y, w) /\ Cong(M, w[n], c)
  BY DEF Holds
<1>5. z \in Exponents /\ \E cy : CarriedUp(n, DigitBase, t, cy, z)
  BY <1>2, SumCarries
<1>6. /\ \A i \in 1..n : x[i] \in Nat /\ y[i] \in Nat /\ z[i] \in Nat
      /\ \A i \in 1..n : t[i] = x[i] + y[i] /\ t[i] \in Nat
  BY <1>1, <1>2, <1>5, SMTT(30) DEF Exponents
<1>7. \A i \in 1..n : i - 1 \in 0..n /\ i \in 0..n
  BY <1>1
<1> HIDE DEF t, z, n, pw, M
<1>8. PICK s : Numeral(n, pw, z, s)
  BY <1>6, ExponentNumeral DEF n, pw
<1> DEFINE q == [i \in 0..n |-> v[i] + w[i]]
<1>9. Numeral(n, pw, t, q)
  <2>1. v \in [0..n -> Int] /\ w \in [0..n -> Int] /\ v[0] = 0 /\ w[0] = 0
    BY <1>3, <1>4 DEF Numeral
  <2>2. q \in [0..n -> Int] /\ q[0] = 0 /\ \A i \in 0..n : q[i] = v[i] + w[i]
    BY <1>1, <2>1
  <2> HIDE DEF q
  <2>3. ASSUME NEW i \in 1..n PROVE q[i] = q[i - 1] + t[i] * pw[i - 1]
    <3> DEFINE p == pw[i - 1]
               d == x[i]
               e == y[i]
               v0 == v[i - 1]
               w0 == w[i - 1]
    <3>1. p \in Int /\ d \in Int /\ e \in Int /\ v0 \in Int /\ w0 \in Int
      <4>1. p \in Nat \ {0}
        BY <1>1, <1>7 DEF PowersOf
      <4> QED BY <1>6, <1>7, <2>1, <4>1
    <3>2. v[i] = v0 + d * p /\ w[i] = w0 + e * p
      BY <1>3, <1>4 DEF Numeral
    <3>3. q[i] = v[i] + w[i] /\ q[i - 1] = v0 + w0 /\ t[i] = d + e
      BY <1>6, <1>7, <2>2
    <3> HIDE DEF p, d, e, v0, w0
    <3>4. (d + e) * p = d * p + e * p /\ d * p \in Int /\ e * p \in Int
      BY <3>1, Ring
    <3>5. (v0 + d * p) + (w0 + e * p) = (v0 + w0) + (d + e) * p
      BY <3>1, <3>4
    <3>6. q[i] = q[i - 1] + t[i] * p
      BY <3>2, <3>3, <3>5
    <3> QED BY <3>6 DEF p
  <2> QED BY <2>2, <2>3 DEF Numeral
<1>10. q[n] = v[n] + w[n] /\ v[n] \in Int /\ w[n] \in Int /\ s[n] \in Int
  BY <1>1, <1>3, <1>4, <1>8 DEF Numeral
<1> HIDE DEF q
<1>11. PICK cy : CarriedUp(n, DigitBase, t, cy, z)
  BY <1>5
<1>12. q[n] = s[n] + cy[n] * pw[n] /\ cy[n] \in Nat
  <2>1. \A i \in 0..n : q[i] = s[i] + cy[i] * pw[i]
    BY <1>1, <1>6, <1>8, <1>9, <1>11, CarriesKeep, SMTT(30)
  <2>2. cy[n] \in Nat
    BY <1>1, <1>11 DEF CarriedUp
  <2> QED BY <1>1, <2>1, <2>2
<1>13. Cong(M, q[n], s[n])
  BY <1>1, <1>12 DEF Cong
<1>14. Cong(M, q[n], a + c)
  BY <1>1, <1>2, <1>3, <1>4, <1>10, CongPlus
<1>15. Cong(M, s[n], a + c)
  <2>1. q[n] \in Int /\ a + c \in Int
    BY <1>2, <1>10
  <2>2. Cong(M, s[n], q[n])
    BY <1>1, <1>10, <1>13, <2>1, CongSym
  <2> QED BY <1>1, <1>10, <1>14, <2>1, <2>2, CongTrans
<1>16. a + c \in Int
  BY <1>2
<1> QED BY <1>5, <1>8, <1>15, <1>16 DEF Holds, n, pw, M, z

\* A number that one digit holds; and exponents of the same number are equal.
OneDigit == 0..979

LEMMA HoldsSmall ==
    ASSUME NEW m \in OneDigit
    PROVE  Holds(Small(m), m)
<1>m. m \in 0..979
  BY DEF OneDigit
<1> DEFINE n == Digits
           pw == DigitPowers
           x == Small(m)
<1>1. /\ n \in Nat /\ n > 25 /\ DigitBase \in Nat \ {0} /\ DigitBase > 979
      /\ PowersOf(DigitBase, n, pw) /\ Modulus \in Nat \ {0}
  BY ChainNumbers
<1>2. /\ x = [i \in 1..n |-> IF i = 1 THEN m ELSE 0]
  BY DEF Small
<1>3. x \in [1..n -> 0..(DigitBase - 1)] /\ \A i \in 1..n : x[i] = IF i = 1 THEN m ELSE 0
  BY <1>m, <1>1, <1>2
<1> DEFINE v == [i \in 0..n |-> IF i = 0 THEN 0 ELSE m]
<1>4. v \in [0..n -> Int] /\ v[0] = 0 /\ \A i \in 0..n : v[i] = IF i = 0 THEN 0 ELSE m
  BY <1>m, <1>1
<1>5. \A i \in 0..n : pw[i] \in Nat \ {0}
  BY <1>1 DEF PowersOf
<1>6. pw[0] = 1
  BY <1>1 DEF PowersOf
<1> HIDE DEF x, v, n, pw
<1>7. ASSUME NEW i \in 1..n PROVE v[i] = v[i - 1] + x[i] * pw[i - 1]
  <2>1. i \in 0..n /\ i - 1 \in 0..n /\ i # 0
    BY <1>1
  <2>2. pw[i - 1] \in Nat \ {0} /\ v[i] = m
    BY <1>4, <1>5, <2>1
  <2>3. CASE i = 1
    <3>1. i - 1 = 0
      BY <2>3
    <3>2. v[i - 1] = 0 /\ x[i] = m /\ pw[i - 1] = 1
      BY <1>1, <1>3, <1>4, <1>6, <2>3, <3>1
    <3> QED BY <1>m, <2>2, <3>2
  <2>4. CASE i # 1
    <3>1. v[i - 1] = m /\ x[i] = 0
      BY <1>1, <1>3, <1>4, <2>1, <2>4
    <3> QED BY <1>m, <2>2, <3>1
  <2> QED BY <2>3, <2>4
<1>8. Numeral(n, pw, x, v)
  BY <1>4, <1>7 DEF Numeral
<1>9. v[n] = m
  BY <1>1, <1>4
<1>10. Cong(Modulus, v[n], m)
  BY <1>m, <1>1, <1>9, CongRefl
<1> QED BY <1>m, <1>3, <1>8, <1>10 DEF Holds, n, pw, x, Exponents

LEMMA HoldsUnique ==
    ASSUME NEW x, NEW y, NEW a, Holds(x, a), Holds(y, a)
    PROVE  x = y
<1> DEFINE n == Digits
           pw == DigitPowers
           M == Modulus
<1>1. n \in Nat /\ DigitBase \in Nat \ {0} /\ PowersOf(DigitBase, n, pw) /\ M \in Nat \ {0}
      /\ n \in 0..n /\ M = pw[n]
  BY ChainNumbers DEF Modulus
<1>2. x \in [1..n -> 0..(DigitBase - 1)] /\ y \in [1..n -> 0..(DigitBase - 1)] /\ a \in Int
  BY DEF Holds, Exponents
<1>3. PICK v : Numeral(n, pw, x, v) /\ Cong(M, v[n], a)
  BY DEF Holds
<1>4. PICK w : Numeral(n, pw, y, w) /\ Cong(M, w[n], a)
  BY DEF Holds
<1> HIDE DEF n, pw, M
<1>5. Digital(n, DigitBase, x) /\ Digital(n, DigitBase, y)
  BY <1>2 DEF Digital
<1>6. v[n] \in 0..(M - 1) /\ w[n] \in 0..(M - 1)
  <2>1. \A i \in 0..n : v[i] \in 0..(pw[i] - 1)
    BY <1>1, <1>3, <1>5, NumeralBound
  <2>2. \A i \in 0..n : w[i] \in 0..(pw[i] - 1)
    BY <1>1, <1>4, <1>5, NumeralBound
  <2> QED BY <1>1, <2>1, <2>2
<1>7. v[n] = w[n]
  <2>1. v[n] \in Int /\ w[n] \in Int
    BY <1>1, <1>6
  <2>2. Cong(M, a, w[n])
    BY <1>1, <1>2, <1>4, <2>1, CongSym
  <2>3. Cong(M, v[n], w[n])
    BY <1>1, <1>2, <1>3, <2>1, <2>2, CongTrans
  <2> QED BY <1>1, <1>6, <2>3, CongSmall
<1>8. \A i \in 1..n : x[i] = y[i]
  BY <1>1, <1>3, <1>4, <1>5, <1>7, NumeralUnique
<1>9. x = [i \in 1..n |-> x[i]] /\ y = [i \in 1..n |-> y[i]]
  BY <1>2
<1> QED BY <1>8, <1>9, Zenon

\* The powers of two.
Two == CHOOSE pw : PowersOf(2, 256, pw)

LEMMA Twos ==
    /\ \A k \in 0..256 : Two[k] \in Nat \ {0}
    /\ Two[0] = 1 /\ \A k \in 0..255 : Two[k + 1] = 2 * Two[k]
<1>1. PowersOf(2, 256, Two)
  <2>1. \E pw : PowersOf(2, 256, pw)
    BY PowersExist
  <2> QED BY <2>1, Zenon DEF Two
<1>2. Two \in [0..256 -> Nat \ {0}] /\ Two[0] = 1 /\ \A i \in 1..256 : Two[i] = Two[i - 1] * 2
  BY <1>1, Zenon DEF PowersOf
<1>3. ASSUME NEW k \in 0..255 PROVE Two[k + 1] = 2 * Two[k]
  <2>1. k + 1 \in 1..256 /\ (k + 1) - 1 = k /\ k \in 0..256
    OBVIOUS
  <2>2. Two[k + 1] = Two[k] * 2 /\ Two[k] \in Nat \ {0}
    BY <1>2, <2>1
  <2> QED BY <2>2
<1> QED BY <1>2, <1>3

LEMMA TwosAdd ==
    ASSUME NEW m \in 0..256
    PROVE  \A k \in 0..(256 - m) : Two[m + k] = Two[m] * Two[k]
<1> DEFINE n == 256 - m
           S == {k \in 0..n : Two[m + k] = Two[m] * Two[k]}
<1>1. n \in Nat /\ m \in 0..256 /\ n = 256 - m
  OBVIOUS
<1> HIDE DEF n
<1>2. 0 \in S /\ S \subseteq 0..n
  <2>1. Two[m] \in Nat \ {0} /\ Two[0] = 1
    BY <1>1, Twos
  <2>2. m + 0 = m /\ 0 \in 0..n
    BY <1>1
  <2>3. Two[m + 0] = Two[m] * Two[0]
    BY <2>1, <2>2
  <2> QED BY <2>2, <2>3
<1>3. ASSUME NEW k \in 0..(n - 1), k \in S PROVE k + 1 \in S
  <2>1. m + k \in 0..255 /\ k \in 0..255 /\ k + 1 \in 0..n /\ m + (k + 1) = (m + k) + 1
        /\ m \in 0..256 /\ k \in 0..256
    BY <1>1
  <2> DEFINE a == Two[m]
             c == Two[k]
  <2>2. a \in Nat \ {0} /\ c \in Nat \ {0}
    BY <2>1, Twos
  <2>3. Two[(m + k) + 1] = 2 * Two[m + k] /\ Two[k + 1] = 2 * c
    BY <2>1, Twos
  <2>4. Two[m + k] = a * c
    BY <1>3
  <2> HIDE DEF a, c
  <2>5. 2 * (a * c) = a * (2 * c)
    BY <2>2
  <2>6. Two[m + (k + 1)] = a * Two[k + 1]
    BY <2>1, <2>3, <2>4, <2>5
  <2> QED BY <2>1, <2>6 DEF a
<1> HIDE DEF S
<1>4. \A k \in 0..n : k \in S
  BY <1>1, <1>2, <1>3, UpTo
<1> QED BY <1>4 DEF S, n

LEMMA SmallTwos ==
    /\ Two[0] = 1 /\ Two[1] = 2 /\ Two[2] = 4 /\ Two[3] = 8 /\ Two[4] = 16 /\ Two[6] = 64
    /\ Two[8] = 256 /\ Two[10] = 1024 /\ Two[11] = 2048
<1>1. /\ Two[0] = 1 /\ Two[1] = 2 * Two[0] /\ Two[2] = 2 * Two[1] /\ Two[3] = 2 * Two[2]
      /\ Two[4] = 2 * Two[3] /\ Two[5] = 2 * Two[4] /\ Two[6] = 2 * Two[5]
      /\ Two[7] = 2 * Two[6] /\ Two[8] = 2 * Two[7] /\ Two[9] = 2 * Two[8]
      /\ Two[10] = 2 * Two[9] /\ Two[11] = 2 * Two[10]
  <2>1. \A k \in 0..255 : Two[k + 1] = 2 * Two[k]
    BY Twos
  <2> QED BY <2>1, Twos, SMTT(30)
<1> QED BY <1>1

\* A squaring doubles the exponent.
LEMMA HoldsSquared ==
    ASSUME NEW x, NEW a, Holds(x, a), NEW m \in 0..256
    PROVE  Holds(Squared(x, m), a * Two[m])
<1> DEFINE Rec(u) == u = [k \in 0..m |-> IF k = 0 THEN x ELSE Doubled[u[k - 1]]]
           u == CHOOSE u : Rec(u)
<1>1. Squared(x, m) = u[m]
  BY Zenon DEF Squared
<1>2. x \in Exponents /\ a \in Int /\ m \in Nat
  BY DEF Holds
<1>3. \A y \in Exponents : Doubled[y] = Sum(y, y) /\ Doubled[y] \in Exponents
  BY SumCarries DEF Doubled
<1> DEFINE step == [k \in 1..m |-> [y \in Exponents |-> Doubled[y]]]
<1>4. step \in [1..m -> [Exponents -> Exponents]]
  BY <1>3
<1>5. \A k \in 1..m : \A y \in Exponents : step[k][y] = Doubled[y]
  OBVIOUS
<1> HIDE DEF step
<1>6. PICK fn : Recursion(m, Exponents, x, step, fn)
  BY <1>2, <1>4, RecursionExists
<1>7. fn \in [0..m -> Exponents] /\ fn[0] = x /\ \A k \in 1..m : fn[k] = step[k][fn[k - 1]]
  BY <1>6 DEF Recursion
<1>8. ASSUME NEW k \in 1..m PROVE fn[k] = Doubled[fn[k - 1]]
  <2>1. fn[k - 1] \in Exponents
    BY <1>2, <1>7
  <2> QED BY <1>5, <1>7, <2>1
<1>9. Rec(fn)
  <2> DEFINE g == [k \in 0..m |-> IF k = 0 THEN x ELSE Doubled[fn[k - 1]]]
  <2>1. ASSUME NEW k \in 0..m PROVE fn[k] = g[k]
    <3>1. CASE k = 0
      BY <1>7, <3>1
    <3>2. CASE k # 0
      <4>1. k \in 1..m
        BY <3>2
      <4> QED BY <1>8, <3>2, <4>1
    <3> QED BY <3>1, <3>2
  <2>2. fn = [k \in 0..m |-> fn[k]]
    BY <1>7
  <2>3. fn = g
    <3>1. g = [k \in 0..m |-> g[k]]
      BY Zenon
    <3> HIDE DEF g
    <3> QED BY <2>1, <2>2, <3>1
  <2> QED BY <2>3
<1>10. Rec(u)
  BY <1>9, Zenon
<1>11. ASSUME NEW k \in 0..m PROVE u[k] = IF k = 0 THEN x ELSE Doubled[u[k - 1]]
  <2> HIDE DEF u
  <2> QED BY <1>10, Zenon
<1> HIDE DEF u
<1> DEFINE S == {k \in 0..m : Holds(u[k], a * Two[k])}
<1>12. S \subseteq 0..m /\ 0 \in S
  <2>1. u[0] = x /\ 0 \in 0..m
    BY <1>11
  <2>2. a * Two[0] = a
    BY <1>2, Twos
  <2> QED BY <2>1, <2>2
<1>13. ASSUME NEW k \in 0..(m - 1), k \in S PROVE k + 1 \in S
  <2>1. k + 1 \in 0..m /\ k + 1 # 0 /\ (k + 1) - 1 = k /\ k \in 0..255 /\ k \in 0..256
    OBVIOUS
  <2>2. u[k + 1] = Doubled[u[k]]
    BY <1>11, <2>1
  <2> DEFINE y == u[k]
             c == a * Two[k]
             t == Two[k]
  <2>3. Holds(y, c)
    BY <1>13
  <2>4. t \in Nat \ {0} /\ Two[k + 1] = 2 * t /\ c = a * t
    BY <2>1, Twos
  <2> HIDE DEF y, c, t
  <2>5. Holds(Sum(y, y), c + c)
    BY <2>3, HoldsSum
  <2>6. y \in Exponents
    BY <2>3 DEF Holds
  <2>7. u[k + 1] = Sum(y, y)
    BY <1>3, <2>2, <2>6 DEF y
  <2>8. c + c = a * Two[k + 1]
    <3>1. c + c = a * (2 * t)
      BY <1>2, <2>4
    <3> QED BY <2>4, <3>1
  <2>9. Holds(u[k + 1], a * Two[k + 1])
    BY <2>5, <2>7, <2>8
  <2> QED BY <2>1, <2>9
<1> HIDE DEF S
<1>14. \A k \in 0..m : k \in S
  BY <1>2, <1>12, <1>13, UpTo
<1>15. Holds(u[m], a * Two[m])
  BY <1>14 DEF S
<1> QED BY <1>1, <1>15

-----------------------------------------------------------------------------
(* The addition chains.                                                    *)

\* A step leaves the other registers as they are.
LEMMA StepHolds ==
    ASSUME NEW st, NEW ex, StepOf(st), st.squares \in 0..256, st.from # "none",
           \A r \in DOMAIN reg : Holds(reg[r], ex[r])
    PROVE  /\ DOMAIN reg' = DOMAIN reg \cup {st.to}
           /\ \A r \in DOMAIN reg : r # st.to => Holds(reg'[r], ex[r])
           /\ Holds(reg'[st.to], ex[st.from] * Two[st.squares]
                                 + (IF st.times = "none" THEN 0 ELSE ex[st.times]))
<1> DEFINE x == Squared(reg[st.from], st.squares)
           y == IF st.times = "none" THEN x ELSE Sum(x, reg[st.times])
           a == ex[st.from]
           c == ex[st.times]
<1>1. /\ st.from \in DOMAIN reg /\ (st.times # "none" => st.times \in DOMAIN reg)
      /\ reg' = [r \in DOMAIN reg \cup {st.to} |-> IF r = st.to THEN y ELSE reg[r]]
  BY DEF StepOf
<1>2. Holds(x, a * Two[st.squares])
  <2>1. Holds(reg[st.from], a)
    BY <1>1
  <2> HIDE DEF a
  <2> QED BY <2>1, HoldsSquared
<1>3. a * Two[st.squares] \in Int
  BY <1>2 DEF Holds
<1>4. Holds(y, a * Two[st.squares] + (IF st.times = "none" THEN 0 ELSE c))
  <2> DEFINE e == a * Two[st.squares]
  <2>1. e \in Int /\ Holds(x, e)
    BY <1>2, <1>3
  <2> HIDE DEF e, x
  <2>2. CASE st.times = "none"
    <3>1. e + 0 = e /\ y = x
      BY <2>1, <2>2
    <3> QED BY <2>1, <2>2, <3>1 DEF e
  <2>3. CASE st.times # "none"
    <3>1. Holds(reg[st.times], c)
      BY <1>1, <2>3
    <3> HIDE DEF c
    <3>2. Holds(Sum(x, reg[st.times]), e + c)
      BY <2>1, <3>1, HoldsSum
    <3> QED BY <2>3, <3>2 DEF e
  <2> QED BY <2>2, <2>3
<1> HIDE DEF y
<1> QED BY <1>1, <1>4

LEMMA Appended ==
    ASSUME NEW A, NEW s \in Seq(A), NEW t \in Seq(A)
    PROVE  /\ s \o t \in Seq(A) /\ Len(s \o t) = Len(s) + Len(t)
           /\ \A i \in 1..Len(s) : (s \o t)[i] = s[i]
           /\ \A i \in 1..Len(t) : (s \o t)[Len(s) + i] = t[i]
  OBVIOUS

LEMMA SqrtProgram ==
    /\ Len(SquareRootVal) = 14
    /\ SquareRootVal[1] = Step("a2", "a", 1, "a")
    /\ SquareRootVal[2] = Step("a3", "a2", 1, "a")
    /\ SquareRootVal[3] = Step("a6", "a3", 3, "a3")
    /\ SquareRootVal[4] = Step("a9", "a6", 3, "a3")
    /\ SquareRootVal[5] = Step("a11", "a9", 2, "a2")
    /\ SquareRootVal[6] = Step("a22", "a11", 11, "a11")
    /\ SquareRootVal[7] = Step("a44", "a22", 22, "a22")
    /\ SquareRootVal[8] = Step("a88", "a44", 44, "a44")
    /\ SquareRootVal[9] = Step("a176", "a88", 88, "a88")
    /\ SquareRootVal[10] = Step("a220", "a176", 44, "a44")
    /\ SquareRootVal[11] = Step("a223", "a220", 3, "a3")
    /\ SquareRootVal[12] = Step("f", "a223", 23, "a22")
    /\ SquareRootVal[13] = Step("f", "f", 6, "a2")
    /\ SquareRootVal[14] = Step("f", "f", 2, "none")
  BY DEF SquareRootVal

LEMMA InverseProgram ==
    /\ Len(Inverse) = 37
    /\ Inverse[1] = Step("a2", "f", 1, "none")
    /\ Inverse[2] = Step("a3", "a2", 0, "f")
    /\ Inverse[3] = Step("a4", "a2", 1, "none")
    /\ Inverse[4] = Step("a10", "a4", 1, "a2")
    /\ Inverse[5] = Step("a11", "a10", 0, "f")
    /\ Inverse[6] = Step("a21", "a10", 0, "a11")
    /\ Inverse[7] = Step("a42", "a21", 1, "none")
    /\ Inverse[8] = Step("a45", "a42", 0, "a3")
    /\ Inverse[9] = Step("a63", "a42", 0, "a21")
    /\ Inverse[10] = Step("a1019", "a63", 4, "a11")
    /\ Inverse[11] = Step("a1023", "a1019", 0, "a4")
    /\ Inverse[12] = Step("f", "a63", 0, "none")
    /\ \A k \in 12..32 : Inverse[k + 1] = Step("f", "f", 10, "a1023")
    /\ Inverse[34] = Step("f", "f", 10, "a1019")
    /\ Inverse[35] = Step("f", "f", 10, "a1023")
    /\ Inverse[36] = Step("f", "f", 10, "a1023")
    /\ Inverse[37] = Step("f", "f", 10, "a45")
<1> DEFINE head == << Step("a2", "f", 1, "none"),
                      Step("a3", "a2", 0, "f"),
                      Step("a4", "a2", 1, "none"),
                      Step("a10", "a4", 1, "a2"),
                      Step("a11", "a10", 0, "f"),
                      Step("a21", "a10", 0, "a11"),
                      Step("a42", "a21", 1, "none"),
                      Step("a45", "a42", 0, "a3"),
                      Step("a63", "a42", 0, "a21"),
                      Step("a1019", "a63", 4, "a11"),
                      Step("a1023", "a1019", 0, "a4"),
                      Step("f", "a63", 0, "none") >>
           mid == [i \in 1..Repeats(21) |-> Step("f", "f", 10, "a1023")]
           tail == << Step("f", "f", 10, "a1019"),
                      Step("f", "f", 10, "a1023"),
                      Step("f", "f", 10, "a1023"),
                      Step("f", "f", 10, "a45") >>
<1>1. Inverse = head \o mid \o tail
  BY DEF Inverse
<1>2. /\ head \in Seq({head[i] : i \in 1..12}) /\ Len(head) = 12
      /\ head[1] = Step("a2", "f", 1, "none")
      /\ head[2] = Step("a3", "a2", 0, "f")
      /\ head[3] = Step("a4", "a2", 1, "none")
      /\ head[4] = Step("a10", "a4", 1, "a2")
      /\ head[5] = Step("a11", "a10", 0, "f")
      /\ head[6] = Step("a21", "a10", 0, "a11")
      /\ head[7] = Step("a42", "a21", 1, "none")
      /\ head[8] = Step("a45", "a42", 0, "a3")
      /\ head[9] = Step("a63", "a42", 0, "a21")
      /\ head[10] = Step("a1019", "a63", 4, "a11")
      /\ head[11] = Step("a1023", "a1019", 0, "a4")
      /\ head[12] = Step("f", "a63", 0, "none")
  OBVIOUS
<1>3. /\ Len(mid) = 21 /\ \A i \in 1..21 : mid[i] = Step("f", "f", 10, "a1023")
      /\ mid \in Seq({Step("f", "f", 10, "a1023")})
  BY DEF Repeats
<1>4. /\ tail \in Seq({tail[i] : i \in 1..4}) /\ Len(tail) = 4
      /\ tail[1] = Step("f", "f", 10, "a1019")
      /\ tail[2] = Step("f", "f", 10, "a1023")
      /\ tail[3] = Step("f", "f", 10, "a1023")
      /\ tail[4] = Step("f", "f", 10, "a45")
  OBVIOUS
<1> HIDE DEF head, mid, tail
<1> DEFINE both == head \o mid
           All == {head[i] : i \in 1..12} \cup {Step("f", "f", 10, "a1023")}
                  \cup {tail[i] : i \in 1..4}
<1>5. head \in Seq(All) /\ mid \in Seq(All) /\ tail \in Seq(All)
  <2> DEFINE A1 == {head[i] : i \in 1..12}
             A3 == {tail[i] : i \in 1..4}
             A2 == {Step("f", "f", 10, "a1023")}
  <2>1. head \in Seq(A1) /\ tail \in Seq(A3) /\ mid \in Seq(A2)
    BY <1>2, <1>3, <1>4
  <2>2. A1 \subseteq All /\ A2 \subseteq All /\ A3 \subseteq All
    OBVIOUS
  <2> HIDE DEF A1, A2, A3, All
  <2> QED BY <2>1, <2>2
<1> HIDE DEF All
<1>6. /\ both \in Seq(All) /\ Len(both) = 33
      /\ \A i \in 1..12 : both[i] = head[i]
      /\ \A i \in 1..21 : both[12 + i] = mid[i]
  <2>1. /\ Len(both) = Len(head) + Len(mid)
        /\ \A i \in 1..Len(head) : both[i] = head[i]
        /\ \A i \in 1..Len(mid) : both[Len(head) + i] = mid[i]
        /\ both \in Seq(All)
    BY <1>5, Appended
  <2> HIDE DEF both
  <2> QED BY <1>2, <1>3, <2>1
<1> HIDE DEF both
<1>7. /\ Len(both \o tail) = 37
      /\ \A i \in 1..33 : (both \o tail)[i] = both[i]
      /\ \A i \in 1..4 : (both \o tail)[33 + i] = tail[i]
  <2> DEFINE whole == both \o tail
  <2>1. /\ Len(whole) = Len(both) + Len(tail)
        /\ \A i \in 1..Len(both) : whole[i] = both[i]
        /\ \A i \in 1..Len(tail) : whole[Len(both) + i] = tail[i]
    <3>1. both \in Seq(All) /\ tail \in Seq(All)
      BY <1>5, <1>6
    <3> HIDE DEF both
    <3> QED BY <3>1, Appended
  <2> HIDE DEF whole
  <2>2. /\ Len(whole) = 37 /\ \A i \in 1..33 : whole[i] = both[i]
        /\ \A i \in 1..4 : whole[33 + i] = tail[i]
    BY <1>4, <1>6, <2>1
  <2> QED BY <2>2 DEF whole
<1>8. Inverse = both \o tail
  BY <1>1 DEF both
<1>9. ASSUME NEW k \in 12..32 PROVE Inverse[k + 1] = Step("f", "f", 10, "a1023")
  <2>1. k + 1 \in 1..33 /\ k - 11 \in 1..21 /\ 12 + (k - 11) = k + 1
    OBVIOUS
  <2>2. Inverse[k + 1] = both[k + 1]
    BY <1>7, <1>8, <2>1
  <2>3. both[k + 1] = mid[k - 11]
    BY <1>6, <2>1
  <2> QED BY <1>3, <2>1, <2>2, <2>3
<1>10. \A i \in 1..12 : Inverse[i] = head[i]
  <2>1. \A i \in 1..12 : i \in 1..33
    OBVIOUS
  <2> QED BY <1>6, <1>7, <1>8, <2>1
<1>11. Inverse[34] = tail[1] /\ Inverse[35] = tail[2] /\ Inverse[36] = tail[3]
       /\ Inverse[37] = tail[4]
  <2> DEFINE whole == both \o tail
  <2>1. \A i \in 1..4 : whole[33 + i] = tail[i]
    BY <1>7
  <2>2. Inverse = whole
    BY <1>8
  <2> HIDE DEF whole
  <2>3. 33 + 1 = 34 /\ 33 + 2 = 35 /\ 33 + 3 = 36 /\ 33 + 4 = 37
    OBVIOUS
  <2>4. Inverse[33 + 1] = tail[1] /\ Inverse[33 + 2] = tail[2] /\ Inverse[33 + 3] = tail[3]
        /\ Inverse[33 + 4] = tail[4]
    BY <2>1, <2>2
  <2> QED BY <2>3, <2>4
<1>12. /\ Inverse[1] = head[1] /\ Inverse[2] = head[2] /\ Inverse[3] = head[3]
       /\ Inverse[4] = head[4] /\ Inverse[5] = head[5] /\ Inverse[6] = head[6]
       /\ Inverse[7] = head[7] /\ Inverse[8] = head[8] /\ Inverse[9] = head[9]
       /\ Inverse[10] = head[10] /\ Inverse[11] = head[11] /\ Inverse[12] = head[12]
  BY <1>10
<1> QED BY <1>2, <1>4, <1>7, <1>8, <1>9, <1>11, <1>12

-----------------------------------------------------------------------------
(* What each register of a chain holds after k steps.                      *)

SqrtExponent(r, k) ==
    CASE r = "a" -> 1
      [] r = "a2" -> Two[2] - 1
      [] r = "a3" -> Two[3] - 1
      [] r = "a6" -> Two[6] - 1
      [] r = "a9" -> Two[9] - 1
      [] r = "a11" -> Two[11] - 1
      [] r = "a22" -> Two[22] - 1
      [] r = "a44" -> Two[44] - 1
      [] r = "a88" -> Two[88] - 1
      [] r = "a176" -> Two[176] - 1
      [] r = "a220" -> Two[220] - 1
      [] r = "a223" -> Two[223] - 1
      [] r = "f" /\ k = 12 -> Two[246] - Two[22] - 1
      [] r = "f" /\ k = 13 -> Two[252] - Two[28] - 61
      [] r = "f" /\ k = 14 -> Two[254] - Two[30] - 244
      [] OTHER -> 0

InverseExponent(r, k) ==
    CASE r = "a2" -> 2 [] r = "a3" -> 3 [] r = "a4" -> 4 [] r = "a10" -> 10
      [] r = "a11" -> 11 [] r = "a21" -> 21 [] r = "a42" -> 42 [] r = "a45" -> 45
      [] r = "a63" -> 63 [] r = "a1019" -> 1019 [] r = "a1023" -> 1023
      [] r = "f" /\ k < 12 -> 1
      [] r = "f" /\ k \in 12..33 -> Two[6 + 10 * (k - 12)] - 1
      [] r = "f" /\ k = 34 -> Two[226] - 5
      [] r = "f" /\ k = 35 -> Two[236] - 4097
      [] r = "f" /\ k = 36 -> Two[246] - 4194305
      [] r = "f" /\ k = 37 -> Two[256] - Two[32] - 979
      [] OTHER -> 0

\* Every register that is set holds its exponent, whatever the order of the
\* steps, and the result is set in time.
SqrtInvariant ==
    /\ pc \in 0..14 /\ (pc > 11 => "f" \in DOMAIN reg)
    /\ \A r \in DOMAIN reg : Holds(reg[r], SqrtExponent(r, pc))

InverseInvariant ==
    /\ pc \in 0..37 /\ "f" \in DOMAIN reg
    /\ \A r \in DOMAIN reg : Holds(reg[r], InverseExponent(r, pc))

ChainInvariant ==
    \/ chain = "sqrt" /\ SqrtInvariant
    \/ chain = "inverse" /\ InverseInvariant

\* An exponent of ones only, shifted, with as many ones.
LEMMA TwosSum ==
    ASSUME NEW m \in 0..256, NEW k \in 0..256, m + k \in 0..256
    PROVE  Two[m + k] = Two[m] * Two[k]
<1> k \in 0..(256 - m)
  OBVIOUS
<1> QED BY TwosAdd

LEMMA AllOnes ==
    ASSUME NEW m \in 0..256, NEW k \in 0..256, m + k \in 0..256
    PROVE  (Two[m] - 1) * Two[k] + (Two[k] - 1) = Two[m + k] - 1
<1> DEFINE a == Two[m]
           c == Two[k]
<1>1. a \in Nat /\ c \in Nat
  BY Twos
<1>2. Two[m + k] = a * c
  <2>1. k \in 0..(256 - m)
    OBVIOUS
  <2> QED BY <2>1, TwosAdd
<1> HIDE DEF a, c
<1>3. (a - 1) * c + (c - 1) = a * c - 1
  BY <1>1
<1> QED BY <1>2, <1>3 DEF a, c

LEMMA SqrtSums ==
    /\ Two[2] - 1 = 1 * Two[1] + 1
    /\ Two[3] - 1 = (Two[2] - 1) * Two[1] + 1
    /\ Two[6] - 1 = (Two[3] - 1) * Two[3] + (Two[3] - 1)
    /\ Two[9] - 1 = (Two[6] - 1) * Two[3] + (Two[3] - 1)
    /\ Two[11] - 1 = (Two[9] - 1) * Two[2] + (Two[2] - 1)
    /\ Two[22] - 1 = (Two[11] - 1) * Two[11] + (Two[11] - 1)
    /\ Two[44] - 1 = (Two[22] - 1) * Two[22] + (Two[22] - 1)
    /\ Two[88] - 1 = (Two[44] - 1) * Two[44] + (Two[44] - 1)
    /\ Two[176] - 1 = (Two[88] - 1) * Two[88] + (Two[88] - 1)
    /\ Two[220] - 1 = (Two[176] - 1) * Two[44] + (Two[44] - 1)
    /\ Two[223] - 1 = (Two[220] - 1) * Two[3] + (Two[3] - 1)
    /\ Two[246] - Two[22] - 1 = (Two[223] - 1) * Two[23] + (Two[22] - 1)
    /\ Two[252] - Two[28] - 61 = (Two[246] - Two[22] - 1) * Two[6] + (Two[2] - 1)
    /\ Two[254] - Two[30] - 244 = (Two[252] - Two[28] - 61) * Two[2] + 0
<1>0. /\ Two[1] - 1 = 1 /\ Two[2] = 4 /\ Two[3] = 8 /\ Two[6] = 64
  BY SmallTwos
<1>1. Two[2] - 1 = (Two[1] - 1) * Two[1] + (Two[1] - 1)
  <2> DEFINE m == 1
             k == 1
  <2>0. m + k = 2
    OBVIOUS
  <2>1. m \in 0..256 /\ k \in 0..256 /\ m + k \in 0..256
    OBVIOUS
  <2> HIDE DEF m, k
  <2>2. (Two[m] - 1) * Two[k] + (Two[k] - 1) = Two[m + k] - 1
    BY <2>1, AllOnes, Zenon
  <2>3. Two[2] - 1 = (Two[m] - 1) * Two[k] + (Two[k] - 1)
    BY <2>0, <2>2
  <2> QED BY <2>3 DEF m, k
<1>2. Two[3] - 1 = (Two[2] - 1) * Two[1] + (Two[1] - 1)
  <2> DEFINE m == 2
             k == 1
  <2>0. m + k = 3
    OBVIOUS
  <2>1. m \in 0..256 /\ k \in 0..256 /\ m + k \in 0..256
    OBVIOUS
  <2> HIDE DEF m, k
  <2>2. (Two[m] - 1) * Two[k] + (Two[k] - 1) = Two[m + k] - 1
    BY <2>1, AllOnes, Zenon
  <2>3. Two[3] - 1 = (Two[m] - 1) * Two[k] + (Two[k] - 1)
    BY <2>0, <2>2
  <2> QED BY <2>3 DEF m, k
<1>3. Two[6] - 1 = (Two[3] - 1) * Two[3] + (Two[3] - 1)
  <2> DEFINE m == 3
             k == 3
  <2>0. m + k = 6
    OBVIOUS
  <2>1. m \in 0..256 /\ k \in 0..256 /\ m + k \in 0..256
    OBVIOUS
  <2> HIDE DEF m, k
  <2>2. (Two[m] - 1) * Two[k] + (Two[k] - 1) = Two[m + k] - 1
    BY <2>1, AllOnes, Zenon
  <2>3. Two[6] - 1 = (Two[m] - 1) * Two[k] + (Two[k] - 1)
    BY <2>0, <2>2
  <2> QED BY <2>3 DEF m, k
<1>4. Two[9] - 1 = (Two[6] - 1) * Two[3] + (Two[3] - 1)
  <2> DEFINE m == 6
             k == 3
  <2>0. m + k = 9
    OBVIOUS
  <2>1. m \in 0..256 /\ k \in 0..256 /\ m + k \in 0..256
    OBVIOUS
  <2> HIDE DEF m, k
  <2>2. (Two[m] - 1) * Two[k] + (Two[k] - 1) = Two[m + k] - 1
    BY <2>1, AllOnes, Zenon
  <2>3. Two[9] - 1 = (Two[m] - 1) * Two[k] + (Two[k] - 1)
    BY <2>0, <2>2
  <2> QED BY <2>3 DEF m, k
<1>5. Two[11] - 1 = (Two[9] - 1) * Two[2] + (Two[2] - 1)
  <2> DEFINE m == 9
             k == 2
  <2>0. m + k = 11
    OBVIOUS
  <2>1. m \in 0..256 /\ k \in 0..256 /\ m + k \in 0..256
    OBVIOUS
  <2> HIDE DEF m, k
  <2>2. (Two[m] - 1) * Two[k] + (Two[k] - 1) = Two[m + k] - 1
    BY <2>1, AllOnes, Zenon
  <2>3. Two[11] - 1 = (Two[m] - 1) * Two[k] + (Two[k] - 1)
    BY <2>0, <2>2
  <2> QED BY <2>3 DEF m, k
<1>6. Two[22] - 1 = (Two[11] - 1) * Two[11] + (Two[11] - 1)
  <2> DEFINE m == 11
             k == 11
  <2>0. m + k = 22
    OBVIOUS
  <2>1. m \in 0..256 /\ k \in 0..256 /\ m + k \in 0..256
    OBVIOUS
  <2> HIDE DEF m, k
  <2>2. (Two[m] - 1) * Two[k] + (Two[k] - 1) = Two[m + k] - 1
    BY <2>1, AllOnes, Zenon
  <2>3. Two[22] - 1 = (Two[m] - 1) * Two[k] + (Two[k] - 1)
    BY <2>0, <2>2
  <2> QED BY <2>3 DEF m, k
<1>7. Two[44] - 1 = (Two[22] - 1) * Two[22] + (Two[22] - 1)
  <2> DEFINE m == 22
             k == 22
  <2>0. m + k = 44
    OBVIOUS
  <2>1. m \in 0..256 /\ k \in 0..256 /\ m + k \in 0..256
    OBVIOUS
  <2> HIDE DEF m, k
  <2>2. (Two[m] - 1) * Two[k] + (Two[k] - 1) = Two[m + k] - 1
    BY <2>1, AllOnes, Zenon
  <2>3. Two[44] - 1 = (Two[m] - 1) * Two[k] + (Two[k] - 1)
    BY <2>0, <2>2
  <2> QED BY <2>3 DEF m, k
<1>8. Two[88] - 1 = (Two[44] - 1) * Two[44] + (Two[44] - 1)
  <2> DEFINE m == 44
             k == 44
  <2>0. m + k = 88
    OBVIOUS
  <2>1. m \in 0..256 /\ k \in 0..256 /\ m + k \in 0..256
    OBVIOUS
  <2> HIDE DEF m, k
  <2>2. (Two[m] - 1) * Two[k] + (Two[k] - 1) = Two[m + k] - 1
    BY <2>1, AllOnes, Zenon
  <2>3. Two[88] - 1 = (Two[m] - 1) * Two[k] + (Two[k] - 1)
    BY <2>0, <2>2
  <2> QED BY <2>3 DEF m, k
<1>9. Two[176] - 1 = (Two[88] - 1) * Two[88] + (Two[88] - 1)
  <2> DEFINE m == 88
             k == 88
  <2>0. m + k = 176
    OBVIOUS
  <2>1. m \in 0..256 /\ k \in 0..256 /\ m + k \in 0..256
    OBVIOUS
  <2> HIDE DEF m, k
  <2>2. (Two[m] - 1) * Two[k] + (Two[k] - 1) = Two[m + k] - 1
    BY <2>1, AllOnes, Zenon
  <2>3. Two[176] - 1 = (Two[m] - 1) * Two[k] + (Two[k] - 1)
    BY <2>0, <2>2
  <2> QED BY <2>3 DEF m, k
<1>10. Two[220] - 1 = (Two[176] - 1) * Two[44] + (Two[44] - 1)
  <2> DEFINE m == 176
             k == 44
  <2>0. m + k = 220
    OBVIOUS
  <2>1. m \in 0..256 /\ k \in 0..256 /\ m + k \in 0..256
    OBVIOUS
  <2> HIDE DEF m, k
  <2>2. (Two[m] - 1) * Two[k] + (Two[k] - 1) = Two[m + k] - 1
    BY <2>1, AllOnes, Zenon
  <2>3. Two[220] - 1 = (Two[m] - 1) * Two[k] + (Two[k] - 1)
    BY <2>0, <2>2
  <2> QED BY <2>3 DEF m, k
<1>11. Two[223] - 1 = (Two[220] - 1) * Two[3] + (Two[3] - 1)
  <2> DEFINE m == 220
             k == 3
  <2>0. m + k = 223
    OBVIOUS
  <2>1. m \in 0..256 /\ k \in 0..256 /\ m + k \in 0..256
    OBVIOUS
  <2> HIDE DEF m, k
  <2>2. (Two[m] - 1) * Two[k] + (Two[k] - 1) = Two[m + k] - 1
    BY <2>1, AllOnes, Zenon
  <2>3. Two[223] - 1 = (Two[m] - 1) * Two[k] + (Two[k] - 1)
    BY <2>0, <2>2
  <2> QED BY <2>3 DEF m, k
<1>12. Two[246] = Two[223] * Two[23] /\ Two[23] = 2 * Two[22] /\ Two[22] \in Nat
  <2>1. Two[246] = Two[223] * Two[23]
    <3> DEFINE m == 223
               k == 23
    <3>0. m + k = 246
      OBVIOUS
    <3>1. m \in 0..256 /\ k \in 0..256 /\ m + k \in 0..256
      OBVIOUS
    <3> HIDE DEF m, k
    <3>2. Two[m + k] = Two[m] * Two[k]
      BY <3>1, TwosSum, Zenon
    <3>3. Two[246] = Two[m] * Two[k]
      BY <3>0, <3>2
    <3> QED BY <3>3 DEF m, k
  <2>2. Two[22] \in Nat \ {0}
    <3>1. 22 \in 0..256
      OBVIOUS
    <3> QED BY <3>1, Twos, Zenon
  <2>9. Two[23] = 2 * Two[22]
    <3>1. 22 \in 0..255 /\ 22 + 1 = 23
      OBVIOUS
    <3> QED BY <3>1, Twos
  <2> QED BY <2>9, <2>1, <2>2
<1>13. Two[246] - Two[22] - 1 = (Two[223] - 1) * Two[23] + (Two[22] - 1)
  <2> DEFINE a == Two[223]
             c == Two[22]
             e == Two[246]
             g == Two[23]
  <2>1. a \in Nat /\ c \in Nat /\ e = a * g /\ g = 2 * c /\ g \in Nat
    <3>1. 223 \in 0..256 /\ 23 \in 0..256
      OBVIOUS
    <3> QED BY <1>12, <3>1, Twos
  <2> HIDE DEF a, c, e, g
  <2>2. (a - 1) * g = a * g - g
    BY <2>1
  <2>3. e - c - 1 = (a - 1) * g + (c - 1)
    <3> DEFINE ag == a * g
    <3>1. ag \in Int /\ (a - 1) * g = ag - g /\ e = ag
      BY <2>1, <2>2
    <3> HIDE DEF ag
    <3> QED BY <2>1, <3>1
  <2> QED BY <2>3 DEF a, c, e, g
<1>14. /\ Two[252] = Two[246] * Two[6] /\ Two[28] = Two[22] * Two[6]
       /\ Two[254] = Two[252] * Two[2] /\ Two[30] = Two[28] * Two[2]
       /\ Two[246] \in Nat /\ Two[28] \in Nat /\ Two[252] \in Nat
  <2>1. Two[252] = Two[246] * Two[6]
    <3> DEFINE m == 246
               k == 6
    <3>0. m + k = 252
      OBVIOUS
    <3>1. m \in 0..256 /\ k \in 0..256 /\ m + k \in 0..256
      OBVIOUS
    <3> HIDE DEF m, k
    <3>2. Two[m + k] = Two[m] * Two[k]
      BY <3>1, TwosSum, Zenon
    <3>3. Two[252] = Two[m] * Two[k]
      BY <3>0, <3>2
    <3> QED BY <3>3 DEF m, k
  <2>2. Two[28] = Two[22] * Two[6]
    <3> DEFINE m == 22
               k == 6
    <3>0. m + k = 28
      OBVIOUS
    <3>1. m \in 0..256 /\ k \in 0..256 /\ m + k \in 0..256
      OBVIOUS
    <3> HIDE DEF m, k
    <3>2. Two[m + k] = Two[m] * Two[k]
      BY <3>1, TwosSum, Zenon
    <3>3. Two[28] = Two[m] * Two[k]
      BY <3>0, <3>2
    <3> QED BY <3>3 DEF m, k
  <2>3. Two[254] = Two[252] * Two[2]
    <3> DEFINE m == 252
               k == 2
    <3>0. m + k = 254
      OBVIOUS
    <3>1. m \in 0..256 /\ k \in 0..256 /\ m + k \in 0..256
      OBVIOUS
    <3> HIDE DEF m, k
    <3>2. Two[m + k] = Two[m] * Two[k]
      BY <3>1, TwosSum, Zenon
    <3>3. Two[254] = Two[m] * Two[k]
      BY <3>0, <3>2
    <3> QED BY <3>3 DEF m, k
  <2>4. Two[30] = Two[28] * Two[2]
    <3> DEFINE m == 28
               k == 2
    <3>0. m + k = 30
      OBVIOUS
    <3>1. m \in 0..256 /\ k \in 0..256 /\ m + k \in 0..256
      OBVIOUS
    <3> HIDE DEF m, k
    <3>2. Two[m + k] = Two[m] * Two[k]
      BY <3>1, TwosSum, Zenon
    <3>3. Two[30] = Two[m] * Two[k]
      BY <3>0, <3>2
    <3> QED BY <3>3 DEF m, k
  <2>5. Two[246] \in Nat \ {0} /\ Two[28] \in Nat \ {0} /\ Two[252] \in Nat \ {0}
    <3>1. 246 \in 0..256 /\ 28 \in 0..256 /\ 252 \in 0..256
      OBVIOUS
    <3> QED BY <3>1, Twos, Zenon
  <2> QED BY <2>1, <2>2, <2>3, <2>4, <2>5
<1>15. Two[252] - Two[28] - 61 = (Two[246] - Two[22] - 1) * Two[6] + (Two[2] - 1)
  BY <1>0, <1>12, <1>14
<1>16. Two[254] - Two[30] - 244 = (Two[252] - Two[28] - 61) * Two[2] + 0
  BY <1>0, <1>12, <1>14
<1>20. Two[2] - 1 = 1 * Two[1] + 1
  BY <1>0, <1>1
<1>21. Two[3] - 1 = (Two[2] - 1) * Two[1] + 1
  BY <1>0, <1>2
<1>22. Two[6] - 1 = (Two[3] - 1) * Two[3] + (Two[3] - 1)
  BY <1>0, <1>3
<1>23. Two[9] - 1 = (Two[6] - 1) * Two[3] + (Two[3] - 1)
  BY <1>0, <1>4
<1>24. Two[11] - 1 = (Two[9] - 1) * Two[2] + (Two[2] - 1)
  BY <1>0, <1>5
<1>25. Two[22] - 1 = (Two[11] - 1) * Two[11] + (Two[11] - 1)
  BY <1>0, <1>6
<1>26. Two[44] - 1 = (Two[22] - 1) * Two[22] + (Two[22] - 1)
  BY <1>0, <1>7
<1>27. Two[88] - 1 = (Two[44] - 1) * Two[44] + (Two[44] - 1)
  BY <1>0, <1>8
<1>28. Two[176] - 1 = (Two[88] - 1) * Two[88] + (Two[88] - 1)
  BY <1>0, <1>9
<1>29. Two[220] - 1 = (Two[176] - 1) * Two[44] + (Two[44] - 1)
  BY <1>0, <1>10
<1>30. Two[223] - 1 = (Two[220] - 1) * Two[3] + (Two[3] - 1)
  BY <1>0, <1>11
<1>31. Two[246] - Two[22] - 1 = (Two[223] - 1) * Two[23] + (Two[22] - 1)
  BY <1>0, <1>13
<1>32. Two[252] - Two[28] - 61 = (Two[246] - Two[22] - 1) * Two[6] + (Two[2] - 1)
  BY <1>0, <1>15
<1>33. Two[254] - Two[30] - 244 = (Two[252] - Two[28] - 61) * Two[2] + 0
  BY <1>0, <1>16
<1> QED BY <1>20, <1>21, <1>22, <1>23, <1>24, <1>25, <1>26, <1>27, <1>28, <1>29, <1>30, <1>31, <1>32, <1>33

LEMMA InverseSums ==
    /\ 2 = 1 * Two[1] + 0
    /\ 3 = 2 * Two[0] + 1
    /\ 4 = 2 * Two[1] + 0
    /\ 10 = 4 * Two[1] + 2
    /\ 11 = 10 * Two[0] + 1
    /\ 21 = 10 * Two[0] + 11
    /\ 42 = 21 * Two[1] + 0
    /\ 45 = 42 * Two[0] + 3
    /\ 63 = 42 * Two[0] + 21
    /\ 1019 = 63 * Two[4] + 11
    /\ 1023 = 1019 * Two[0] + 4
    /\ Two[6] - 1 = 63 * Two[0] + 0
    /\ \A k \in 12..32 : Two[6 + 10 * ((k + 1) - 12)] - 1
           = (Two[6 + 10 * (k - 12)] - 1) * Two[10] + 1023
    /\ Two[226] - 5 = (Two[216] - 1) * Two[10] + 1019
    /\ Two[236] - 4097 = (Two[226] - 5) * Two[10] + 1023
    /\ Two[246] - 4194305 = (Two[236] - 4097) * Two[10] + 1023
    /\ Two[256] - Two[32] - 979 = (Two[246] - 4194305) * Two[10] + 45
<1>1. /\ 2 = 1 * Two[1] + 0
      /\ 3 = 2 * Two[0] + 1
      /\ 4 = 2 * Two[1] + 0
      /\ 10 = 4 * Two[1] + 2
      /\ 11 = 10 * Two[0] + 1
      /\ 21 = 10 * Two[0] + 11
      /\ 42 = 21 * Two[1] + 0
      /\ 45 = 42 * Two[0] + 3
      /\ 63 = 42 * Two[0] + 21
      /\ 1019 = 63 * Two[4] + 11
      /\ 1023 = 1019 * Two[0] + 4
      /\ Two[6] - 1 = 63 * Two[0] + 0
  BY SmallTwos
<1>2. ASSUME NEW k \in 12..32
      PROVE  Two[6 + 10 * ((k + 1) - 12)] - 1 = (Two[6 + 10 * (k - 12)] - 1) * Two[10] + 1023
  <2> DEFINE m == 6 + 10 * (k - 12)
  <2>1. m \in 0..256 /\ m + 10 \in 0..256 /\ 10 \in 0..256 /\ 6 + 10 * ((k + 1) - 12) = m + 10
    OBVIOUS
  <2> HIDE DEF m
  <2>2. (Two[m] - 1) * Two[10] + (Two[10] - 1) = Two[m + 10] - 1
    BY <2>1, AllOnes, Zenon
  <2>3. Two[10] - 1 = 1023
    BY SmallTwos
  <2> QED BY <2>1, <2>2, <2>3 DEF m
<1>3. /\ Two[226] = Two[216] * Two[10] /\ Two[236] = Two[226] * Two[10]
      /\ Two[246] = Two[236] * Two[10] /\ Two[256] = Two[246] * Two[10]
      /\ Two[216] \in Nat /\ Two[226] \in Nat /\ Two[236] \in Nat /\ Two[246] \in Nat
  <2>1. Two[226] = Two[216] * Two[10]
    <3> DEFINE m == 216
               k == 10
    <3>0. m + k = 226
      OBVIOUS
    <3>1. m \in 0..256 /\ k \in 0..256 /\ m + k \in 0..256
      OBVIOUS
    <3> HIDE DEF m, k
    <3>2. Two[m + k] = Two[m] * Two[k]
      BY <3>1, TwosSum, Zenon
    <3>3. Two[226] = Two[m] * Two[k]
      BY <3>0, <3>2
    <3> QED BY <3>3 DEF m, k
  <2>2. Two[236] = Two[226] * Two[10]
    <3> DEFINE m == 226
               k == 10
    <3>0. m + k = 236
      OBVIOUS
    <3>1. m \in 0..256 /\ k \in 0..256 /\ m + k \in 0..256
      OBVIOUS
    <3> HIDE DEF m, k
    <3>2. Two[m + k] = Two[m] * Two[k]
      BY <3>1, TwosSum, Zenon
    <3>3. Two[236] = Two[m] * Two[k]
      BY <3>0, <3>2
    <3> QED BY <3>3 DEF m, k
  <2>3. Two[246] = Two[236] * Two[10]
    <3> DEFINE m == 236
               k == 10
    <3>0. m + k = 246
      OBVIOUS
    <3>1. m \in 0..256 /\ k \in 0..256 /\ m + k \in 0..256
      OBVIOUS
    <3> HIDE DEF m, k
    <3>2. Two[m + k] = Two[m] * Two[k]
      BY <3>1, TwosSum, Zenon
    <3>3. Two[246] = Two[m] * Two[k]
      BY <3>0, <3>2
    <3> QED BY <3>3 DEF m, k
  <2>4. Two[256] = Two[246] * Two[10]
    <3> DEFINE m == 246
               k == 10
    <3>0. m + k = 256
      OBVIOUS
    <3>1. m \in 0..256 /\ k \in 0..256 /\ m + k \in 0..256
      OBVIOUS
    <3> HIDE DEF m, k
    <3>2. Two[m + k] = Two[m] * Two[k]
      BY <3>1, TwosSum, Zenon
    <3>3. Two[256] = Two[m] * Two[k]
      BY <3>0, <3>2
    <3> QED BY <3>3 DEF m, k
  <2>5. Two[216] \in Nat \ {0} /\ Two[226] \in Nat \ {0} /\ Two[236] \in Nat \ {0} /\ Two[246] \in Nat \ {0}
    <3>1. 216 \in 0..256 /\ 226 \in 0..256 /\ 236 \in 0..256 /\ 246 \in 0..256
      OBVIOUS
    <3> QED BY <3>1, Twos, ZenonT(30)
  <2> QED BY <2>1, <2>2, <2>3, <2>4, <2>5
<1>4. Two[32] = 4294967296
  <2>1. Two[22] = Two[11] * Two[11]
    <3> DEFINE m == 11
               k == 11
    <3>0. m + k = 22
      OBVIOUS
    <3>1. m \in 0..256 /\ k \in 0..256 /\ m + k \in 0..256
      OBVIOUS
    <3> HIDE DEF m, k
    <3>2. Two[m + k] = Two[m] * Two[k]
      BY <3>1, TwosSum, Zenon
    <3>3. Two[22] = Two[m] * Two[k]
      BY <3>0, <3>2
    <3> QED BY <3>3 DEF m, k
  <2>2. Two[32] = Two[22] * Two[10]
    <3> DEFINE m == 22
               k == 10
    <3>0. m + k = 32
      OBVIOUS
    <3>1. m \in 0..256 /\ k \in 0..256 /\ m + k \in 0..256
      OBVIOUS
    <3> HIDE DEF m, k
    <3>2. Two[m + k] = Two[m] * Two[k]
      BY <3>1, TwosSum, Zenon
    <3>3. Two[32] = Two[m] * Two[k]
      BY <3>0, <3>2
    <3> QED BY <3>3 DEF m, k
  <2>3. Two[22] \in Nat \ {0}
    <3>1. 22 \in 0..256
      OBVIOUS
    <3> QED BY <3>1, Twos, Zenon
  <2> QED BY <2>1, <2>2, SmallTwos
<1>10. Two[226] - 5 = (Two[216] - 1) * Two[10] + 1019
  BY <1>3, <1>4, SmallTwos
<1>11. Two[236] - 4097 = (Two[226] - 5) * Two[10] + 1023
  BY <1>3, <1>4, SmallTwos
<1>12. Two[246] - 4194305 = (Two[236] - 4097) * Two[10] + 1023
  BY <1>3, <1>4, SmallTwos
<1>13. Two[256] - Two[32] - 979 = (Two[246] - 4194305) * Two[10] + 45
  BY <1>3, <1>4, SmallTwos
<1> QED BY <1>1, <1>2, <1>10, <1>11, <1>12, <1>13

-----------------------------------------------------------------------------
(* Every step of a chain gives its register the exponent that is expected. *)

LEMMA StepFields ==
    ASSUME NEW to, NEW from, NEW squares, NEW times
    PROVE  /\ Step(to, from, squares, times).to = to /\ Step(to, from, squares, times).from = from
           /\ Step(to, from, squares, times).squares = squares
           /\ Step(to, from, squares, times).times = times
  BY DEF Step

LEMMA SqrtPass ==
    ASSUME SqrtInvariant, NEW to, NEW from, NEW squares \in 0..256, NEW times, from # "none",
           StepOf(Step(to, from, squares, times)),
           SqrtExponent(to, pc + 1) = SqrtExponent(from, pc) * Two[squares]
               + (IF times = "none" THEN 0 ELSE SqrtExponent(times, pc)),
           \A r \in DOMAIN reg : r # to => SqrtExponent(r, pc + 1) = SqrtExponent(r, pc)
    PROVE  /\ DOMAIN reg' = DOMAIN reg \cup {to}
           /\ \A r \in DOMAIN reg' : Holds(reg'[r], SqrtExponent(r, pc + 1))
<1> DEFINE st == Step(to, from, squares, times)
           ex == [r \in DOMAIN reg |-> SqrtExponent(r, pc)]
<1>1. st.to = to /\ st.from = from /\ st.squares = squares /\ st.times = times /\ StepOf(st)
  BY StepFields
<1>2. \A r \in DOMAIN reg : ex[r] = SqrtExponent(r, pc) /\ Holds(reg[r], ex[r])
  BY DEF SqrtInvariant
<1> HIDE DEF st, ex
<1>3. from \in DOMAIN reg /\ (times # "none" => times \in DOMAIN reg)
  BY <1>1 DEF StepOf
<1>4. /\ DOMAIN reg' = DOMAIN reg \cup {st.to}
      /\ \A r \in DOMAIN reg : r # st.to => Holds(reg'[r], ex[r])
      /\ Holds(reg'[st.to], ex[st.from] * Two[st.squares]
                            + (IF st.times = "none" THEN 0 ELSE ex[st.times]))
  <2>1. st.squares \in 0..256 /\ st.from # "none"
    BY <1>1
  <2> QED BY <1>1, <1>2, <2>1, StepHolds
<1>5. Holds(reg'[to], SqrtExponent(to, pc + 1))
  <2>1. ex[from] = SqrtExponent(from, pc) /\ (times # "none" => ex[times] = SqrtExponent(times, pc))
    BY <1>2, <1>3
  <2>2. Holds(reg'[to], ex[from] * Two[squares] + (IF times = "none" THEN 0 ELSE ex[times]))
    BY <1>1, <1>4
  <2> QED BY <2>1, <2>2
<1> QED BY <1>1, <1>2, <1>4, <1>5

LEMMA SqrtStep ==
    ASSUME SqrtInvariant, chain = "sqrt", ChainStep
    PROVE  SqrtInvariant' /\ chain' = chain
<1>1. /\ pc \in 0..14 /\ Program = SquareRootVal /\ Len(SquareRootVal) = 14
  BY SqrtProgram DEF SqrtInvariant, Program
<1>2. pc < 14 /\ StepOf(SquareRootVal[pc + 1]) /\ pc' = pc + 1 /\ chain' = chain
  BY <1>1 DEF ChainStep
<1>3. pc + 1 \in 0..14
  BY <1>1, <1>2
<1> DEFINE Done == /\ \A r \in DOMAIN reg' : Holds(reg'[r], SqrtExponent(r, pc + 1))
                   /\ (pc + 1 > 11 => "f" \in DOMAIN reg')
<1>4. ASSUME pc = 0 PROVE Done
  <2>1. StepOf(Step("a2", "a", 1, "a"))
    BY <1>2, <1>4, SqrtProgram
  <2>2. SqrtExponent("a2", pc + 1) = SqrtExponent("a", pc) * Two[1]
            + (IF "a" = "none" THEN 0 ELSE SqrtExponent("a", pc))
    BY <1>4, SqrtSums, SmallTwos DEF SqrtExponent
  <2>3. \A r \in DOMAIN reg : r # "a2" => SqrtExponent(r, pc + 1) = SqrtExponent(r, pc)
    BY <1>4 DEF SqrtExponent
  <2>4. 1 \in 0..256 /\ "a" # "none"
    OBVIOUS
  <2>5. /\ DOMAIN reg' = DOMAIN reg \cup {"a2"}
        /\ \A r \in DOMAIN reg' : Holds(reg'[r], SqrtExponent(r, pc + 1))
    BY <2>1, <2>2, <2>3, <2>4, SqrtPass, Zenon
  <2> QED BY <1>4, <2>5 DEF SqrtInvariant
<1>5. ASSUME pc = 1 PROVE Done
  <2>1. StepOf(Step("a3", "a2", 1, "a"))
    BY <1>2, <1>5, SqrtProgram
  <2>2. SqrtExponent("a3", pc + 1) = SqrtExponent("a2", pc) * Two[1]
            + (IF "a" = "none" THEN 0 ELSE SqrtExponent("a", pc))
    BY <1>5, SqrtSums, SmallTwos DEF SqrtExponent
  <2>3. \A r \in DOMAIN reg : r # "a3" => SqrtExponent(r, pc + 1) = SqrtExponent(r, pc)
    BY <1>5 DEF SqrtExponent
  <2>4. 1 \in 0..256 /\ "a2" # "none"
    OBVIOUS
  <2>5. /\ DOMAIN reg' = DOMAIN reg \cup {"a3"}
        /\ \A r \in DOMAIN reg' : Holds(reg'[r], SqrtExponent(r, pc + 1))
    BY <2>1, <2>2, <2>3, <2>4, SqrtPass, Zenon
  <2> QED BY <1>5, <2>5 DEF SqrtInvariant
<1>6. ASSUME pc = 2 PROVE Done
  <2>1. StepOf(Step("a6", "a3", 3, "a3"))
    BY <1>2, <1>6, SqrtProgram
  <2>2. SqrtExponent("a6", pc + 1) = SqrtExponent("a3", pc) * Two[3]
            + (IF "a3" = "none" THEN 0 ELSE SqrtExponent("a3", pc))
    BY <1>6, SqrtSums, SmallTwos DEF SqrtExponent
  <2>3. \A r \in DOMAIN reg : r # "a6" => SqrtExponent(r, pc + 1) = SqrtExponent(r, pc)
    BY <1>6 DEF SqrtExponent
  <2>4. 3 \in 0..256 /\ "a3" # "none"
    OBVIOUS
  <2>5. /\ DOMAIN reg' = DOMAIN reg \cup {"a6"}
        /\ \A r \in DOMAIN reg' : Holds(reg'[r], SqrtExponent(r, pc + 1))
    BY <2>1, <2>2, <2>3, <2>4, SqrtPass, Zenon
  <2> QED BY <1>6, <2>5 DEF SqrtInvariant
<1>7. ASSUME pc = 3 PROVE Done
  <2>1. StepOf(Step("a9", "a6", 3, "a3"))
    BY <1>2, <1>7, SqrtProgram
  <2>2. SqrtExponent("a9", pc + 1) = SqrtExponent("a6", pc) * Two[3]
            + (IF "a3" = "none" THEN 0 ELSE SqrtExponent("a3", pc))
    BY <1>7, SqrtSums, SmallTwos DEF SqrtExponent
  <2>3. \A r \in DOMAIN reg : r # "a9" => SqrtExponent(r, pc + 1) = SqrtExponent(r, pc)
    BY <1>7 DEF SqrtExponent
  <2>4. 3 \in 0..256 /\ "a6" # "none"
    OBVIOUS
  <2>5. /\ DOMAIN reg' = DOMAIN reg \cup {"a9"}
        /\ \A r \in DOMAIN reg' : Holds(reg'[r], SqrtExponent(r, pc + 1))
    BY <2>1, <2>2, <2>3, <2>4, SqrtPass, Zenon
  <2> QED BY <1>7, <2>5 DEF SqrtInvariant
<1>8. ASSUME pc = 4 PROVE Done
  <2>1. StepOf(Step("a11", "a9", 2, "a2"))
    BY <1>2, <1>8, SqrtProgram
  <2>2. SqrtExponent("a11", pc + 1) = SqrtExponent("a9", pc) * Two[2]
            + (IF "a2" = "none" THEN 0 ELSE SqrtExponent("a2", pc))
    BY <1>8, SqrtSums, SmallTwos DEF SqrtExponent
  <2>3. \A r \in DOMAIN reg : r # "a11" => SqrtExponent(r, pc + 1) = SqrtExponent(r, pc)
    BY <1>8 DEF SqrtExponent
  <2>4. 2 \in 0..256 /\ "a9" # "none"
    OBVIOUS
  <2>5. /\ DOMAIN reg' = DOMAIN reg \cup {"a11"}
        /\ \A r \in DOMAIN reg' : Holds(reg'[r], SqrtExponent(r, pc + 1))
    BY <2>1, <2>2, <2>3, <2>4, SqrtPass, Zenon
  <2> QED BY <1>8, <2>5 DEF SqrtInvariant
<1>9. ASSUME pc = 5 PROVE Done
  <2>1. StepOf(Step("a22", "a11", 11, "a11"))
    BY <1>2, <1>9, SqrtProgram
  <2>2. SqrtExponent("a22", pc + 1) = SqrtExponent("a11", pc) * Two[11]
            + (IF "a11" = "none" THEN 0 ELSE SqrtExponent("a11", pc))
    BY <1>9, SqrtSums, SmallTwos DEF SqrtExponent
  <2>3. \A r \in DOMAIN reg : r # "a22" => SqrtExponent(r, pc + 1) = SqrtExponent(r, pc)
    BY <1>9 DEF SqrtExponent
  <2>4. 11 \in 0..256 /\ "a11" # "none"
    OBVIOUS
  <2>5. /\ DOMAIN reg' = DOMAIN reg \cup {"a22"}
        /\ \A r \in DOMAIN reg' : Holds(reg'[r], SqrtExponent(r, pc + 1))
    BY <2>1, <2>2, <2>3, <2>4, SqrtPass, Zenon
  <2> QED BY <1>9, <2>5 DEF SqrtInvariant
<1>10. ASSUME pc = 6 PROVE Done
  <2>1. StepOf(Step("a44", "a22", 22, "a22"))
    BY <1>2, <1>10, SqrtProgram
  <2>2. SqrtExponent("a44", pc + 1) = SqrtExponent("a22", pc) * Two[22]
            + (IF "a22" = "none" THEN 0 ELSE SqrtExponent("a22", pc))
    BY <1>10, SqrtSums, SmallTwos DEF SqrtExponent
  <2>3. \A r \in DOMAIN reg : r # "a44" => SqrtExponent(r, pc + 1) = SqrtExponent(r, pc)
    BY <1>10 DEF SqrtExponent
  <2>4. 22 \in 0..256 /\ "a22" # "none"
    OBVIOUS
  <2>5. /\ DOMAIN reg' = DOMAIN reg \cup {"a44"}
        /\ \A r \in DOMAIN reg' : Holds(reg'[r], SqrtExponent(r, pc + 1))
    BY <2>1, <2>2, <2>3, <2>4, SqrtPass, Zenon
  <2> QED BY <1>10, <2>5 DEF SqrtInvariant
<1>11. ASSUME pc = 7 PROVE Done
  <2>1. StepOf(Step("a88", "a44", 44, "a44"))
    BY <1>2, <1>11, SqrtProgram
  <2>2. SqrtExponent("a88", pc + 1) = SqrtExponent("a44", pc) * Two[44]
            + (IF "a44" = "none" THEN 0 ELSE SqrtExponent("a44", pc))
    BY <1>11, SqrtSums, SmallTwos DEF SqrtExponent
  <2>3. \A r \in DOMAIN reg : r # "a88" => SqrtExponent(r, pc + 1) = SqrtExponent(r, pc)
    BY <1>11 DEF SqrtExponent
  <2>4. 44 \in 0..256 /\ "a44" # "none"
    OBVIOUS
  <2>5. /\ DOMAIN reg' = DOMAIN reg \cup {"a88"}
        /\ \A r \in DOMAIN reg' : Holds(reg'[r], SqrtExponent(r, pc + 1))
    BY <2>1, <2>2, <2>3, <2>4, SqrtPass, Zenon
  <2> QED BY <1>11, <2>5 DEF SqrtInvariant
<1>12. ASSUME pc = 8 PROVE Done
  <2>1. StepOf(Step("a176", "a88", 88, "a88"))
    BY <1>2, <1>12, SqrtProgram
  <2>2. SqrtExponent("a176", pc + 1) = SqrtExponent("a88", pc) * Two[88]
            + (IF "a88" = "none" THEN 0 ELSE SqrtExponent("a88", pc))
    BY <1>12, SqrtSums, SmallTwos DEF SqrtExponent
  <2>3. \A r \in DOMAIN reg : r # "a176" => SqrtExponent(r, pc + 1) = SqrtExponent(r, pc)
    BY <1>12 DEF SqrtExponent
  <2>4. 88 \in 0..256 /\ "a88" # "none"
    OBVIOUS
  <2>5. /\ DOMAIN reg' = DOMAIN reg \cup {"a176"}
        /\ \A r \in DOMAIN reg' : Holds(reg'[r], SqrtExponent(r, pc + 1))
    BY <2>1, <2>2, <2>3, <2>4, SqrtPass, Zenon
  <2> QED BY <1>12, <2>5 DEF SqrtInvariant
<1>13. ASSUME pc = 9 PROVE Done
  <2>1. StepOf(Step("a220", "a176", 44, "a44"))
    BY <1>2, <1>13, SqrtProgram
  <2>2. SqrtExponent("a220", pc + 1) = SqrtExponent("a176", pc) * Two[44]
            + (IF "a44" = "none" THEN 0 ELSE SqrtExponent("a44", pc))
    BY <1>13, SqrtSums, SmallTwos DEF SqrtExponent
  <2>3. \A r \in DOMAIN reg : r # "a220" => SqrtExponent(r, pc + 1) = SqrtExponent(r, pc)
    BY <1>13 DEF SqrtExponent
  <2>4. 44 \in 0..256 /\ "a176" # "none"
    OBVIOUS
  <2>5. /\ DOMAIN reg' = DOMAIN reg \cup {"a220"}
        /\ \A r \in DOMAIN reg' : Holds(reg'[r], SqrtExponent(r, pc + 1))
    BY <2>1, <2>2, <2>3, <2>4, SqrtPass, Zenon
  <2> QED BY <1>13, <2>5 DEF SqrtInvariant
<1>14. ASSUME pc = 10 PROVE Done
  <2>1. StepOf(Step("a223", "a220", 3, "a3"))
    BY <1>2, <1>14, SqrtProgram
  <2>2. SqrtExponent("a223", pc + 1) = SqrtExponent("a220", pc) * Two[3]
            + (IF "a3" = "none" THEN 0 ELSE SqrtExponent("a3", pc))
    BY <1>14, SqrtSums, SmallTwos DEF SqrtExponent
  <2>3. \A r \in DOMAIN reg : r # "a223" => SqrtExponent(r, pc + 1) = SqrtExponent(r, pc)
    BY <1>14 DEF SqrtExponent
  <2>4. 3 \in 0..256 /\ "a220" # "none"
    OBVIOUS
  <2>5. /\ DOMAIN reg' = DOMAIN reg \cup {"a223"}
        /\ \A r \in DOMAIN reg' : Holds(reg'[r], SqrtExponent(r, pc + 1))
    BY <2>1, <2>2, <2>3, <2>4, SqrtPass, Zenon
  <2> QED BY <1>14, <2>5 DEF SqrtInvariant
<1>15. ASSUME pc = 11 PROVE Done
  <2>1. StepOf(Step("f", "a223", 23, "a22"))
    BY <1>2, <1>15, SqrtProgram
  <2>2. SqrtExponent("f", pc + 1) = SqrtExponent("a223", pc) * Two[23]
            + (IF "a22" = "none" THEN 0 ELSE SqrtExponent("a22", pc))
    BY <1>15, SqrtSums, SmallTwos DEF SqrtExponent
  <2>3. \A r \in DOMAIN reg : r # "f" => SqrtExponent(r, pc + 1) = SqrtExponent(r, pc)
    BY DEF SqrtExponent
  <2>4. 23 \in 0..256 /\ "a223" # "none"
    OBVIOUS
  <2>5. /\ DOMAIN reg' = DOMAIN reg \cup {"f"}
        /\ \A r \in DOMAIN reg' : Holds(reg'[r], SqrtExponent(r, pc + 1))
    BY <2>1, <2>2, <2>3, <2>4, SqrtPass, Zenon
  <2> QED BY <1>15, <2>5 DEF SqrtInvariant
<1>16. ASSUME pc = 12 PROVE Done
  <2>1. StepOf(Step("f", "f", 6, "a2"))
    BY <1>2, <1>16, SqrtProgram
  <2>2. SqrtExponent("f", pc + 1) = SqrtExponent("f", pc) * Two[6]
            + (IF "a2" = "none" THEN 0 ELSE SqrtExponent("a2", pc))
    BY <1>16, SqrtSums, SmallTwos DEF SqrtExponent
  <2>3. \A r \in DOMAIN reg : r # "f" => SqrtExponent(r, pc + 1) = SqrtExponent(r, pc)
    BY DEF SqrtExponent
  <2>4. 6 \in 0..256 /\ "f" # "none"
    OBVIOUS
  <2>5. /\ DOMAIN reg' = DOMAIN reg \cup {"f"}
        /\ \A r \in DOMAIN reg' : Holds(reg'[r], SqrtExponent(r, pc + 1))
    BY <2>1, <2>2, <2>3, <2>4, SqrtPass, Zenon
  <2> QED BY <1>16, <2>5 DEF SqrtInvariant
<1>17. ASSUME pc = 13 PROVE Done
  <2>1. StepOf(Step("f", "f", 2, "none"))
    BY <1>2, <1>17, SqrtProgram
  <2>2. SqrtExponent("f", pc + 1) = SqrtExponent("f", pc) * Two[2]
            + (IF "none" = "none" THEN 0 ELSE SqrtExponent("none", pc))
    BY <1>17, SqrtSums, SmallTwos DEF SqrtExponent
  <2>3. \A r \in DOMAIN reg : r # "f" => SqrtExponent(r, pc + 1) = SqrtExponent(r, pc)
    BY DEF SqrtExponent
  <2>4. 2 \in 0..256 /\ "f" # "none"
    OBVIOUS
  <2>5. /\ DOMAIN reg' = DOMAIN reg \cup {"f"}
        /\ \A r \in DOMAIN reg' : Holds(reg'[r], SqrtExponent(r, pc + 1))
    BY <2>1, <2>2, <2>3, <2>4, SqrtPass, Zenon
  <2> QED BY <1>17, <2>5 DEF SqrtInvariant
<1>18. \/ pc = 0
        \/ pc = 1
        \/ pc = 2
        \/ pc = 3
        \/ pc = 4
        \/ pc = 5
        \/ pc = 6
        \/ pc = 7
        \/ pc = 8
        \/ pc = 9
        \/ pc = 10
        \/ pc = 11
        \/ pc = 12
        \/ pc = 13
  BY <1>1, <1>2
<1>19. Done
  <2> HIDE DEF Done
  <2> QED BY <1>4, <1>5, <1>6, <1>7, <1>8, <1>9, <1>10, <1>11, <1>12, <1>13, <1>14, <1>15, <1>16, <1>17, <1>18
<1> QED BY <1>2, <1>3, <1>19 DEF SqrtInvariant

LEMMA InversePass ==
    ASSUME InverseInvariant, NEW to, NEW from, NEW squares \in 0..256, NEW times, from # "none",
           StepOf(Step(to, from, squares, times)),
           InverseExponent(to, pc + 1) = InverseExponent(from, pc) * Two[squares]
               + (IF times = "none" THEN 0 ELSE InverseExponent(times, pc)),
           \A r \in DOMAIN reg : r # to => InverseExponent(r, pc + 1) = InverseExponent(r, pc)
    PROVE  /\ DOMAIN reg' = DOMAIN reg \cup {to}
           /\ \A r \in DOMAIN reg' : Holds(reg'[r], InverseExponent(r, pc + 1))
<1> DEFINE st == Step(to, from, squares, times)
           ex == [r \in DOMAIN reg |-> InverseExponent(r, pc)]
<1>1. st.to = to /\ st.from = from /\ st.squares = squares /\ st.times = times /\ StepOf(st)
  BY StepFields
<1>2. \A r \in DOMAIN reg : ex[r] = InverseExponent(r, pc) /\ Holds(reg[r], ex[r])
  BY DEF InverseInvariant
<1> HIDE DEF st, ex
<1>3. from \in DOMAIN reg /\ (times # "none" => times \in DOMAIN reg)
  BY <1>1 DEF StepOf
<1>4. /\ DOMAIN reg' = DOMAIN reg \cup {st.to}
      /\ \A r \in DOMAIN reg : r # st.to => Holds(reg'[r], ex[r])
      /\ Holds(reg'[st.to], ex[st.from] * Two[st.squares]
                            + (IF st.times = "none" THEN 0 ELSE ex[st.times]))
  <2>1. st.squares \in 0..256 /\ st.from # "none"
    BY <1>1
  <2> QED BY <1>1, <1>2, <2>1, StepHolds
<1>5. Holds(reg'[to], InverseExponent(to, pc + 1))
  <2>1. ex[from] = InverseExponent(from, pc) /\ (times # "none" => ex[times] = InverseExponent(times, pc))
    BY <1>2, <1>3
  <2>2. Holds(reg'[to], ex[from] * Two[squares] + (IF times = "none" THEN 0 ELSE ex[times]))
    BY <1>1, <1>4
  <2> QED BY <2>1, <2>2
<1> QED BY <1>1, <1>2, <1>4, <1>5

LEMMA InverseStep ==
    ASSUME InverseInvariant, chain = "inverse", ChainStep
    PROVE  InverseInvariant' /\ chain' = chain
<1>1. /\ pc \in 0..37 /\ Program = Inverse /\ Len(Inverse) = 37
  BY InverseProgram DEF InverseInvariant, Program
<1>2. pc < 37 /\ StepOf(Inverse[pc + 1]) /\ pc' = pc + 1 /\ chain' = chain
  BY <1>1 DEF ChainStep
<1>3. pc + 1 \in 0..37
  BY <1>1, <1>2
<1> DEFINE Done == /\ \A r \in DOMAIN reg' : Holds(reg'[r], InverseExponent(r, pc + 1))
                   /\ "f" \in DOMAIN reg'
<1>4. ASSUME pc = 0 PROVE Done
  <2>1. StepOf(Step("a2", "f", 1, "none"))
    BY <1>2, <1>4, InverseProgram
  <2>2. InverseExponent("a2", pc + 1) = InverseExponent("f", pc) * Two[1]
            + (IF "none" = "none" THEN 0 ELSE InverseExponent("none", pc))
    BY <1>4, InverseSums, SmallTwos DEF InverseExponent
  <2>3. \A r \in DOMAIN reg : r # "a2" => InverseExponent(r, pc + 1) = InverseExponent(r, pc)
    BY <1>4 DEF InverseExponent
  <2>4. 1 \in 0..256 /\ "f" # "none"
    OBVIOUS
  <2>5. /\ DOMAIN reg' = DOMAIN reg \cup {"a2"}
        /\ \A r \in DOMAIN reg' : Holds(reg'[r], InverseExponent(r, pc + 1))
    BY <2>1, <2>2, <2>3, <2>4, InversePass, Zenon
  <2> QED BY <1>4, <2>5 DEF InverseInvariant
<1>5. ASSUME pc = 1 PROVE Done
  <2>1. StepOf(Step("a3", "a2", 0, "f"))
    BY <1>2, <1>5, InverseProgram
  <2>2. InverseExponent("a3", pc + 1) = InverseExponent("a2", pc) * Two[0]
            + (IF "f" = "none" THEN 0 ELSE InverseExponent("f", pc))
    BY <1>5, InverseSums, SmallTwos DEF InverseExponent
  <2>3. \A r \in DOMAIN reg : r # "a3" => InverseExponent(r, pc + 1) = InverseExponent(r, pc)
    BY <1>5 DEF InverseExponent
  <2>4. 0 \in 0..256 /\ "a2" # "none"
    OBVIOUS
  <2>5. /\ DOMAIN reg' = DOMAIN reg \cup {"a3"}
        /\ \A r \in DOMAIN reg' : Holds(reg'[r], InverseExponent(r, pc + 1))
    BY <2>1, <2>2, <2>3, <2>4, InversePass, Zenon
  <2> QED BY <1>5, <2>5 DEF InverseInvariant
<1>6. ASSUME pc = 2 PROVE Done
  <2>1. StepOf(Step("a4", "a2", 1, "none"))
    BY <1>2, <1>6, InverseProgram
  <2>2. InverseExponent("a4", pc + 1) = InverseExponent("a2", pc) * Two[1]
            + (IF "none" = "none" THEN 0 ELSE InverseExponent("none", pc))
    BY <1>6, InverseSums, SmallTwos DEF InverseExponent
  <2>3. \A r \in DOMAIN reg : r # "a4" => InverseExponent(r, pc + 1) = InverseExponent(r, pc)
    BY <1>6 DEF InverseExponent
  <2>4. 1 \in 0..256 /\ "a2" # "none"
    OBVIOUS
  <2>5. /\ DOMAIN reg' = DOMAIN reg \cup {"a4"}
        /\ \A r \in DOMAIN reg' : Holds(reg'[r], InverseExponent(r, pc + 1))
    BY <2>1, <2>2, <2>3, <2>4, InversePass, Zenon
  <2> QED BY <1>6, <2>5 DEF InverseInvariant
<1>7. ASSUME pc = 3 PROVE Done
  <2>1. StepOf(Step("a10", "a4", 1, "a2"))
    BY <1>2, <1>7, InverseProgram
  <2>2. InverseExponent("a10", pc + 1) = InverseExponent("a4", pc) * Two[1]
            + (IF "a2" = "none" THEN 0 ELSE InverseExponent("a2", pc))
    BY <1>7, InverseSums, SmallTwos DEF InverseExponent
  <2>3. \A r \in DOMAIN reg : r # "a10" => InverseExponent(r, pc + 1) = InverseExponent(r, pc)
    BY <1>7 DEF InverseExponent
  <2>4. 1 \in 0..256 /\ "a4" # "none"
    OBVIOUS
  <2>5. /\ DOMAIN reg' = DOMAIN reg \cup {"a10"}
        /\ \A r \in DOMAIN reg' : Holds(reg'[r], InverseExponent(r, pc + 1))
    BY <2>1, <2>2, <2>3, <2>4, InversePass, Zenon
  <2> QED BY <1>7, <2>5 DEF InverseInvariant
<1>8. ASSUME pc = 4 PROVE Done
  <2>1. StepOf(Step("a11", "a10", 0, "f"))
    BY <1>2, <1>8, InverseProgram
  <2>2. InverseExponent("a11", pc + 1) = InverseExponent("a10", pc) * Two[0]
            + (IF "f" = "none" THEN 0 ELSE InverseExponent("f", pc))
    BY <1>8, InverseSums, SmallTwos DEF InverseExponent
  <2>3. \A r \in DOMAIN reg : r # "a11" => InverseExponent(r, pc + 1) = InverseExponent(r, pc)
    BY <1>8 DEF InverseExponent
  <2>4. 0 \in 0..256 /\ "a10" # "none"
    OBVIOUS
  <2>5. /\ DOMAIN reg' = DOMAIN reg \cup {"a11"}
        /\ \A r \in DOMAIN reg' : Holds(reg'[r], InverseExponent(r, pc + 1))
    BY <2>1, <2>2, <2>3, <2>4, InversePass, Zenon
  <2> QED BY <1>8, <2>5 DEF InverseInvariant
<1>9. ASSUME pc = 5 PROVE Done
  <2>1. StepOf(Step("a21", "a10", 0, "a11"))
    BY <1>2, <1>9, InverseProgram
  <2>2. InverseExponent("a21", pc + 1) = InverseExponent("a10", pc) * Two[0]
            + (IF "a11" = "none" THEN 0 ELSE InverseExponent("a11", pc))
    BY <1>9, InverseSums, SmallTwos DEF InverseExponent
  <2>3. \A r \in DOMAIN reg : r # "a21" => InverseExponent(r, pc + 1) = InverseExponent(r, pc)
    BY <1>9 DEF InverseExponent
  <2>4. 0 \in 0..256 /\ "a10" # "none"
    OBVIOUS
  <2>5. /\ DOMAIN reg' = DOMAIN reg \cup {"a21"}
        /\ \A r \in DOMAIN reg' : Holds(reg'[r], InverseExponent(r, pc + 1))
    BY <2>1, <2>2, <2>3, <2>4, InversePass, Zenon
  <2> QED BY <1>9, <2>5 DEF InverseInvariant
<1>10. ASSUME pc = 6 PROVE Done
  <2>1. StepOf(Step("a42", "a21", 1, "none"))
    BY <1>2, <1>10, InverseProgram
  <2>2. InverseExponent("a42", pc + 1) = InverseExponent("a21", pc) * Two[1]
            + (IF "none" = "none" THEN 0 ELSE InverseExponent("none", pc))
    BY <1>10, InverseSums, SmallTwos DEF InverseExponent
  <2>3. \A r \in DOMAIN reg : r # "a42" => InverseExponent(r, pc + 1) = InverseExponent(r, pc)
    BY <1>10 DEF InverseExponent
  <2>4. 1 \in 0..256 /\ "a21" # "none"
    OBVIOUS
  <2>5. /\ DOMAIN reg' = DOMAIN reg \cup {"a42"}
        /\ \A r \in DOMAIN reg' : Holds(reg'[r], InverseExponent(r, pc + 1))
    BY <2>1, <2>2, <2>3, <2>4, InversePass, Zenon
  <2> QED BY <1>10, <2>5 DEF InverseInvariant
<1>11. ASSUME pc = 7 PROVE Done
  <2>1. StepOf(Step("a45", "a42", 0, "a3"))
    BY <1>2, <1>11, InverseProgram
  <2>2. InverseExponent("a45", pc + 1) = InverseExponent("a42", pc) * Two[0]
            + (IF "a3" = "none" THEN 0 ELSE InverseExponent("a3", pc))
    BY <1>11, InverseSums, SmallTwos DEF InverseExponent
  <2>3. \A r \in DOMAIN reg : r # "a45" => InverseExponent(r, pc + 1) = InverseExponent(r, pc)
    BY <1>11 DEF InverseExponent
  <2>4. 0 \in 0..256 /\ "a42" # "none"
    OBVIOUS
  <2>5. /\ DOMAIN reg' = DOMAIN reg \cup {"a45"}
        /\ \A r \in DOMAIN reg' : Holds(reg'[r], InverseExponent(r, pc + 1))
    BY <2>1, <2>2, <2>3, <2>4, InversePass, Zenon
  <2> QED BY <1>11, <2>5 DEF InverseInvariant
<1>12. ASSUME pc = 8 PROVE Done
  <2>1. StepOf(Step("a63", "a42", 0, "a21"))
    BY <1>2, <1>12, InverseProgram
  <2>2. InverseExponent("a63", pc + 1) = InverseExponent("a42", pc) * Two[0]
            + (IF "a21" = "none" THEN 0 ELSE InverseExponent("a21", pc))
    BY <1>12, InverseSums, SmallTwos DEF InverseExponent
  <2>3. \A r \in DOMAIN reg : r # "a63" => InverseExponent(r, pc + 1) = InverseExponent(r, pc)
    BY <1>12 DEF InverseExponent
  <2>4. 0 \in 0..256 /\ "a42" # "none"
    OBVIOUS
  <2>5. /\ DOMAIN reg' = DOMAIN reg \cup {"a63"}
        /\ \A r \in DOMAIN reg' : Holds(reg'[r], InverseExponent(r, pc + 1))
    BY <2>1, <2>2, <2>3, <2>4, InversePass, Zenon
  <2> QED BY <1>12, <2>5 DEF InverseInvariant
<1>13. ASSUME pc = 9 PROVE Done
  <2>1. StepOf(Step("a1019", "a63", 4, "a11"))
    BY <1>2, <1>13, InverseProgram
  <2>2. InverseExponent("a1019", pc + 1) = InverseExponent("a63", pc) * Two[4]
            + (IF "a11" = "none" THEN 0 ELSE InverseExponent("a11", pc))
    BY <1>13, InverseSums, SmallTwos DEF InverseExponent
  <2>3. \A r \in DOMAIN reg : r # "a1019" => InverseExponent(r, pc + 1) = InverseExponent(r, pc)
    BY <1>13 DEF InverseExponent
  <2>4. 4 \in 0..256 /\ "a63" # "none"
    OBVIOUS
  <2>5. /\ DOMAIN reg' = DOMAIN reg \cup {"a1019"}
        /\ \A r \in DOMAIN reg' : Holds(reg'[r], InverseExponent(r, pc + 1))
    BY <2>1, <2>2, <2>3, <2>4, InversePass, Zenon
  <2> QED BY <1>13, <2>5 DEF InverseInvariant
<1>14. ASSUME pc = 10 PROVE Done
  <2>1. StepOf(Step("a1023", "a1019", 0, "a4"))
    BY <1>2, <1>14, InverseProgram
  <2>2. InverseExponent("a1023", pc + 1) = InverseExponent("a1019", pc) * Two[0]
            + (IF "a4" = "none" THEN 0 ELSE InverseExponent("a4", pc))
    BY <1>14, InverseSums, SmallTwos DEF InverseExponent
  <2>3. \A r \in DOMAIN reg : r # "a1023" => InverseExponent(r, pc + 1) = InverseExponent(r, pc)
    BY <1>14 DEF InverseExponent
  <2>4. 0 \in 0..256 /\ "a1019" # "none"
    OBVIOUS
  <2>5. /\ DOMAIN reg' = DOMAIN reg \cup {"a1023"}
        /\ \A r \in DOMAIN reg' : Holds(reg'[r], InverseExponent(r, pc + 1))
    BY <2>1, <2>2, <2>3, <2>4, InversePass, Zenon
  <2> QED BY <1>14, <2>5 DEF InverseInvariant
<1>15. ASSUME pc = 11 PROVE Done
  <2>1. StepOf(Step("f", "a63", 0, "none"))
    BY <1>2, <1>15, InverseProgram
  <2>2. InverseExponent("f", pc + 1) = InverseExponent("a63", pc) * Two[0]
            + (IF "none" = "none" THEN 0 ELSE InverseExponent("none", pc))
    BY <1>15, InverseSums, SmallTwos DEF InverseExponent
  <2>3. \A r \in DOMAIN reg : r # "f" => InverseExponent(r, pc + 1) = InverseExponent(r, pc)
    BY DEF InverseExponent
  <2>4. 0 \in 0..256 /\ "a63" # "none"
    OBVIOUS
  <2>5. /\ DOMAIN reg' = DOMAIN reg \cup {"f"}
        /\ \A r \in DOMAIN reg' : Holds(reg'[r], InverseExponent(r, pc + 1))
    BY <2>1, <2>2, <2>3, <2>4, InversePass, Zenon
  <2> QED BY <1>15, <2>5 DEF InverseInvariant
<1>16. ASSUME pc \in 12..32 PROVE Done
  <2>1. StepOf(Step("f", "f", 10, "a1023"))
    BY <1>2, <1>16, InverseProgram
  <2>2. InverseExponent("f", pc + 1) = InverseExponent("f", pc) * Two[10]
            + (IF "a1023" = "none" THEN 0 ELSE InverseExponent("a1023", pc))
    BY <1>16, InverseSums, SmallTwos DEF InverseExponent
  <2>3. \A r \in DOMAIN reg : r # "f" => InverseExponent(r, pc + 1) = InverseExponent(r, pc)
    BY DEF InverseExponent
  <2>4. 10 \in 0..256 /\ "f" # "none"
    OBVIOUS
  <2>5. /\ DOMAIN reg' = DOMAIN reg \cup {"f"}
        /\ \A r \in DOMAIN reg' : Holds(reg'[r], InverseExponent(r, pc + 1))
    BY <2>1, <2>2, <2>3, <2>4, InversePass, Zenon
  <2> QED BY <1>16, <2>5 DEF InverseInvariant
<1>17. ASSUME pc = 33 PROVE Done
  <2>1. StepOf(Step("f", "f", 10, "a1019"))
    BY <1>2, <1>17, InverseProgram
  <2>2. InverseExponent("f", pc + 1) = InverseExponent("f", pc) * Two[10]
            + (IF "a1019" = "none" THEN 0 ELSE InverseExponent("a1019", pc))
    BY <1>17, InverseSums, SmallTwos DEF InverseExponent
  <2>3. \A r \in DOMAIN reg : r # "f" => InverseExponent(r, pc + 1) = InverseExponent(r, pc)
    BY DEF InverseExponent
  <2>4. 10 \in 0..256 /\ "f" # "none"
    OBVIOUS
  <2>5. /\ DOMAIN reg' = DOMAIN reg \cup {"f"}
        /\ \A r \in DOMAIN reg' : Holds(reg'[r], InverseExponent(r, pc + 1))
    BY <2>1, <2>2, <2>3, <2>4, InversePass, Zenon
  <2> QED BY <1>17, <2>5 DEF InverseInvariant
<1>18. ASSUME pc = 34 PROVE Done
  <2>1. StepOf(Step("f", "f", 10, "a1023"))
    BY <1>2, <1>18, InverseProgram
  <2>2. InverseExponent("f", pc + 1) = InverseExponent("f", pc) * Two[10]
            + (IF "a1023" = "none" THEN 0 ELSE InverseExponent("a1023", pc))
    BY <1>18, InverseSums, SmallTwos DEF InverseExponent
  <2>3. \A r \in DOMAIN reg : r # "f" => InverseExponent(r, pc + 1) = InverseExponent(r, pc)
    BY DEF InverseExponent
  <2>4. 10 \in 0..256 /\ "f" # "none"
    OBVIOUS
  <2>5. /\ DOMAIN reg' = DOMAIN reg \cup {"f"}
        /\ \A r \in DOMAIN reg' : Holds(reg'[r], InverseExponent(r, pc + 1))
    BY <2>1, <2>2, <2>3, <2>4, InversePass, Zenon
  <2> QED BY <1>18, <2>5 DEF InverseInvariant
<1>19. ASSUME pc = 35 PROVE Done
  <2>1. StepOf(Step("f", "f", 10, "a1023"))
    BY <1>2, <1>19, InverseProgram
  <2>2. InverseExponent("f", pc + 1) = InverseExponent("f", pc) * Two[10]
            + (IF "a1023" = "none" THEN 0 ELSE InverseExponent("a1023", pc))
    BY <1>19, InverseSums, SmallTwos DEF InverseExponent
  <2>3. \A r \in DOMAIN reg : r # "f" => InverseExponent(r, pc + 1) = InverseExponent(r, pc)
    BY DEF InverseExponent
  <2>4. 10 \in 0..256 /\ "f" # "none"
    OBVIOUS
  <2>5. /\ DOMAIN reg' = DOMAIN reg \cup {"f"}
        /\ \A r \in DOMAIN reg' : Holds(reg'[r], InverseExponent(r, pc + 1))
    BY <2>1, <2>2, <2>3, <2>4, InversePass, Zenon
  <2> QED BY <1>19, <2>5 DEF InverseInvariant
<1>20. ASSUME pc = 36 PROVE Done
  <2>1. StepOf(Step("f", "f", 10, "a45"))
    BY <1>2, <1>20, InverseProgram
  <2>2. InverseExponent("f", pc + 1) = InverseExponent("f", pc) * Two[10]
            + (IF "a45" = "none" THEN 0 ELSE InverseExponent("a45", pc))
    BY <1>20, InverseSums, SmallTwos DEF InverseExponent
  <2>3. \A r \in DOMAIN reg : r # "f" => InverseExponent(r, pc + 1) = InverseExponent(r, pc)
    BY DEF InverseExponent
  <2>4. 10 \in 0..256 /\ "f" # "none"
    OBVIOUS
  <2>5. /\ DOMAIN reg' = DOMAIN reg \cup {"f"}
        /\ \A r \in DOMAIN reg' : Holds(reg'[r], InverseExponent(r, pc + 1))
    BY <2>1, <2>2, <2>3, <2>4, InversePass, Zenon
  <2> QED BY <1>20, <2>5 DEF InverseInvariant
<1>21. \/ pc = 0
        \/ pc = 1
        \/ pc = 2
        \/ pc = 3
        \/ pc = 4
        \/ pc = 5
        \/ pc = 6
        \/ pc = 7
        \/ pc = 8
        \/ pc = 9
        \/ pc = 10
        \/ pc = 11
        \/ pc \in 12..32
        \/ pc = 33
        \/ pc = 34
        \/ pc = 35
        \/ pc = 36
  BY <1>1, <1>2
<1>22. Done
  <2> HIDE DEF Done
  <2> QED BY <1>4, <1>5, <1>6, <1>7, <1>8, <1>9, <1>10, <1>11, <1>12, <1>13, <1>14, <1>15, <1>16, <1>17, <1>18, <1>19, <1>20, <1>21
<1> QED BY <1>2, <1>3, <1>22 DEF InverseInvariant

LEMMA ChainInvariantInit == ChainInit => ChainInvariant
<1> SUFFICES ASSUME ChainInit PROVE ChainInvariant
  OBVIOUS
<1>1. pc = 0 /\ Holds(Small(1), 1)
  <2>1. 1 \in OneDigit
    BY DEF OneDigit
  <2>2. Holds(Small(1), 1)
    BY <2>1, HoldsSmall, Zenon
  <2> QED BY <2>2 DEF ChainInit
<1>2. CASE chain = "sqrt" /\ reg = [r \in {"a"} |-> Small(1)]
  BY <1>1, <1>2 DEF ChainInvariant, SqrtInvariant, SqrtExponent
<1>3. CASE chain = "inverse" /\ reg = [r \in {"f"} |-> Small(1)]
  BY <1>1, <1>3 DEF ChainInvariant, InverseInvariant, InverseExponent
<1> QED BY <1>2, <1>3 DEF ChainInit

LEMMA ChainInvariantNext == ChainInvariant /\ [ChainStep]_chainVars => ChainInvariant'
<1> SUFFICES ASSUME ChainInvariant, [ChainStep]_chainVars PROVE ChainInvariant'
  OBVIOUS
<1>1. CASE ChainStep
  <2>1. CASE chain = "sqrt" /\ SqrtInvariant
    BY <1>1, <2>1, SqrtStep DEF ChainInvariant
  <2>2. CASE chain = "inverse" /\ InverseInvariant
    BY <1>1, <2>2, InverseStep DEF ChainInvariant
  <2> QED BY <2>1, <2>2 DEF ChainInvariant
<1>2. CASE UNCHANGED chainVars
  BY <1>2 DEF chainVars, ChainInvariant, SqrtInvariant, InverseInvariant
<1> QED BY <1>1, <1>2

LEMMA Power2Holds ==
    ASSUME NEW k \in 0..256
    PROVE  Holds(Power2(k), Two[k])
<1>1. Holds(Squared(Small(1), k), 1 * Two[k])
  <2>1. Holds(Small(1), 1)
    <3> 1 \in OneDigit
      BY DEF OneDigit
    <3> QED BY HoldsSmall, Zenon
  <2> QED BY <2>1, HoldsSquared
<1>2. 1 * Two[k] = Two[k]
  <2>1. Two[k] \in Nat \ {0}
    BY Twos
  <2> QED BY <2>1
<1> QED BY <1>1, <1>2 DEF Power2

LEMMA ChainInvariantHolds == ChainInvariant => ChainsEndRight
<1> SUFFICES ASSUME ChainInvariant, pc = Len(Program)
             PROVE  /\ chain = "sqrt" =>
                           Sum(Sum(reg["f"], Power2(30)), Small(244)) = Power2(254)
                    /\ chain = "inverse" =>
                           Sum(Sum(reg["f"], Power2(32)), Small(979)) = Power2(256)
  BY DEF ChainsEndRight
<1>1. ASSUME chain = "sqrt"
      PROVE  Sum(Sum(reg["f"], Power2(30)), Small(244)) = Power2(254)
  <2>1. pc = 14 /\ SqrtInvariant
    <3>1. SqrtInvariant /\ Program = SquareRootVal
      BY <1>1 DEF ChainInvariant, Program
    <3> QED BY <3>1, SqrtProgram
  <2>2. Holds(reg["f"], SqrtExponent("f", 14)) /\ SqrtExponent("f", 14) = Two[254] - Two[30] - 244
    BY <2>1 DEF SqrtInvariant, SqrtExponent
  <2> DEFINE a == Two[254] - Two[30] - 244
             c == Two[30]
  <2>3. Holds(reg["f"], a) /\ Holds(Power2(30), c) /\ Holds(Small(244), 244)
    <3>1. 30 \in 0..256
      OBVIOUS
    <3>2. 244 \in OneDigit
      BY DEF OneDigit
    <3>3. Holds(Power2(30), Two[30])
      BY <3>1, Power2Holds, Zenon
    <3>4. Holds(Small(244), 244)
      BY <3>2, HoldsSmall, Zenon
    <3> QED BY <2>2, <3>3, <3>4
  <2>4. (a + c) + 244 = Two[254]
    <3>1. 30 \in 0..256 /\ 254 \in 0..256
      OBVIOUS
    <3>2. Two[30] \in Nat \ {0} /\ Two[254] \in Nat \ {0}
      BY <3>1, Twos
    <3> QED BY <3>2
  <2> HIDE DEF a, c
  <2>5. Holds(Sum(reg["f"], Power2(30)), a + c)
    BY <2>3, HoldsSum
  <2>6. Holds(Sum(Sum(reg["f"], Power2(30)), Small(244)), (a + c) + 244)
    BY <2>3, <2>5, HoldsSum
  <2>7. Holds(Power2(254), Two[254])
    BY Power2Holds, SMTT(30)
  <2> QED BY <2>4, <2>6, <2>7, HoldsUnique
<1>2. ASSUME chain = "inverse"
      PROVE  Sum(Sum(reg["f"], Power2(32)), Small(979)) = Power2(256)
  <2>1. pc = 37 /\ InverseInvariant
    <3>1. InverseInvariant /\ Program = Inverse
      BY <1>2 DEF ChainInvariant, Program
    <3> QED BY <3>1, InverseProgram
  <2>2. Holds(reg["f"], InverseExponent("f", 37))
        /\ InverseExponent("f", 37) = Two[256] - Two[32] - 979
    BY <2>1 DEF InverseInvariant, InverseExponent
  <2> DEFINE a == Two[256] - Two[32] - 979
             c == Two[32]
  <2>3. Holds(reg["f"], a) /\ Holds(Power2(32), c) /\ Holds(Small(979), 979)
    <3>1. 32 \in 0..256
      OBVIOUS
    <3>2. 979 \in OneDigit
      BY DEF OneDigit
    <3>3. Holds(Power2(32), Two[32])
      BY <3>1, Power2Holds, Zenon
    <3>4. Holds(Small(979), 979)
      BY <3>2, HoldsSmall, ZenonT(30)
    <3> QED BY <2>2, <3>3, <3>4
  <2>4. (a + c) + 979 = Two[256]
    <3>1. 32 \in 0..256 /\ 256 \in 0..256
      OBVIOUS
    <3>2. Two[32] \in Nat \ {0} /\ Two[256] \in Nat \ {0}
      BY <3>1, Twos
    <3> QED BY <3>2
  <2> HIDE DEF a, c
  <2>5. Holds(Sum(reg["f"], Power2(32)), a + c)
    BY <2>3, HoldsSum
  <2>6. Holds(Sum(Sum(reg["f"], Power2(32)), Small(979)), (a + c) + 979)
    BY <2>3, <2>5, HoldsSum
  <2>7. Holds(Power2(256), Two[256])
    BY Power2Holds, SMTT(30)
  <2> QED BY <2>4, <2>6, <2>7, HoldsUnique
<1> QED BY <1>1, <1>2

\* The addition chains of the square root and of the inverse end with the
\* exponents (p + 1) / 4 and p - 2 of the real prime, in numbers of any digits
\* that have room for them (field.go 1109-1256, 1511-1613).
THEOREM ChainsAreRight == ChainSpec => []ChainsEndRight
<1>1. ChainInit => ChainInvariant
  BY ChainInvariantInit
<1>2. ChainInvariant /\ [ChainStep]_chainVars => ChainInvariant'
  BY ChainInvariantNext
<1>3. ChainInvariant => ChainsEndRight
  BY ChainInvariantHolds
<1> QED BY <1>1, <1>2, <1>3, PTL DEF ChainSpec

-----------------------------------------------------------------------------
(* Sums of x[i] * pw[i - 1], by what each place adds to the ones below.    *)

Worth(pw, n, x) == (CHOOSE v : Numeral(n, pw, x, v))[n]

Whole(n, x) == \A i \in 1..n : x[i] \in Int
Weights(n, pw) == \A i \in 0..n : pw[i] \in Nat \ {0}

LEMMA NumeralsAgree ==
    ASSUME NEW m \in Nat, NEW n \in m..(m + 1), NEW pw, NEW x,
           NEW v, Numeral(m, pw, x, v), NEW w, Numeral(n, pw, x, w)
    PROVE  \A i \in 0..m : v[i] = w[i]
<1> DEFINE S == {i \in 0..m : v[i] = w[i]}
<1>1. S \subseteq 0..m /\ 0 \in S
  BY DEF Numeral
<1>2. ASSUME NEW i \in 0..(m - 1), i \in S PROVE i + 1 \in S
  <2>1. i + 1 \in 1..m /\ i + 1 \in 1..n /\ (i + 1) - 1 = i /\ i + 1 \in 0..m
    OBVIOUS
  <2>2. v[i + 1] = v[i] + x[i + 1] * pw[i] /\ w[i + 1] = w[i] + x[i + 1] * pw[i]
    BY <2>1 DEF Numeral
  <2> QED BY <1>2, <2>1, <2>2
<1> HIDE DEF S
<1>3. \A i \in 0..m : i \in S
  BY <1>1, <1>2, UpTo
<1> QED BY <1>3 DEF S

LEMMA WorthNumeral ==
    ASSUME NEW n \in Nat, NEW pw, NEW x, Whole(n, x), Weights(n, pw)
    PROVE  /\ \E v : Numeral(n, pw, x, v) /\ Worth(pw, n, x) = v[n]
           /\ Worth(pw, n, x) \in Int
<1>1. ASSUME NEW i \in 1..n PROVE x[i] * pw[i - 1] \in Int
  <2> DEFINE a == x[i]
             p == pw[i - 1]
  <2>1. a \in Int /\ p \in Int
    <3>1. a \in Int
      BY DEF Whole
    <3>2. i - 1 \in 0..n
      OBVIOUS
    <3>3. p \in Nat \ {0}
      BY <3>2 DEF Weights
    <3> QED BY <3>1, <3>3
  <2> HIDE DEF a, p
  <2>2. a * p \in Int
    BY <2>1
  <2> QED BY <2>2 DEF a, p
<1>2. \E v : Numeral(n, pw, x, v)
  BY <1>1, NumeralExists
<1> DEFINE v == CHOOSE v : Numeral(n, pw, x, v)
<1>3. Numeral(n, pw, x, v)
  BY <1>2, Zenon
<1>4. Worth(pw, n, x) = v[n]
  BY DEF Worth
<1> HIDE DEF v
<1>5. v[n] \in Int
  BY <1>3 DEF Numeral
<1> QED BY <1>3, <1>4, <1>5

LEMMA WorthNone ==
    ASSUME NEW pw, NEW x, pw[0] \in Nat \ {0}
    PROVE  Worth(pw, 0, x) = 0
<1>1. Whole(0, x) /\ Weights(0, pw)
  BY DEF Whole, Weights
<1>2. PICK v : Numeral(0, pw, x, v) /\ Worth(pw, 0, x) = v[0]
  BY <1>1, WorthNumeral
<1> QED BY <1>2 DEF Numeral

LEMMA WorthNext ==
    ASSUME NEW n \in Nat, NEW pw, NEW x, Whole(n + 1, x), Weights(n + 1, pw)
    PROVE  /\ Worth(pw, n + 1, x) = Worth(pw, n, x) + x[n + 1] * pw[n]
           /\ Worth(pw, n, x) \in Int /\ x[n + 1] \in Int /\ pw[n] \in Nat \ {0}
           /\ Worth(pw, n + 1, x) \in Int
<1>1. Whole(n, x) /\ Weights(n, pw) /\ n + 1 \in Nat /\ n + 1 \in n..(n + 1)
  BY DEF Whole, Weights
<1>2. PICK v : Numeral(n, pw, x, v) /\ Worth(pw, n, x) = v[n]
  BY <1>1, WorthNumeral
<1>3. PICK w : Numeral(n + 1, pw, x, w) /\ Worth(pw, n + 1, x) = w[n + 1]
  BY <1>1, WorthNumeral
<1>4. v[n] = w[n]
  <2>1. \A i \in 0..n : v[i] = w[i]
    BY <1>1, <1>2, <1>3, NumeralsAgree
  <2> QED BY <2>1
<1>5. w[n + 1] = w[n] + x[n + 1] * pw[n]
  <2>1. n + 1 \in 1..(n + 1) /\ (n + 1) - 1 = n
    OBVIOUS
  <2> QED BY <1>3, <2>1 DEF Numeral
<1>6. x[n + 1] \in Int /\ pw[n] \in Nat \ {0}
  BY <1>1 DEF Whole, Weights
<1>7. Worth(pw, n, x) \in Int /\ Worth(pw, n + 1, x) \in Int
  BY <1>1, WorthNumeral
<1> QED BY <1>2, <1>3, <1>4, <1>5, <1>6, <1>7

LEMMA WholeFrom ==
    ASSUME NEW n \in Nat, NEW x, Whole(n, x), NEW m \in 0..n
    PROVE  Whole(m, x)
BY DEF Whole

LEMMA WeightsFrom ==
    ASSUME NEW n \in Nat, NEW pw, Weights(n, pw), NEW m \in 0..n
    PROVE  Weights(m, pw)
BY DEF Weights

\* What the sums are of one function holds of another that agrees with it.
LEMMA WorthSame ==
    ASSUME NEW n \in Nat, NEW pw, Weights(n, pw), NEW x, Whole(n, x),
           NEW y, \A i \in 1..n : y[i] = x[i]
    PROVE  Whole(n, y) /\ Worth(pw, n, x) = Worth(pw, n, y)
<1>1. Whole(n, y)
  BY DEF Whole
<1> DEFINE S == {m \in 0..n : Worth(pw, m, x) = Worth(pw, m, y)}
<1>2. S \subseteq 0..n /\ 0 \in S
  <2>1. pw[0] \in Nat \ {0}
    BY DEF Weights
  <2>2. Worth(pw, 0, x) = 0 /\ Worth(pw, 0, y) = 0
    BY <2>1, WorthNone
  <2> QED BY <2>2
<1>3. ASSUME NEW m \in 0..(n - 1), m \in S PROVE m + 1 \in S
  <2>1. m \in Nat /\ m + 1 \in 0..n /\ m + 1 \in 1..n
    OBVIOUS
  <2>2. Whole(m + 1, x) /\ Whole(m + 1, y) /\ Weights(m + 1, pw)
    BY <1>1, <2>1, WholeFrom, WeightsFrom
  <2>3. Worth(pw, m + 1, x) = Worth(pw, m, x) + x[m + 1] * pw[m]
    BY <2>1, <2>2, WorthNext
  <2>4. Worth(pw, m + 1, y) = Worth(pw, m, y) + y[m + 1] * pw[m]
    BY <2>1, <2>2, WorthNext
  <2>5. y[m + 1] = x[m + 1] /\ Worth(pw, m, x) = Worth(pw, m, y)
    BY <1>3, <2>1
  <2> QED BY <2>1, <2>3, <2>4, <2>5, Zenon
<1> HIDE DEF S
<1>4. \A m \in 0..n : m \in S
  BY <1>2, <1>3, UpTo
<1>5. n \in S
  BY <1>4
<1> QED BY <1>1, <1>5 DEF S

LEMMA WorthPlus ==
    ASSUME NEW n \in Nat, NEW pw, Weights(n, pw), NEW x, Whole(n, x), NEW y, Whole(n, y),
           NEW z, \A i \in 1..n : z[i] = x[i] + y[i]
    PROVE  Whole(n, z) /\ Worth(pw, n, z) = Worth(pw, n, x) + Worth(pw, n, y)
<1>1. Whole(n, z)
  BY DEF Whole
<1> DEFINE S == {m \in 0..n : Worth(pw, m, z) = Worth(pw, m, x) + Worth(pw, m, y)}
<1>2. S \subseteq 0..n /\ 0 \in S
  <2>1. pw[0] \in Nat \ {0}
    BY DEF Weights
  <2>2. Worth(pw, 0, x) = 0 /\ Worth(pw, 0, y) = 0 /\ Worth(pw, 0, z) = 0
    BY <2>1, WorthNone
  <2> QED BY <2>2
<1>3. ASSUME NEW m \in 0..(n - 1), m \in S PROVE m + 1 \in S
  <2>1. m \in Nat /\ m + 1 \in 0..n /\ m + 1 \in 1..n
    OBVIOUS
  <2>2. Whole(m + 1, x) /\ Whole(m + 1, y) /\ Whole(m + 1, z) /\ Weights(m + 1, pw)
    BY <1>1, <2>1, WholeFrom, WeightsFrom
  <2> DEFINE a == x[m + 1]
             c == y[m + 1]
             p == pw[m]
             X == Worth(pw, m, x)
             Y == Worth(pw, m, y)
             X1 == Worth(pw, m + 1, x)
             Y1 == Worth(pw, m + 1, y)
             Z1 == Worth(pw, m + 1, z)
  <2>3. X1 = X + a * p /\ X \in Int /\ a \in Int /\ p \in Nat \ {0} /\ X1 \in Int
    BY <2>1, <2>2, WorthNext
  <2>4. Y1 = Y + c * p /\ Y \in Int /\ c \in Int /\ Y1 \in Int
    BY <2>1, <2>2, WorthNext
  <2>5. Z1 = Worth(pw, m, z) + z[m + 1] * p
    BY <2>1, <2>2, WorthNext
  <2>6. z[m + 1] = a + c /\ Worth(pw, m, z) = X + Y
    BY <1>3, <2>1
  <2>7. Z1 = (X + Y) + (a + c) * p
    BY <2>5, <2>6, Zenon
  <2> HIDE DEF a, c, p, X, Y, X1, Y1, Z1
  <2>8. (a + c) * p = a * p + c * p /\ a * p \in Int /\ c * p \in Int
    BY <2>3, <2>4, Ring
  <2>9. Z1 = X1 + Y1
    BY <2>3, <2>4, <2>7, <2>8
  <2> QED BY <2>1, <2>9 DEF X1, Y1, Z1
<1> HIDE DEF S
<1>4. \A m \in 0..n : m \in S
  BY <1>2, <1>3, UpTo
<1>5. n \in S
  BY <1>4
<1> QED BY <1>1, <1>5 DEF S

LEMMA WorthScale ==
    ASSUME NEW n \in Nat, NEW pw, Weights(n, pw), NEW x, Whole(n, x), NEW k \in Int,
           NEW z, \A i \in 1..n : z[i] = k * x[i]
    PROVE  Whole(n, z) /\ Worth(pw, n, z) = k * Worth(pw, n, x)
<1>1. Whole(n, z)
  BY DEF Whole
<1> DEFINE S == {m \in 0..n : Worth(pw, m, z) = k * Worth(pw, m, x)}
<1>2. S \subseteq 0..n /\ 0 \in S
  <2>1. pw[0] \in Nat \ {0}
    BY DEF Weights
  <2>2. Worth(pw, 0, x) = 0 /\ Worth(pw, 0, z) = 0
    BY <2>1, WorthNone
  <2>3. k * 0 = 0
    OBVIOUS
  <2> QED BY <2>2, <2>3
<1>3. ASSUME NEW m \in 0..(n - 1), m \in S PROVE m + 1 \in S
  <2>1. m \in Nat /\ m + 1 \in 0..n /\ m + 1 \in 1..n
    OBVIOUS
  <2>2. Whole(m + 1, x) /\ Whole(m + 1, z) /\ Weights(m + 1, pw)
    BY <1>1, <2>1, WholeFrom, WeightsFrom
  <2> DEFINE a == x[m + 1]
             p == pw[m]
             X == Worth(pw, m, x)
             X1 == Worth(pw, m + 1, x)
             Z1 == Worth(pw, m + 1, z)
  <2>3. X1 = X + a * p /\ X \in Int /\ a \in Int /\ p \in Nat \ {0} /\ X1 \in Int
    BY <2>1, <2>2, WorthNext
  <2>5. Z1 = Worth(pw, m, z) + z[m + 1] * p
    BY <2>1, <2>2, WorthNext
  <2>6. z[m + 1] = k * a /\ Worth(pw, m, z) = k * X
    BY <1>3, <2>1
  <2>7. Z1 = k * X + (k * a) * p
    BY <2>5, <2>6, Zenon
  <2> HIDE DEF a, p, X, X1, Z1
  <2>8. a * p \in Int /\ k * (X + a * p) = k * X + k * (a * p) /\ (k * a) * p = k * (a * p)
    <3>1. a * p \in Int
      BY <2>3
    <3>2. (k * a) * p = k * (a * p)
      BY <2>3, Ring
    <3>3. k * (X + a * p) = k * X + k * (a * p)
      BY <2>3, <3>1, Ring
    <3> QED BY <3>1, <3>2, <3>3
  <2>9. Z1 = k * X1
    BY <2>3, <2>7, <2>8, Zenon
  <2> QED BY <2>1, <2>9 DEF X1, Z1
<1> HIDE DEF S
<1>4. \A m \in 0..n : m \in S
  BY <1>2, <1>3, UpTo
<1>5. n \in S
  BY <1>4
<1> QED BY <1>1, <1>5 DEF S

LEMMA WorthZero ==
    ASSUME NEW n \in Nat, NEW pw, Weights(n, pw), NEW z, \A i \in 1..n : z[i] = 0
    PROVE  Whole(n, z) /\ Worth(pw, n, z) = 0
<1>1. Whole(n, z) /\ \A i \in 1..n : z[i] = 0 * z[i]
  BY DEF Whole
<1>2. Worth(pw, n, z) = 0 * Worth(pw, n, z)
  BY <1>1, WorthScale
<1>3. Worth(pw, n, z) \in Int
  BY <1>1, WorthNumeral
<1> QED BY <1>1, <1>2, <1>3

Splits(pw, d, n) == \A i \in 0..n : pw[d + i] = pw[d] * pw[i]
From(z, d, n, x) == \A i \in 1..n : x[i] = z[d + i]

\* The places from the one after d on.
LEMMA WorthSplit ==
    ASSUME NEW d \in Nat, NEW n \in Nat, NEW pw, Weights(d + n, pw),
           Splits(pw, d, n), pw[0] = 1, NEW z, Whole(d + n, z), NEW x, From(z, d, n, x)
    PROVE  /\ Whole(n, x) /\ Whole(d, z) /\ pw[d] \in Nat \ {0}
           /\ Worth(pw, d + n, z) = Worth(pw, d, z) + pw[d] * Worth(pw, n, x)
<1>1. Whole(n, x)
  <2>1. \A i \in 1..n : d + i \in 1..(d + n)
    OBVIOUS
  <2> QED BY <2>1 DEF Whole, From
<1>2. Whole(d, z) /\ Weights(d, pw) /\ Weights(n, pw) /\ pw[d] \in Nat \ {0}
  <2>1. d \in 0..(d + n) /\ n \in 0..(d + n) /\ d + n \in Nat
    OBVIOUS
  <2>2. Whole(d, z) /\ Weights(d, pw) /\ Weights(n, pw)
    BY <2>1, WholeFrom, WeightsFrom
  <2>3. pw[d] \in Nat \ {0}
    BY <2>1 DEF Weights
  <2> QED BY <2>2, <2>3
<1> DEFINE q == pw[d]
           D == Worth(pw, d, z)
           S == {m \in 0..n : Worth(pw, d + m, z) = D + q * Worth(pw, m, x)}
<1>3. D \in Int /\ q \in Nat \ {0}
  BY <1>2, WorthNumeral
<1>4. S \subseteq 0..n /\ 0 \in S
  <2>1. Worth(pw, 0, x) = 0 /\ d + 0 = d
    BY WorthNone
  <2>2. q * 0 = 0 /\ D + 0 = D
    BY <1>3
  <2> QED BY <2>1, <2>2
<1>5. ASSUME NEW m \in 0..(n - 1), m \in S PROVE m + 1 \in S
  <2>1. m \in Nat /\ m + 1 \in 0..n /\ m + 1 \in 1..n /\ d + m \in Nat /\ m \in 0..n
        /\ (d + m) + 1 = d + (m + 1) /\ (d + m) + 1 \in 0..(d + n) /\ d + n \in Nat
    OBVIOUS
  <2>2. Whole(m + 1, x) /\ Weights(m + 1, pw)
    BY <1>1, <1>2, <2>1, WholeFrom, WeightsFrom
  <2>3. Whole((d + m) + 1, z) /\ Weights((d + m) + 1, pw)
    BY <2>1, WholeFrom, WeightsFrom
  <2> DEFINE a == x[m + 1]
             p == pw[m]
             X == Worth(pw, m, x)
             X1 == Worth(pw, m + 1, x)
             Z1 == Worth(pw, (d + m) + 1, z)
  <2>4. X1 = X + a * p /\ X \in Int /\ a \in Int /\ p \in Nat \ {0} /\ X1 \in Int
    BY <2>1, <2>2, WorthNext
  <2>5. Z1 = Worth(pw, d + m, z) + z[(d + m) + 1] * pw[d + m]
    BY <2>1, <2>3, WorthNext
  <2>6. z[(d + m) + 1] = a /\ Worth(pw, d + m, z) = D + q * X /\ pw[d + m] = q * p
    <3>1. z[(d + m) + 1] = a
      BY <2>1 DEF From
    <3>2. pw[d + m] = q * p
      BY <2>1 DEF Splits
    <3> QED BY <1>5, <3>1, <3>2
  <2>7. Z1 = (D + q * X) + a * (q * p)
    BY <2>5, <2>6, Zenon
  <2> HIDE DEF a, p, X, X1, Z1, D, q
  <2>8. a * (q * p) = q * (a * p) /\ q * (X + a * p) = q * X + q * (a * p)
        /\ q * X \in Int /\ q * (a * p) \in Int
    <3>1. a * p \in Int /\ q * p = p * q /\ a * (p * q) = (a * p) * q
      BY <1>3, <2>4, Ring
    <3>2. (a * p) * q = q * (a * p) /\ q * (X + a * p) = q * X + q * (a * p)
      BY <1>3, <2>4, <3>1, Ring
    <3>3. q * X \in Int /\ q * (a * p) \in Int
      BY <1>3, <2>4, <3>1, Ring
    <3> QED BY <3>1, <3>2, <3>3
  <2>9. Z1 = D + q * X1
    <3> DEFINE e == q * X
               g == q * (a * p)
    <3>1. q * X1 = e + g /\ Z1 = (D + e) + g /\ e \in Int /\ g \in Int
      BY <2>4, <2>7, <2>8, Zenon
    <3> HIDE DEF e, g
    <3> QED BY <1>3, <3>1
  <2> QED BY <2>1, <2>9 DEF X1, Z1
<1> HIDE DEF S
<1>6. \A m \in 0..n : m \in S
  BY <1>4, <1>5, UpTo
<1>7. n \in S
  BY <1>6
<1> QED BY <1>1, <1>2, <1>7 DEF S

\* A table of the powers of b up to the M-th.
PowerTable(b, M, pw) == b \in Nat \ {0} /\ M \in Nat /\ PowersOf(b, M, pw)

LEMMA PowersAre ==
    ASSUME NEW b, NEW M, NEW pw, PowerTable(b, M, pw)
    PROVE  b \in Nat \ {0} /\ M \in Nat /\ PowersOf(b, M, pw) /\ Weights(M, pw) /\ pw[0] = 1
<1>1. b \in Nat \ {0} /\ M \in Nat /\ PowersOf(b, M, pw)
  BY DEF PowerTable
<1>2. Weights(M, pw) /\ pw[0] = 1
  BY <1>1 DEF PowersOf, Weights
<1> QED BY <1>1, <1>2

LEMMA PowerNext ==
    ASSUME NEW b, NEW M, NEW pw, PowerTable(b, M, pw),
           NEW n \in Nat, n + 1 <= M
    PROVE  /\ pw[n] \in Nat \ {0} /\ pw[n + 1] \in Nat \ {0}
           /\ pw[n + 1] = pw[n] * b
<1>0. b \in Nat \ {0} /\ M \in Nat /\ PowersOf(b, M, pw) /\ Weights(M, pw) /\ pw[0] = 1
  BY PowersAre
<1>1. n + 1 \in 1..M /\ n \in 0..M /\ (n + 1) - 1 = n
      /\ n + 1 \in 0..M
  BY <1>0
<1>2. pw[n] \in Nat \ {0} /\ pw[n + 1] \in Nat \ {0}
  BY <1>1, <1>0 DEF Weights
<1>3. pw[n + 1] = pw[n] * b
  <2>1. \A i \in 1..M : pw[i] = pw[i - 1] * b
    BY <1>0 DEF PowersOf
  <2> QED BY <1>1, <2>1
<1> QED BY <1>2, <1>3

LEMMA PowersAdd ==
    ASSUME NEW b, NEW M, NEW pw, PowerTable(b, M, pw),
           NEW i \in Nat, NEW j \in Nat, i + j <= M
    PROVE  /\ pw[i + j] = pw[i] * pw[j]
           /\ pw[i] \in Nat \ {0} /\ pw[j] \in Nat \ {0}
           /\ pw[i + j] \in Nat \ {0}
<1>0. b \in Nat \ {0} /\ M \in Nat /\ PowersOf(b, M, pw) /\ Weights(M, pw) /\ pw[0] = 1
  BY PowersAre
<1> DEFINE p == pw[i]
           S == {m \in 0..j : pw[i + m] = p * pw[m]}
<1>1. /\ i \in 0..M /\ j \in 0..M
      /\ i + j \in 0..M /\ b \in Nat \ {0} /\ i + 0 = i /\ 0 \in 0..j
      /\ j \in 0..j
  BY <1>0
<1>2. p \in Nat \ {0} /\ pw[j] \in Nat \ {0} /\ pw[i + j] \in Nat \ {0}
      /\ pw[0] = 1
  BY <1>1, <1>0 DEF Weights
<1>3. S \subseteq 0..j /\ 0 \in S
  <2>1. p * 1 = p
    BY <1>2
  <2> QED BY <1>1, <1>2, <2>1
<1>4. ASSUME NEW m \in 0..(j - 1), m \in S PROVE m + 1 \in S
  <2>1. m \in Nat /\ m + 1 \in 0..j /\ i + m \in Nat /\ (i + m) + 1 = i + (m + 1)
        /\ m + 1 <= M /\ (i + m) + 1 <= M
    BY <1>0, <1>1
  <2> DEFINE q == pw[m]
  <2>2. pw[m + 1] = q * b /\ q \in Nat \ {0}
    BY <2>1, PowerNext
  <2>3. pw[(i + m) + 1] = pw[i + m] * b
    BY <2>1, PowerNext
  <2>4. pw[i + m] = p * q
    BY <1>4
  <2> HIDE DEF p, q
  <2>5. (p * q) * b = p * (q * b)
    BY <1>1, <1>2, <2>2, Ring
  <2>6. pw[i + (m + 1)] = p * pw[m + 1]
    BY <2>1, <2>2, <2>3, <2>4, <2>5, Zenon
  <2> QED BY <2>1, <2>6
<1> HIDE DEF S
<1>5. \A m \in 0..j : m \in S
  BY <1>3, <1>4, UpTo
<1>6. j \in S
  BY <1>1, <1>5
<1> QED BY <1>2, <1>6 DEF S

LEMMA PowersSplit ==
    ASSUME NEW b, NEW M, NEW pw, PowerTable(b, M, pw),
           NEW d \in Nat, NEW n \in Nat, d + n <= M
    PROVE  Splits(pw, d, n)
<1>0. b \in Nat \ {0} /\ M \in Nat
  BY PowersAre
<1>1. ASSUME NEW i \in 0..n PROVE pw[d + i] = pw[d] * pw[i]
  <2>1. i \in Nat /\ d + i <= M
    BY <1>0
  <2> QED BY <2>1, PowersAdd
<1> QED BY <1>1 DEF Splits

Padding(x, m, n, w) == \A j \in 1..m : x[j] = IF j \in 1..n THEN w[j] ELSE 0
PowersTo(pw, n) == [i \in 0..n |-> pw[i]]

\* Places that hold 0 above the first n add nothing.
LEMMA WorthPad ==
    ASSUME NEW b, NEW M, NEW pw, PowerTable(b, M, pw),
           NEW n \in Nat, NEW m \in Nat, n <= m, m <= M, NEW w, Whole(n, w),
           NEW x, Padding(x, m, n, w)
    PROVE  Whole(m, x) /\ Worth(pw, m, x) = Worth(pw, n, w)
<1>0. b \in Nat \ {0} /\ M \in Nat /\ PowersOf(b, M, pw) /\ Weights(M, pw) /\ pw[0] = 1
  BY PowersAre
<1> DEFINE r == m - n
           rest == [i \in 1..r |-> 0]
<1>1. /\ r \in Nat /\ n + r = m /\ n + r <= M /\ M \in Nat
      /\ n + r \in 0..M /\ r \in 0..M /\ n \in 0..M
  BY <1>0
<1>2. \A j \in 1..n : j \in 1..m /\ x[j] = w[j]
  BY <1>1 DEF Padding
<1>3. \A j \in 1..r : n + j \in 1..m /\ x[n + j] = 0 /\ rest[j] = 0
  BY <1>1 DEF Padding
<1>4. Whole(m, x)
  BY DEF Whole, Padding
<1> HIDE DEF rest, r
<1>5. From(x, n, r, rest)
  BY <1>3 DEF From
<1>6. Weights(n + r, pw) /\ Weights(r, pw) /\ Weights(n, pw)
      /\ pw[0] = 1
  BY <1>1, WeightsFrom, <1>0
<1>7. Splits(pw, n, r)
  BY <1>1, PowersSplit
<1>8. Whole(n + r, x)
  BY <1>1, <1>4
<1>9. /\ Worth(pw, n + r, x)
             = Worth(pw, n, x) + pw[n] * Worth(pw, r, rest)
      /\ Whole(r, rest) /\ Whole(n, x) /\ pw[n] \in Nat \ {0}
  <2>1. n \in Nat /\ r \in Nat /\ Weights(n + r, pw) /\ pw[0] = 1
    BY <1>1, <1>6
  <2>2. Splits(pw, n, r) /\ Whole(n + r, x) /\ From(x, n, r, rest)
    BY <1>5, <1>7, <1>8
  <2> QED BY <2>1, <2>2, WorthSplit
<1>10. Worth(pw, r, rest) = 0
  BY <1>1, <1>3, <1>6, WorthZero
<1>11. Worth(pw, n, w) = Worth(pw, n, x) /\ Worth(pw, n, x) \in Int
  BY <1>2, <1>6, <1>9, WorthSame, WorthNumeral
<1>12. Worth(pw, n + r, x) = Worth(pw, n, w)
  BY <1>9, <1>10, <1>11
<1> QED BY <1>1, <1>4, <1>12

\* Words moved up by d places.
LEMMA WorthShift ==
    ASSUME NEW b, NEW M, NEW pw, PowerTable(b, M, pw),
           NEW d \in Nat, NEW n \in Nat, NEW m \in Nat, d + n <= m, m <= M,
           NEW w, Whole(n, w),
           NEW z, \A k \in 1..m : z[k] = IF k - d \in 1..n THEN w[k - d] ELSE 0
    PROVE  Whole(m, z) /\ Worth(pw, m, z) = pw[d] * Worth(pw, n, w)
<1>0. b \in Nat \ {0} /\ M \in Nat /\ PowersOf(b, M, pw) /\ Weights(M, pw) /\ pw[0] = 1
  BY PowersAre
<1> DEFINE r == m - d
           x == [j \in 1..r |-> z[d + j]]
<1>1. /\ r \in Nat /\ d + r = m /\ n <= r /\ r <= M /\ M \in Nat
      /\ d + r \in 0..M /\ d \in 0..M /\ d + r <= M
  BY <1>0
<1>2. ASSUME NEW k \in 1..m PROVE z[k] \in Int
  BY DEF Whole
<1>3. ASSUME NEW k \in 1..d PROVE z[k] = 0
  <2>1. k \in 1..m /\ ~(k - d \in 1..n)
    BY <1>1
  <2> QED BY <2>1
<1>4. ASSUME NEW j \in 1..r PROVE x[j] = z[d + j] /\ x[j] = IF j \in 1..n THEN w[j] ELSE 0
  <2>1. d + j \in 1..m /\ (d + j) - d = j
    BY <1>1
  <2> QED BY <2>1
<1>5. Whole(m, z)
  BY <1>2 DEF Whole
<1> HIDE DEF x, r
<1>6. Worth(pw, r, x) = Worth(pw, n, w) /\ Whole(r, x)
  <2>1. Padding(x, r, n, w)
    BY <1>4 DEF Padding
  <2> QED BY <1>1, <2>1, WorthPad
<1>7. From(z, d, r, x)
  BY <1>4 DEF From
<1>8. Weights(d + r, pw) /\ Weights(d, pw) /\ pw[0] = 1
  BY <1>1, WeightsFrom, <1>0
<1>9. Splits(pw, d, r)
  BY <1>1, PowersSplit
<1>10. Whole(d + r, z)
  BY <1>1, <1>5
<1>11. /\ Worth(pw, d + r, z)
              = Worth(pw, d, z) + pw[d] * Worth(pw, r, x)
       /\ pw[d] \in Nat \ {0}
  <2>1. d \in Nat /\ r \in Nat /\ Weights(d + r, pw) /\ pw[0] = 1
    BY <1>1, <1>8
  <2> QED BY <1>7, <1>9, <1>10, <2>1, WorthSplit
<1>12. Worth(pw, d, z) = 0
  BY <1>3, <1>8, WorthZero
<1> DEFINE p == pw[d]
           X == Worth(pw, r, x)
<1>13. Worth(pw, d + r, z) = 0 + p * X /\ p \in Int /\ X \in Int
  <2>1. Weights(r, pw)
    BY <1>1, WeightsFrom, <1>0
  <2>2. X \in Int
    BY <1>1, <1>6, <2>1, WorthNumeral
  <2> QED BY <1>11, <1>12, <2>2
<1> HIDE DEF p, X
<1>14. p * X \in Int
  BY <1>13
<1>15. Worth(pw, d + r, z) = p * X
  BY <1>13, <1>14
<1> QED BY <1>1, <1>5, <1>6, <1>15 DEF p, X

LEMMA PowersToAre ==
    ASSUME NEW b, NEW M, NEW pw, PowerTable(b, M, pw),
           NEW n \in Nat, n <= M
    PROVE  /\ PowersOf(b, n, PowersTo(pw, n)) /\ PowersTo(pw, n)[n] = pw[n]
           /\ Weights(n, pw) /\ pw[n] \in Nat \ {0}
           /\ \A x, v : Numeral(n, pw, x, v) => Numeral(n, PowersTo(pw, n), x, v)
<1>0. b \in Nat \ {0} /\ M \in Nat /\ PowersOf(b, M, pw) /\ Weights(M, pw) /\ pw[0] = 1
  BY PowersAre
<1> DEFINE p == PowersTo(pw, n)
<1>1. \A i \in 0..n : i \in 0..M /\ p[i] = pw[i]
  BY <1>0 DEF PowersTo
<1>2. \A i \in 1..n : i \in 1..M /\ i - 1 \in 0..n /\ i \in 0..n
  BY <1>0
<1>3. 0 \in 0..n /\ n \in 0..n
  OBVIOUS
<1>4. \A i \in 0..n : pw[i] \in Nat \ {0}
  BY <1>1, <1>0 DEF Weights
<1>5. p \in [0..n -> Nat \ {0}]
  BY <1>4 DEF PowersTo
<1>6. p[0] = 1 /\ p[n] = pw[n]
  BY <1>1, <1>3, <1>0
<1>7. ASSUME NEW i \in 1..n PROVE p[i] = p[i - 1] * b
  <2>1. \A k \in 1..M : pw[k] = pw[k - 1] * b
    BY <1>0 DEF PowersOf
  <2>2. pw[i] = pw[i - 1] * b
    BY <1>2, <2>1
  <2> HIDE DEF p
  <2> QED BY <1>1, <1>2, <2>2
<1>8. PowersOf(b, n, p)
  BY <1>5, <1>6, <1>7 DEF PowersOf
<1>9. ASSUME NEW x, NEW v, Numeral(n, pw, x, v) PROVE Numeral(n, p, x, v)
  <2> HIDE DEF p
  <2>1. v \in [0..n -> Int] /\ v[0] = 0
    BY <1>9 DEF Numeral
  <2>2. ASSUME NEW i \in 1..n PROVE v[i] = v[i - 1] + x[i] * p[i - 1]
    <3>1. v[i] = v[i - 1] + x[i] * pw[i - 1]
      BY <1>9 DEF Numeral
    <3>2. p[i - 1] = pw[i - 1]
      BY <1>1, <1>2
    <3> QED BY <3>1, <3>2, Zenon
  <2> QED BY <2>1, <2>2 DEF Numeral
<1> HIDE DEF p
<1> QED BY <1>3, <1>4, <1>6, <1>8, <1>9 DEF p, Weights

LEMMA WorthBound ==
    ASSUME NEW b, NEW M, NEW pw, PowerTable(b, M, pw),
           NEW n \in Nat, n <= M, NEW x, Digital(n, b, x)
    PROVE  Whole(n, x) /\ Worth(pw, n, x) \in 0..(pw[n] - 1) /\ pw[n] \in Nat \ {0}
<1>0. b \in Nat \ {0} /\ M \in Nat /\ PowersOf(b, M, pw) /\ Weights(M, pw) /\ pw[0] = 1
  BY PowersAre
<1>1. Whole(n, x)
  BY <1>0 DEF Whole, Digital
<1>2. /\ PowersOf(b, n, PowersTo(pw, n)) /\ PowersTo(pw, n)[n] = pw[n]
      /\ Weights(n, pw) /\ pw[n] \in Nat \ {0}
  BY PowersToAre
<1>3. PICK v : Numeral(n, pw, x, v) /\ Worth(pw, n, x) = v[n]
  BY <1>1, <1>2, WorthNumeral
<1>4. Numeral(n, PowersTo(pw, n), x, v)
  BY <1>3, PowersToAre
<1>5. \A i \in 0..n : v[i] \in 0..(PowersTo(pw, n)[i] - 1)
  BY <1>2, <1>4, <1>0, NumeralBound
<1>6. v[n] \in 0..(PowersTo(pw, n)[n] - 1)
  BY <1>5
<1> QED BY <1>1, <1>2, <1>3, <1>6

LEMMA WorthUnique ==
    ASSUME NEW b, NEW M, NEW pw, PowerTable(b, M, pw),
           NEW n \in Nat, n <= M, NEW x, Digital(n, b, x),
           NEW y, Digital(n, b, y), Worth(pw, n, x) = Worth(pw, n, y)
    PROVE  \A i \in 1..n : x[i] = y[i]
<1>0. b \in Nat \ {0} /\ M \in Nat /\ PowersOf(b, M, pw) /\ Weights(M, pw) /\ pw[0] = 1
  BY PowersAre
<1>1. Whole(n, x) /\ Whole(n, y)
  BY WorthBound
<1>2. PowersOf(b, n, PowersTo(pw, n)) /\ Weights(n, pw)
  BY PowersToAre
<1>3. PICK v : Numeral(n, pw, x, v) /\ Worth(pw, n, x) = v[n]
  BY <1>1, <1>2, WorthNumeral
<1>4. PICK w : Numeral(n, pw, y, w) /\ Worth(pw, n, y) = w[n]
  BY <1>1, <1>2, WorthNumeral
<1>5. Numeral(n, PowersTo(pw, n), x, v) /\ Numeral(n, PowersTo(pw, n), y, w)
  BY <1>3, <1>4, PowersToAre
<1>6. v[n] = w[n] /\ b \in Nat \ {0}
  BY <1>3, <1>4, <1>0
<1> QED BY <1>2, <1>5, <1>6, NumeralUnique

LEMMA WorthCarries ==
    ASSUME NEW b, NEW M, NEW pw, PowerTable(b, M, pw),
           NEW n \in Nat, n <= M, NEW col, \A i \in 1..n : col[i] \in Nat,
           NEW cy, NEW x, CarriedUp(n, b, col, cy, x)
    PROVE  /\ Digital(n, b, x) /\ cy[n] \in Nat
           /\ Worth(pw, n, col) = Worth(pw, n, x) + cy[n] * pw[n]
<1>0. b \in Nat \ {0} /\ M \in Nat /\ PowersOf(b, M, pw) /\ Weights(M, pw) /\ pw[0] = 1
  BY PowersAre
<1>1. Whole(n, col)
  BY DEF Whole
<1>2. /\ PowersOf(b, n, PowersTo(pw, n)) /\ PowersTo(pw, n)[n] = pw[n]
      /\ Weights(n, pw)
  BY PowersToAre
<1>3. PICK v : Numeral(n, pw, col, v) /\ Worth(pw, n, col) = v[n]
  BY <1>1, <1>2, WorthNumeral
<1>4. cy \in [0..n -> Nat]
  BY DEF CarriedUp
<1>5. Digital(n, b, x)
  <2> SUFFICES ASSUME NEW i \in 1..n PROVE x[i] \in 0..(b - 1)
    BY DEF Digital
  <2> DEFINE s == col[i] + cy[i - 1]
  <2>1. s \in Int /\ x[i] = s % b
    BY <1>4 DEF CarriedUp
  <2> HIDE DEF s
  <2> QED BY <2>1, <1>0, DivMod
<1>6. Whole(n, x)
  BY <1>5, WorthBound
<1>7. PICK w : Numeral(n, pw, x, w) /\ Worth(pw, n, x) = w[n]
  BY <1>2, <1>6, WorthNumeral
<1>8. Numeral(n, PowersTo(pw, n), col, v) /\ Numeral(n, PowersTo(pw, n), x, w)
  BY <1>3, <1>7, PowersToAre
<1>9. \A i \in 0..n : v[i] = w[i] + cy[i] * PowersTo(pw, n)[i]
  BY <1>2, <1>8, <1>0, CarriesKeep
<1>10. v[n] = w[n] + cy[n] * PowersTo(pw, n)[n] /\ cy[n] \in Nat
  BY <1>4, <1>9
<1> QED BY <1>2, <1>3, <1>5, <1>7, <1>10

\* The places of a number from the one after d on.
LEMMA WorthDigits ==
    ASSUME NEW b, NEW M, NEW pw, PowerTable(b, M, pw),
           NEW d \in Nat, NEW n \in Nat, d + n <= M,
           NEW t, Digital(d + n, b, t), NEW x, From(t, d, n, x)
    PROVE  /\ Worth(pw, d + n, t) = Worth(pw, d, t) + pw[d] * Worth(pw, n, x)
           /\ pw[d] \in Nat \ {0} /\ pw[n] \in Nat \ {0}
           /\ Digital(d, b, t) /\ Digital(n, b, x)
           /\ Worth(pw, d, t) \in 0..(pw[d] - 1) /\ Worth(pw, n, x) \in 0..(pw[n] - 1)
<1>0. b \in Nat \ {0} /\ M \in Nat /\ PowersOf(b, M, pw) /\ Weights(M, pw) /\ pw[0] = 1
  BY PowersAre
<1>1. /\ M \in Nat /\ d <= M /\ n <= M
      /\ d + n \in 0..M
  BY <1>0
<1>2. Digital(d, b, t)
  <2>1. \A i \in 1..d : i \in 1..(d + n)
    OBVIOUS
  <2> QED BY <2>1 DEF Digital
<1>3. Digital(n, b, x)
  <2>1. \A i \in 1..n : d + i \in 1..(d + n)
    OBVIOUS
  <2> QED BY <2>1 DEF Digital, From
<1>4. Worth(pw, d, t) \in 0..(pw[d] - 1) /\ pw[d] \in Nat \ {0}
  BY <1>1, <1>2, WorthBound
<1>5. Worth(pw, n, x) \in 0..(pw[n] - 1) /\ pw[n] \in Nat \ {0}
  BY <1>1, <1>3, WorthBound
<1>6. Whole(d + n, t)
  BY <1>1, WorthBound
<1>7. Weights(d + n, pw) /\ pw[0] = 1 /\ Splits(pw, d, n)
  BY <1>1, WeightsFrom, <1>0, PowersSplit
<1>8. /\ Whole(n, x) /\ Whole(d, t) /\ pw[d] \in Nat \ {0}
      /\ Worth(pw, d + n, t) = Worth(pw, d, t) + pw[d] * Worth(pw, n, x)
  BY <1>6, <1>7, WorthSplit
<1> QED BY <1>2, <1>3, <1>4, <1>5, <1>8

\* Sums, as numerals of places that are all worth 1.
Ones == [i \in Nat |-> 1]
Tot(n, x) == Worth(Ones, n, x)

LEMMA OnesAre ==
    ASSUME NEW n \in Nat
    PROVE  Weights(n, Ones) /\ Ones[n] = 1
<1>1. \A i \in Nat : Ones[i] = 1
  BY DEF Ones
<1>2. \A i \in 0..n : i \in Nat
  OBVIOUS
<1> QED BY <1>1, <1>2 DEF Weights

LEMMA TotNone == ASSUME NEW x PROVE Tot(0, x) = 0
<1>1. Ones[0] \in Nat \ {0}
  BY OnesAre
<1> QED BY <1>1, WorthNone DEF Tot

LEMMA TotNext ==
    ASSUME NEW n \in Nat, NEW x, Whole(n + 1, x)
    PROVE  Tot(n + 1, x) = Tot(n, x) + x[n + 1] /\ Tot(n, x) \in Int /\ x[n + 1] \in Int
<1>1. Weights(n + 1, Ones) /\ Ones[n] = 1
  BY OnesAre
<1>2. /\ Tot(n + 1, x) = Tot(n, x) + x[n + 1] * Ones[n] /\ x[n + 1] \in Int
      /\ Tot(n, x) \in Int
  BY <1>1, WorthNext DEF Tot
<1>3. x[n + 1] * Ones[n] = x[n + 1]
  BY <1>1, <1>2
<1> QED BY <1>2, <1>3

\* Columns, from the rows they are added up from.
ColumnTotals(value, terms, last) == [k \in 1..last |-> Tot(terms, value[k])]
Row(value, i, last) == [k \in 1..last |-> value[k][i]]
Table(value, last, m) == \A k \in 1..last : Whole(m, value[k])

LEMMA WorthRows ==
    ASSUME NEW m \in Nat, NEW last \in Nat, NEW pw, Weights(last, pw),
           NEW value, Table(value, last, m),
           NEW g, g[0] = 0,
           \A i \in 0..(m - 1) : g[i + 1] = g[i] + Worth(pw, last, Row(value, i + 1, last))
    PROVE  /\ Whole(last, ColumnTotals(value, m, last))
           /\ Worth(pw, last, ColumnTotals(value, m, last)) = g[m]
<1> DEFINE Col(i) == ColumnTotals(value, i, last)
           S == {i \in 0..m : Whole(last, Col(i)) /\ Worth(pw, last, Col(i)) = g[i]}
<1>1. S \subseteq 0..m /\ 0 \in S
  <2> DEFINE c == Col(0)
  <2>1. \A k \in 1..last : c[k] = 0
    BY TotNone DEF ColumnTotals
  <2> HIDE DEF c
  <2>2. Whole(last, c) /\ Worth(pw, last, c) = 0
    BY <2>1, WorthZero
  <2>3. 0 \in 0..m
    OBVIOUS
  <2> QED BY <2>2, <2>3 DEF c
<1>2. ASSUME NEW i \in 0..(m - 1), i \in S PROVE i + 1 \in S
  <2> DEFINE c == Col(i)
             c1 == Col(i + 1)
             r == Row(value, i + 1, last)
  <2>1. i \in Nat /\ i + 1 \in 0..m /\ i + 1 \in 1..m
    OBVIOUS
  <2>2. ASSUME NEW k \in 1..last PROVE c1[k] = c[k] + r[k] /\ r[k] \in Int
    <3> DEFINE x == value[k]
    <3>1. Whole(m, x)
      BY DEF Table
    <3>2. r[k] = x[i + 1]
      BY DEF Row
    <3>3. c1[k] = Tot(i + 1, x) /\ c[k] = Tot(i, x)
      BY DEF ColumnTotals
    <3> HIDE DEF x
    <3>4. Whole(i + 1, x)
      BY <2>1, <3>1, WholeFrom
    <3>5. Tot(i + 1, x) = Tot(i, x) + x[i + 1] /\ x[i + 1] \in Int
      BY <2>1, <3>4, TotNext
    <3> HIDE DEF c, c1, r
    <3> QED BY <3>2, <3>3, <3>5, Zenon
  <2>3. Whole(last, c) /\ Worth(pw, last, c) = g[i]
    BY <1>2
  <2> HIDE DEF c, c1, r
  <2>4. Whole(last, r)
    BY <2>2 DEF Whole
  <2>5. Whole(last, c1) /\ Worth(pw, last, c1) = Worth(pw, last, c) + Worth(pw, last, r)
    BY <2>2, <2>3, <2>4, WorthPlus
  <2>6. g[i + 1] = g[i] + Worth(pw, last, r)
    BY DEF r
  <2> QED BY <2>1, <2>3, <2>5, <2>6 DEF c1
<1> HIDE DEF S
<1>3. \A i \in 0..m : i \in S
  BY <1>1, <1>2, UpTo
<1>4. m \in S
  BY <1>3
<1> QED BY <1>4 DEF S

\* The terms of the columns of a product of m words by n.
Terms(value, last, m, n, v, w) ==
    \A k \in 1..last : \A i \in 1..m :
        value[k][i] = IF k - i + 1 \in 1..n THEN v[i] * w[k - i + 1] ELSE 0

LEMMA TermsTable ==
    ASSUME NEW m \in Nat, NEW n \in Nat, NEW last \in Nat,
           NEW v, Whole(m, v), NEW w, Whole(n, w),
           NEW value, Terms(value, last, m, n, v, w)
    PROVE  Table(value, last, m)
<1> SUFFICES ASSUME NEW k \in 1..last, NEW j \in 1..m PROVE value[k][j] \in Int
  BY DEF Table, Whole
<1> DEFINE x == value[k]
<1>1. x[j] = IF k - j + 1 \in 1..n THEN v[j] * w[k - j + 1] ELSE 0
  BY DEF Terms
<1>2. CASE k - j + 1 \in 1..n
  <2> DEFINE g == v[j]
             h == w[k - j + 1]
  <2>1. g \in Int /\ h \in Int /\ x[j] = g * h
    BY <1>1, <1>2 DEF Whole
  <2> HIDE DEF g, h
  <2> QED BY <2>1
<1>3. CASE ~(k - j + 1 \in 1..n)
  BY <1>1, <1>3
<1> QED BY <1>2, <1>3

\* A row is the second factor, moved up, times a word of the first.
LEMMA TermsRow ==
    ASSUME NEW b, NEW M, NEW pw, PowerTable(b, M, pw),
           NEW m \in Nat, NEW n \in Nat, NEW last \in Nat, m + n <= last + 1, last <= M,
           NEW v, Whole(m, v), NEW w, Whole(n, w),
           NEW value, Terms(value, last, m, n, v, w), NEW i \in 0..(m - 1)
    PROVE  Worth(pw, last, Row(value, i + 1, last)) = v[i + 1] * (pw[i] * Worth(pw, n, w))
<1>0. M \in Nat /\ Weights(M, pw)
  BY PowersAre
<1> DEFINE a == v[i + 1]
           sh == [k \in 1..last |-> IF k - i \in 1..n THEN w[k - i] ELSE 0]
           r == Row(value, i + 1, last)
<1>1. i \in Nat /\ i + 1 \in 1..m /\ i + n <= last /\ last \in 0..M
  BY <1>0
<1>2. \A k \in 1..last : sh[k] = IF k - i \in 1..n THEN w[k - i] ELSE 0
  OBVIOUS
<1>3. a \in Int
  BY <1>1 DEF Whole
<1>4. ASSUME NEW k \in 1..last PROVE r[k] = a * sh[k]
  <2> DEFINE x == value[k]
             y == w[k - i]
  <2>1. k - (i + 1) + 1 = k - i
    BY <1>1
  <2>2. x[i + 1] = IF k - (i + 1) + 1 \in 1..n THEN v[i + 1] * w[k - (i + 1) + 1] ELSE 0
    BY <1>1, Zenon DEF Terms
  <2>3. x[i + 1] = IF k - i \in 1..n THEN a * y ELSE 0
    BY <2>1, <2>2, Zenon
  <2>4. r[k] = x[i + 1] /\ sh[k] = IF k - i \in 1..n THEN y ELSE 0
    BY DEF Row
  <2>5. a * 0 = 0
    BY <1>3
  <2> HIDE DEF x, y, a, r, sh
  <2> QED BY <2>3, <2>4, <2>5
<1> HIDE DEF sh, r, a
<1>5. Whole(last, sh) /\ Worth(pw, last, sh) = pw[i] * Worth(pw, n, w)
  BY <1>0, <1>1, <1>2, WorthShift
<1>6. Weights(last, pw)
  BY <1>0, <1>1, WeightsFrom
<1>7. Worth(pw, last, r) = a * Worth(pw, last, sh)
  BY <1>3, <1>4, <1>5, <1>6, WorthScale
<1> QED BY <1>5, <1>7, Zenon DEF r, a

LEMMA WorthProduct ==
    ASSUME NEW b, NEW M, NEW pw, PowerTable(b, M, pw),
           NEW m \in Nat, NEW n \in Nat, NEW last \in Nat, m + n <= last + 1, last <= M,
           m <= M, n <= M, NEW v, Whole(m, v), NEW w, Whole(n, w),
           NEW value, Terms(value, last, m, n, v, w)
    PROVE  /\ Whole(last, ColumnTotals(value, m, last))
           /\ Worth(pw, last, ColumnTotals(value, m, last)) = Worth(pw, m, v) * Worth(pw, n, w)
<1>0. M \in Nat /\ Weights(M, pw) /\ pw[0] = 1
  BY PowersAre
<1> DEFINE W == Worth(pw, n, w)
           g == [i \in 0..m |-> Worth(pw, i, v) * W]
<1>1. last \in 0..M /\ m \in 0..M /\ n \in 0..M /\ 0 \in 0..m /\ m \in 0..m
  BY <1>0
<1>2. Weights(last, pw) /\ Weights(m, pw) /\ Weights(n, pw)
  BY <1>0, <1>1, WeightsFrom
<1>3. W \in Int
  BY <1>2, WorthNumeral
<1> HIDE DEF W
<1>4. g[0] = 0
  <2>1. Worth(pw, 0, v) = 0 /\ 0 * W = 0
    BY <1>0, <1>3, WorthNone
  <2> QED BY <1>1, <2>1
<1>5. ASSUME NEW i \in 0..(m - 1)
      PROVE  g[i + 1] = g[i] + Worth(pw, last, Row(value, i + 1, last))
  <2> DEFINE a == v[i + 1]
             p == pw[i]
             X == Worth(pw, i, v)
             X1 == Worth(pw, i + 1, v)
             R == Worth(pw, last, Row(value, i + 1, last))
  <2>1. i \in Nat /\ i + 1 \in 0..m /\ i \in 0..m
    BY <1>1
  <2>2. X1 = X + a * p /\ X \in Int /\ a \in Int /\ p \in Nat \ {0}
    <3>1. Whole(i + 1, v) /\ Weights(i + 1, pw)
      BY <1>2, <2>1, WholeFrom, WeightsFrom
    <3> QED BY <2>1, <3>1, WorthNext
  <2>3. R = a * (p * W)
    BY TermsRow DEF W
  <2>4. g[i + 1] = X1 * W /\ g[i] = X * W
    BY <2>1
  <2> HIDE DEF g, a, p, X, X1, R
  <2>5. (X + a * p) * W = X * W + (a * p) * W /\ (a * p) * W = a * (p * W)
    <3>1. a * p \in Int
      BY <2>2
    <3> QED BY <1>3, <2>2, <3>1, Ring
  <2>6. g[i + 1] = g[i] + R
    BY <2>2, <2>3, <2>4, <2>5, Zenon
  <2> QED BY <2>6 DEF R
<1>6. g[m] = Worth(pw, m, v) * W
  BY <1>1
<1>7. Table(value, last, m)
  BY TermsTable
<1> HIDE DEF g
<1>8. /\ Whole(last, ColumnTotals(value, m, last))
      /\ Worth(pw, last, ColumnTotals(value, m, last)) = g[m]
  BY <1>2, <1>4, <1>5, <1>7, WorthRows
<1> QED BY <1>6, <1>8, Zenon DEF W

-----------------------------------------------------------------------------
(* The digits of a number.                                                 *)

LEMMA RemainderNext ==
    ASSUME NEW p \in Nat \ {0}, NEW b \in Nat \ {0}, NEW m \in Nat
    PROVE  /\ m % (p * b) = (m % p) + ((m \div p) % b) * p
           /\ m \div p = (m \div (p * b)) * b + ((m \div p) % b)
<1> DEFINE q == m \div p
           r == m % p
           e == q \div b
           d == q % b
<1>1. q \in Int /\ r \in 0..(p - 1) /\ m = q * p + r
  BY DivMod
<1> HIDE DEF q, r
<1>2. e \in Int /\ d \in 0..(b - 1) /\ q = e * b + d
  BY <1>1, DivMod
<1> HIDE DEF e, d
<1> DEFINE t == d * p + r
<1>3. t \in 0..(p * b - 1)
  <2>1. d * p >= 0 /\ d * p <= (b - 1) * p
    BY <1>2
  <2>2. (b - 1) * p = p * b - p /\ d * p \in Int /\ p * b \in Int
    BY <1>2, Ring
  <2> QED BY <1>1, <2>1, <2>2
<1>4. m = e * (p * b) + t
  <2>1. (e * b + d) * p = (e * b) * p + d * p /\ (e * b) * p = e * (p * b)
        /\ d * p \in Int /\ e * (p * b) \in Int
    BY <1>2
  <2> QED BY <1>1, <1>2, <2>1
<1>5. p * b \in Nat \ {0}
  OBVIOUS
<1> HIDE DEF t
<1>6. m % (p * b) = t /\ m \div (p * b) = e
  BY <1>2, <1>3, <1>4, <1>5, DivIs
<1>7. t = r + d * p
  BY <1>1, <1>2 DEF t
<1>8. q = (m \div (p * b)) * b + d
  BY <1>2, <1>6
<1> QED BY <1>6, <1>7, <1>8 DEF r, d, q

DigitsOf(b, pw, n, m, x) == \A i \in 1..n : x[i] = (m \div pw[i - 1]) % b

LEMMA WorthDigitsOf ==
    ASSUME NEW b, NEW M, NEW pw, PowerTable(b, M, pw),
           NEW n \in Nat, n <= M, NEW m \in Nat, NEW x, DigitsOf(b, pw, n, m, x)
    PROVE  Digital(n, b, x) /\ Worth(pw, n, x) = m % pw[n] /\ pw[n] \in Nat \ {0}
<1>0. b \in Nat \ {0} /\ M \in Nat /\ PowersOf(b, M, pw) /\ Weights(M, pw) /\ pw[0] = 1
  BY PowersAre
<1> DEFINE S == {i \in 0..n : Worth(pw, i, x) = m % pw[i]}
<1>1. 0 \in 0..n /\ n \in 0..n
  OBVIOUS
<1>2. ASSUME NEW i \in 1..n
      PROVE  x[i] = (m \div pw[i - 1]) % b /\ x[i] \in 0..(b - 1) /\ pw[i - 1] \in Nat \ {0}
  <2>1. pw[i - 1] \in Nat \ {0}
    <3>1. i - 1 \in 0..M
      BY <1>0
    <3> QED BY <1>0, <3>1 DEF Weights
  <2>2. x[i] = (m \div pw[i - 1]) % b
    BY DEF DigitsOf
  <2> DEFINE p == pw[i - 1]
             q == m \div p
  <2>3. q \in Int
    <3>1. p \in Nat \ {0} /\ m \in Int
      BY <2>1
    <3> HIDE DEF p
    <3>2. m \div p \in Int
      BY <3>1, DivMod
    <3> QED BY <3>2
  <2> HIDE DEF q
  <2>4. q % b \in 0..(b - 1)
    BY <1>0, <2>3, DivMod
  <2> QED BY <2>1, <2>2, <2>4 DEF q
<1>3. Digital(n, b, x)
  BY <1>2 DEF Digital
<1>4. S \subseteq 0..n /\ 0 \in S
  <2>1. Worth(pw, 0, x) = 0
    BY <1>0, WorthNone
  <2>2. m % pw[0] = 0
    BY <1>0
  <2> QED BY <1>1, <2>1, <2>2
<1>5. ASSUME NEW i \in 0..(n - 1), i \in S PROVE i + 1 \in S
  <2>1. i \in Nat /\ i + 1 \in 0..n /\ i + 1 \in 1..n /\ i + 1 <= M /\ (i + 1) - 1 = i
        /\ i + 1 \in 0..M
    BY <1>0
  <2>2. Whole(i + 1, x) /\ Weights(i + 1, pw)
    <3>1. Whole(n, x)
      BY <1>3, WorthBound
    <3> QED BY <1>0, <2>1, <3>1, WholeFrom, WeightsFrom
  <2> DEFINE p == pw[i]
  <2>3. Worth(pw, i + 1, x) = Worth(pw, i, x) + x[i + 1] * p
    BY <2>1, <2>2, WorthNext
  <2>4. pw[i + 1] = p * b /\ p \in Nat \ {0}
    BY <2>1, PowerNext
  <2>5. x[i + 1] = (m \div p) % b /\ Worth(pw, i, x) = m % p
    BY <1>2, <1>5, <2>1
  <2> HIDE DEF p
  <2>6. m % (p * b) = (m % p) + ((m \div p) % b) * p
    BY <1>0, <2>4, RemainderNext
  <2>7. Worth(pw, i + 1, x) = m % pw[i + 1]
    BY <2>3, <2>4, <2>5, <2>6, Zenon
  <2> QED BY <2>1, <2>7
<1> HIDE DEF S
<1>6. \A i \in 0..n : i \in S
  BY <1>4, <1>5, UpTo
<1>7. n \in S
  BY <1>1, <1>6
<1>8. pw[n] \in Nat \ {0}
  BY <1>0 DEF Weights
<1> QED BY <1>3, <1>7, <1>8 DEF S

-----------------------------------------------------------------------------
(* The words of a field element.                                           *)

\* Of numerals with the same base, the higher one is the one that is higher in
\* the highest place in which they differ.
Above(n, x, y) ==
    \E i \in 1..n : (\A j \in 1..n : j > i => x[j] = y[j]) /\ x[i] > y[i]

LEMMA WorthCompare ==
    ASSUME NEW b, NEW M, NEW pw, PowerTable(b, M, pw), NEW n \in Nat, n <= M,
           NEW w, Digital(n, b, w), NEW o, Digital(n, b, o)
    PROVE  Above(n, w, o) <=> Worth(pw, n, w) > Worth(pw, n, o)
<1>0. b \in Nat \ {0} /\ M \in Nat /\ Weights(M, pw) /\ pw[0] = 1
  BY PowersAre
<1> DEFINE Tops(m) == Above(m, w, o)
           Part(m, x) == Worth(pw, m, x)
           S == {m \in 0..n : Tops(m) <=> Part(m, w) > Part(m, o)}
<1>1. 0 \in 0..n /\ n \in 0..n
  OBVIOUS
<1>2. \A i \in 1..n : w[i] \in 0..(b - 1) /\ o[i] \in 0..(b - 1)
  BY DEF Digital
<1>w. Whole(n, w) /\ Whole(n, o)
  BY WorthBound
<1>3. S \subseteq 0..n /\ 0 \in S
  <2>1. Part(0, w) = 0 /\ Part(0, o) = 0
    BY <1>0, WorthNone
  <2>2. ~Tops(0)
    BY DEF Above
  <2> QED BY <1>1, <2>1, <2>2
<1>4. ASSUME NEW m \in 0..(n - 1), m \in S PROVE m + 1 \in S
  <2>1. m \in Nat /\ m + 1 \in 0..n /\ m + 1 \in 1..n /\ m + 1 \in 0..M /\ m + 1 <= M /\ m <= M
        /\ m \in 0..n
    BY <1>0, <1>1
  <2>2. Whole(m + 1, w) /\ Whole(m + 1, o) /\ Weights(m + 1, pw)
    BY <1>0, <1>w, <2>1, WholeFrom, WeightsFrom
  <2>3. Digital(m, b, w) /\ Digital(m, b, o)
    BY <1>1, <1>2, <2>1 DEF Digital
  <2> DEFINE a == w[m + 1]
             c == o[m + 1]
             p == pw[m]
             X == Part(m, w)
             Y == Part(m, o)
             X1 == Part(m + 1, w)
             Y1 == Part(m + 1, o)
  <2>4. X1 = X + a * p /\ p \in Nat \ {0}
    BY <2>1, <2>2, WorthNext
  <2>5. Y1 = Y + c * p
    BY <2>1, <2>2, WorthNext
  <2>6. X \in 0..(p - 1) /\ Y \in 0..(p - 1)
    BY <2>1, <2>3, WorthBound
  <2>7. a \in Int /\ c \in Int
    <3>1. a \in 0..(b - 1) /\ c \in 0..(b - 1)
      BY <1>2, <2>1
    <3> QED BY <1>0, <3>1
  <2>8. Tops(m) <=> X > Y
    BY <1>4
  <2>9. Tops(m + 1) <=> (a > c \/ (a = c /\ Tops(m)))
    <3> DEFINE h == m + 1
    <3>1. ASSUME Tops(h) PROVE a > c \/ (a = c /\ Tops(m))
      <4>1. PICK i \in 1..h : (\A j \in 1..h : j > i => w[j] = o[j]) /\ w[i] > o[i]
        BY <3>1 DEF Above
      <4>2. CASE i = m + 1
        BY <4>1, <4>2
      <4>3. CASE i # m + 1
        <5>1. i \in 1..m /\ m + 1 \in 1..(m + 1) /\ m + 1 > i
          BY <2>1, <4>3
        <5>2. a = c
          BY <4>1, <5>1
        <5>3. \A j \in 1..m : j \in 1..(m + 1)
          BY <2>1
        <5>4. Tops(m)
          BY <4>1, <5>1, <5>3 DEF Above
        <5> QED BY <5>2, <5>4
      <4> QED BY <4>2, <4>3
    <3>2. ASSUME a > c PROVE Tops(h)
      <4>1. h \in 1..h /\ \A j \in 1..h : ~(j > h)
        BY <2>1
      <4>2. w[h] > o[h]
        BY <3>2
      <4> HIDE DEF h
      <4> QED BY <4>1, <4>2 DEF Above
    <3>3. ASSUME a = c, Tops(m) PROVE Tops(h)
      <4>1. PICK i \in 1..m : (\A j \in 1..m : j > i => w[j] = o[j]) /\ w[i] > o[i]
        BY <3>3 DEF Above
      <4>2. ASSUME NEW j \in 1..h, j > i PROVE w[j] = o[j]
        <5>1. CASE j = m + 1
          BY <3>3, <5>1
        <5>2. CASE j # m + 1
          BY <2>1, <4>1, <4>2, <5>2
        <5> QED BY <5>1, <5>2
      <4>3. i \in 1..h
        BY <2>1
      <4> HIDE DEF h
      <4> QED BY <4>1, <4>2, <4>3 DEF Above
    <3> QED BY <3>1, <3>2, <3>3
  <2> DEFINE t0 == Tops(m)
             t1 == Tops(m + 1)
  <2>h. (t0 <=> X > Y) /\ (t1 <=> (a > c \/ (a = c /\ t0)))
    BY <2>8, <2>9
  <2> HIDE DEF a, c, p, X, Y, X1, Y1, t0, t1
  <2>10. CASE a > c
    <3>1. a * p >= (c + 1) * p /\ (c + 1) * p = c * p + p /\ c * p \in Int /\ a * p \in Int
      BY <2>4, <2>7, <2>10
    <3>2. X1 > Y1
      BY <2>4, <2>5, <2>6, <3>1
    <3>3. t1
      BY <2>h, <2>10
    <3> QED BY <2>1, <3>2, <3>3 DEF t1, X1, Y1
  <2>11. CASE a < c
    <3>1. c * p >= (a + 1) * p /\ (a + 1) * p = a * p + p /\ c * p \in Int /\ a * p \in Int
      BY <2>4, <2>7, <2>11
    <3>2. ~(X1 > Y1)
      BY <2>4, <2>5, <2>6, <3>1
    <3>3. ~t1
      BY <2>h, <2>7, <2>11
    <3> QED BY <2>1, <3>2, <3>3 DEF t1, X1, Y1
  <2>12. CASE a = c
    <3>1. a * p \in Int /\ a * p = c * p
      BY <2>4, <2>7, <2>12
    <3>2. (X1 > Y1) <=> (X > Y)
      BY <2>4, <2>5, <2>6, <3>1
    <3>3. t1 <=> t0
      BY <2>h, <2>7, <2>12
    <3>4. t1 <=> X1 > Y1
      BY <2>h, <3>2, <3>3
    <3> QED BY <2>1, <3>4 DEF t1, X1, Y1
  <2> QED BY <2>7, <2>10, <2>11, <2>12
<1> HIDE DEF S
<1>5. \A m \in 0..n : m \in S
  BY <1>1, <1>3, <1>4, UpTo
<1>6. n \in S
  BY <1>1, <1>5
<1> QED BY <1>6 DEF S

-----------------------------------------------------------------------------
(* The words of a scalar.                                                  *)

WordPowers == CHOOSE pw : PowersOf(ScalarBase, 2 * ScalarLen, pw)

Val(n, x) == Worth(WordPowers, n, x)

LEMMA ScalarNumbers ==
    /\ ScalarLen \in Nat /\ ScalarBase \in Nat \ {0} /\ ScalarBase > 5 /\ K \in Nat
    /\ ScalarBase % 2 = 0
    /\ ScalarLen >= K + 2 /\ ScalarLen >= 2 * K /\ ScalarLen < ScalarBase
    /\ \A j \in 1..K : Complement[j] \in 0..(ScalarBase - 1)
<1>1. Complement \in Seq(0..(ScalarBase - 1)) /\ K = Len(Complement)
  BY ScalarAssumption DEF K
<1> DEFINE A == 0..(ScalarBase - 1)
<1> HIDE DEF A
<1>2. Complement \in Seq(A)
  BY <1>1 DEF A
<1>3. Len(Complement) \in Nat /\ \A j \in 1..Len(Complement) : Complement[j] \in A
  BY <1>2
<1> QED BY <1>3, ScalarAssumption DEF K, A

LEMMA WordPowersAre ==
    /\ PowerTable(ScalarBase, 2 * ScalarLen, WordPowers)
    /\ PowersOf(ScalarBase, 2 * ScalarLen, WordPowers)
    /\ Weights(2 * ScalarLen, WordPowers) /\ WordPowers[0] = 1
<1>1. ScalarLen \in Nat /\ 2 * ScalarLen \in Nat /\ ScalarBase \in Nat \ {0}
  BY ScalarNumbers
<1>2. PowersOf(ScalarBase, 2 * ScalarLen, WordPowers)
  <2>1. \E pw : PowersOf(ScalarBase, 2 * ScalarLen, pw)
    BY <1>1, PowersExist
  <2> QED BY <2>1, Zenon DEF WordPowers
<1>3. Weights(2 * ScalarLen, WordPowers) /\ WordPowers[0] = 1
  BY <1>2 DEF PowersOf, Weights
<1> QED BY <1>1, <1>2, <1>3 DEF PowerTable

LEMMA WordPowerNext ==
    ASSUME NEW n \in Nat, n + 1 <= 2 * ScalarLen
    PROVE  /\ WordPowers[n] \in Nat \ {0} /\ WordPowers[n + 1] \in Nat \ {0}
           /\ WordPowers[n + 1] = WordPowers[n] * ScalarBase
  BY WordPowersAre, PowerNext

LEMMA WordPowersAdd ==
    ASSUME NEW i \in Nat, NEW j \in Nat, i + j <= 2 * ScalarLen
    PROVE  /\ WordPowers[i + j] = WordPowers[i] * WordPowers[j]
           /\ WordPowers[i] \in Nat \ {0} /\ WordPowers[j] \in Nat \ {0}
           /\ WordPowers[i + j] \in Nat \ {0}
  BY WordPowersAre, PowersAdd

\* What the model calls a power is one.
LEMMA ScalarPowers ==
    \A i \in 0..ScalarLen : ScalarPower(i) = WordPowers[i]
<1> DEFINE S == {i \in 0..ScalarLen : ScalarPower(i) = WordPowers[i]}
<1>1. ScalarLen \in Nat
  BY ScalarNumbers
<1>2. S \subseteq 0..ScalarLen /\ 0 \in S
  <2>1. 0 \in 0..ScalarLen
    BY <1>1
  <2>2. ScalarPower(0) = WordPowers[0]
    BY ScalarPowerAssumption, WordPowersAre, Zenon
  <2> QED BY <2>1, <2>2
<1>3. ASSUME NEW m \in 0..(ScalarLen - 1), m \in S PROVE m + 1 \in S
  <2>1. m \in Nat /\ m + 1 \in 0..ScalarLen /\ m + 1 <= 2 * ScalarLen
    BY <1>1
  <2>2. WordPowers[m + 1] = WordPowers[m] * ScalarBase
    BY <2>1, WordPowerNext
  <2>3. ScalarPower(m + 1) = ScalarPower(m) * ScalarBase
    BY ScalarPowerAssumption, Zenon
  <2>4. ScalarPower(m) = WordPowers[m]
    BY <1>3
  <2>5. ScalarPower(m + 1) = WordPowers[m + 1]
    BY <2>2, <2>3, <2>4, Zenon
  <2> QED BY <2>1, <2>5
<1> HIDE DEF S
<1>4. \A m \in 0..ScalarLen : m \in S
  BY <1>1, <1>2, <1>3, UpTo
<1> QED BY <1>4 DEF S

\* Places that hold 0 above the first n add nothing.
LEMMA ValPad ==
    ASSUME NEW n \in Nat, NEW m \in Nat, n <= m, m <= 2 * ScalarLen, NEW w, Whole(n, w),
           NEW x, Padding(x, m, n, w)
    PROVE  Whole(m, x) /\ Val(m, x) = Val(n, w)
  BY WordPowersAre, WorthPad DEF Val

\* The first term apart.
LEMMA TotFirst ==
    ASSUME NEW n \in Nat, NEW x, Whole(n + 1, x), NEW y, \A i \in 1..n : y[i] = x[i + 1]
    PROVE  Tot(n + 1, x) = x[1] + Tot(n, y) /\ Whole(n, y) /\ Tot(n, y) \in Int
<1>1. 1 + n = n + 1 /\ 0 + 1 = 1 /\ 1 + n \in Nat /\ 1 \in 0..(n + 1) /\ n + 1 \in Nat
  OBVIOUS
<1>2. Weights(1 + n, Ones) /\ Weights(n, Ones) /\ Ones[0] = 1 /\ Ones[1] = 1
  BY <1>1, OnesAre
<1>3. Splits(Ones, 1, n)
  <2>1. ASSUME NEW i \in 0..n PROVE Ones[1 + i] = Ones[1] * Ones[i]
    <3>1. 1 + i \in Nat /\ i \in Nat
      OBVIOUS
    <3>2. Ones[1 + i] = 1 /\ Ones[i] = 1
      BY <3>1, OnesAre
    <3> QED BY <1>2, <3>2
  <2> QED BY <2>1 DEF Splits
<1>4. From(x, 1, n, y)
  <2>1. \A i \in 1..n : 1 + i = i + 1
    OBVIOUS
  <2> QED BY <2>1 DEF From
<1>5. Whole(1 + n, x)
  BY <1>1
<1>6. /\ Worth(Ones, 1 + n, x) = Worth(Ones, 1, x) + Ones[1] * Worth(Ones, n, y)
      /\ Whole(n, y)
  BY <1>1, <1>2, <1>3, <1>4, <1>5, WorthSplit
<1>7. Tot(1, x) = x[1] /\ x[1] \in Int
  <2>1. Whole(0 + 1, x)
    BY <1>1, WholeFrom
  <2>2. Tot(0 + 1, x) = Tot(0, x) + x[0 + 1] /\ x[0 + 1] \in Int
    BY <2>1, TotNext
  <2> QED BY <1>1, <2>2, TotNone
<1>8. Tot(n, y) \in Int
  BY <1>2, <1>6, WorthNumeral DEF Tot
<1>9. Tot(n + 1, x) = Tot(1, x) + Ones[1] * Tot(n, y)
  BY <1>1, <1>6 DEF Tot
<1>10. Tot(n + 1, x) = x[1] + 1 * Tot(n, y)
  BY <1>2, <1>7, <1>9, Zenon
<1> QED BY <1>6, <1>8, <1>10

LEMMA ValBound ==
    ASSUME NEW n \in Nat, n <= 2 * ScalarLen, NEW x, Digital(n, ScalarBase, x)
    PROVE  Whole(n, x) /\ Val(n, x) \in 0..(WordPowers[n] - 1) /\ WordPowers[n] \in Nat \ {0}
  BY WordPowersAre, WorthBound DEF Val

LEMMA ValUnique ==
    ASSUME NEW n \in Nat, n <= 2 * ScalarLen, NEW x, Digital(n, ScalarBase, x),
           NEW y, Digital(n, ScalarBase, y), Val(n, x) = Val(n, y)
    PROVE  \A i \in 1..n : x[i] = y[i]
  BY WordPowersAre, WorthUnique DEF Val

LEMMA ValCarries ==
    ASSUME NEW n \in Nat, n <= 2 * ScalarLen, NEW col, \A i \in 1..n : col[i] \in Nat,
           NEW cy, NEW x, CarriedUp(n, ScalarBase, col, cy, x)
    PROVE  /\ Digital(n, ScalarBase, x) /\ cy[n] \in Nat
           /\ Val(n, col) = Val(n, x) + cy[n] * WordPowers[n]
  BY WordPowersAre, WorthCarries DEF Val

LEMMA ScalarOfDigits ==
    ASSUME NEW m \in Nat
    PROVE  /\ ScalarOf(m) \in [ScalarWords -> 0..(ScalarBase - 1)]
           /\ Digital(ScalarLen, ScalarBase, ScalarOf(m))
           /\ ScalarOf(m)[1] = m % ScalarBase
           /\ Val(ScalarLen, ScalarOf(m)) = m % WordPowers[ScalarLen]
<1> DEFINE w == ScalarOf(m)
<1>1. ScalarLen \in Nat /\ 1 \in ScalarWords /\ ScalarLen <= 2 * ScalarLen
  BY ScalarNumbers DEF ScalarWords
<1>2. ASSUME NEW i \in ScalarWords PROVE w[i] = (m \div WordPowers[i - 1]) % ScalarBase
  <2>1. i - 1 \in 0..ScalarLen
    BY <1>1 DEF ScalarWords
  <2>2. w[i] = (m \div ScalarPower(i - 1)) % ScalarBase
    BY DEF ScalarOf
  <2>3. ScalarPower(i - 1) = WordPowers[i - 1]
    BY <2>1, ScalarPowers
  <2> QED BY <2>2, <2>3, Zenon
<1>3. DigitsOf(ScalarBase, WordPowers, ScalarLen, m, w)
  BY <1>2 DEF DigitsOf, ScalarWords
<1>4. w = [i \in ScalarWords |-> w[i]]
  BY DEF ScalarOf
<1> HIDE DEF w
<1>5. /\ Digital(ScalarLen, ScalarBase, w)
      /\ Worth(WordPowers, ScalarLen, w) = m % WordPowers[ScalarLen]
  BY <1>1, <1>3, WordPowersAre, WorthDigitsOf
<1>6. w \in [ScalarWords -> 0..(ScalarBase - 1)]
  BY <1>4, <1>5 DEF Digital, ScalarWords
<1>7. w[1] = m % ScalarBase
  <2>1. w[1] = (m \div WordPowers[0]) % ScalarBase
    <3>1. w[1] = (m \div WordPowers[1 - 1]) % ScalarBase /\ 1 - 1 = 0
      BY <1>1, <1>2
    <3> QED BY <3>1
  <2>2. WordPowers[0] = 1 /\ m \div 1 = m
    BY WordPowersAre
  <2> QED BY <2>1, <2>2
<1> QED BY <1>5, <1>6, <1>7 DEF w, Val

\* The words of a scalar, and numbers below the power past them.
Full == WordPowers[ScalarLen]
Wordy(w) == w \in [ScalarWords -> 0..(ScalarBase - 1)]
Number(w) == Val(ScalarLen, w)

LEMMA ScalarOfNumber ==
    ASSUME NEW m \in Nat
    PROVE  /\ Full \in Nat \ {0} /\ Wordy(ScalarOf(m))
           /\ m < Full => Number(ScalarOf(m)) = m
<1>1. Full \in Nat \ {0}
  BY ScalarNumbers, WordPowersAre DEF Weights, Full
<1>2. Number(ScalarOf(m)) = m % Full
  BY ScalarOfDigits DEF Number, Full
<1>3. m < Full => m % Full = m
  BY <1>1, ModSmall
<1> QED BY <1>1, <1>2, <1>3, ScalarOfDigits DEF Wordy

LEMMA WordyNumber ==
    ASSUME NEW w, Wordy(w)
    PROVE  /\ Digital(ScalarLen, ScalarBase, w) /\ Whole(ScalarLen, w)
           /\ Number(w) \in 0..(Full - 1) /\ w = ScalarOf(Number(w))
<1>1. ScalarLen \in Nat /\ ScalarLen <= 2 * ScalarLen /\ Full \in Nat \ {0}
  BY ScalarNumbers, WordPowersAre DEF Weights, Full
<1>2. Digital(ScalarLen, ScalarBase, w)
  BY DEF Wordy, Digital, ScalarWords
<1>3. Whole(ScalarLen, w) /\ Number(w) \in 0..(Full - 1)
  BY <1>1, <1>2, ValBound DEF Number, Full
<1> DEFINE m == Number(w)
           u == ScalarOf(m)
<1>4. m \in Nat /\ m < Full /\ m = Number(w)
  BY <1>1, <1>3
<1> HIDE DEF m
<1>5. Digital(ScalarLen, ScalarBase, u) /\ Number(u) = m /\ Wordy(u)
  BY <1>4, ScalarOfDigits, ScalarOfNumber
<1> HIDE DEF u
<1>6. \A i \in 1..ScalarLen : w[i] = u[i]
  <2>1. Val(ScalarLen, w) = Val(ScalarLen, u)
    BY <1>4, <1>5 DEF Number
  <2> QED BY <1>1, <1>2, <1>5, <2>1, ValUnique
<1>7. w = u
  <2>1. w = [i \in ScalarWords |-> w[i]] /\ u = [i \in ScalarWords |-> u[i]]
    BY <1>5 DEF Wordy
  <2> QED BY <1>6, <2>1, Zenon DEF ScalarWords
<1> QED BY <1>2, <1>3, <1>7 DEF u, m

LEMMA ScalarValueIs ==
    ASSUME NEW w, Whole(ScalarLen, w)
    PROVE  ScalarValue(w) = Number(w)
<1> DEFINE n == ScalarLen
           Rec(u) == u = [i \in 0..n |-> IF i = 0 THEN 0 ELSE u[i - 1] + w[i] * ScalarPower(i - 1)]
           u == CHOOSE u : Rec(u)
           g == [i \in 0..n |-> Val(i, w)]
<1>1. n \in Nat /\ 0 \in 0..n /\ n \in 0..n
  BY ScalarNumbers
<1>2. ScalarValue(w) = u[n]
  BY Zenon DEF ScalarValue
<1>3. Val(0, w) = 0
  BY WorthNone, WordPowersAre DEF Val
<1>4. ASSUME NEW m \in 0..(n - 1)
      PROVE  Val(m + 1, w) = Val(m, w) + w[m + 1] * ScalarPower(m)
  <2>1. m \in Nat /\ m + 1 \in 0..n /\ 2 * n \in Nat /\ m + 1 \in 0..(2 * n) /\ m \in 0..n
    BY <1>1
  <2>2. Whole(m + 1, w) /\ Weights(m + 1, WordPowers)
    BY <1>1, <2>1, WholeFrom, WeightsFrom, WordPowersAre
  <2>3. Val(m + 1, w) = Val(m, w) + w[m + 1] * WordPowers[m]
    BY <2>1, <2>2, WorthNext DEF Val
  <2>4. ScalarPower(m) = WordPowers[m]
    BY <2>1, ScalarPowers
  <2> QED BY <2>3, <2>4, Zenon
<1>5. Rec(g)
  <2> DEFINE h == [i \in 0..n |-> IF i = 0 THEN 0 ELSE g[i - 1] + w[i] * ScalarPower(i - 1)]
  <2>1. ASSUME NEW i \in 0..n PROVE g[i] = h[i]
    <3>1. CASE i = 0
      BY <1>1, <1>3, <3>1
    <3>2. CASE i # 0
      <4>1. i - 1 \in 0..(n - 1) /\ (i - 1) + 1 = i /\ i - 1 \in 0..n
        BY <1>1, <3>2
      <4>2. Val((i - 1) + 1, w) = Val(i - 1, w) + w[(i - 1) + 1] * ScalarPower(i - 1)
        BY <1>4, <4>1
      <4>3. h[i] = Val(i - 1, w) + w[i] * ScalarPower(i - 1) /\ g[i] = Val(i, w)
        BY <3>2, <4>1, Zenon
      <4> HIDE DEF g, h
      <4> QED BY <4>1, <4>2, <4>3, Zenon
    <3> QED BY <3>1, <3>2
  <2>2. g = [i \in 0..n |-> g[i]]
    BY Zenon
  <2>3. h = [i \in 0..n |-> h[i]]
    <3> HIDE DEF g
    <3> QED BY Zenon
  <2>4. g = h
    <3> HIDE DEF g, h
    <3> QED BY <2>1, <2>2, <2>3, Zenon
  <2> QED BY <2>4
<1>6. Rec(u)
  BY <1>5, Zenon
<1>7. ASSUME NEW i \in 0..n
      PROVE u[i] = IF i = 0 THEN 0 ELSE u[i - 1] + w[i] * ScalarPower(i - 1)
  <2> HIDE DEF u
  <2> QED BY <1>6, Zenon
<1> HIDE DEF u
<1> DEFINE S == {i \in 0..n : u[i] = Val(i, w)}
<1>8. S \subseteq 0..n /\ 0 \in S
  BY <1>1, <1>3, <1>7
<1>9. ASSUME NEW m \in 0..(n - 1), m \in S PROVE m + 1 \in S
  <2>1. m + 1 \in 0..n /\ m + 1 # 0 /\ (m + 1) - 1 = m
    BY <1>1
  <2>2. u[m + 1] = u[(m + 1) - 1] + w[m + 1] * ScalarPower((m + 1) - 1)
    BY <1>7, <2>1, Zenon
  <2>3. u[m] = Val(m, w)
    BY <1>9
  <2>4. u[m + 1] = Val(m + 1, w)
    BY <1>4, <2>1, <2>2, <2>3, Zenon
  <2> QED BY <2>1, <2>4
<1> HIDE DEF S
<1>10. \A m \in 0..n : m \in S
  BY <1>1, <1>8, <1>9, UpTo
<1>11. n \in S
  BY <1>1, <1>10
<1> QED BY <1>2, <1>11 DEF S, Number

\* Words are compared as the numbers are.
LEMMA ExceedsIs ==
    ASSUME NEW w, Wordy(w), NEW o, Wordy(o)
    PROVE  /\ Exceeds(w, o, FALSE) <=> Number(w) > Number(o)
           /\ Exceeds(w, o, TRUE) <=> Number(w) >= Number(o)
<1> DEFINE Tops(n) == Above(n, w, o)
<1>5. Tops(ScalarLen) <=> Number(w) > Number(o)
  <2>1. ScalarLen \in Nat /\ ScalarLen <= 2 * ScalarLen
    BY ScalarNumbers
  <2>2. Digital(ScalarLen, ScalarBase, w) /\ Digital(ScalarLen, ScalarBase, o)
    BY WordyNumber
  <2> QED BY <2>1, <2>2, WordPowersAre, WorthCompare DEF Number, Val
<1>6. Exceeds(w, o, FALSE) <=> Tops(ScalarLen)
  BY DEF Exceeds, ScalarWords, Above
<1>7. Exceeds(w, o, TRUE) <=> (Tops(ScalarLen) \/ \A j \in ScalarWords : w[j] = o[j])
  <2>1. \A j \in ScalarWords : j > 0
    BY DEF ScalarWords
  <2>2. (\A j \in ScalarWords : j > 0 => w[j] = o[j]) <=> \A j \in ScalarWords : w[j] = o[j]
    BY <2>1
  <2> QED BY <2>2 DEF Exceeds, ScalarWords, Above
<1>8. (\A j \in ScalarWords : w[j] = o[j]) <=> Number(w) = Number(o)
  <2>1. ASSUME \A j \in ScalarWords : w[j] = o[j] PROVE Number(w) = Number(o)
    <3>1. w = [i \in ScalarWords |-> w[i]] /\ o = [i \in ScalarWords |-> o[i]]
      BY DEF Wordy
    <3>2. w = o
      BY <2>1, <3>1, Zenon
    <3> QED BY <3>2
  <2>2. ASSUME Number(w) = Number(o) PROVE w = o
    <3>1. w = ScalarOf(Number(w)) /\ o = ScalarOf(Number(o))
      BY WordyNumber
    <3> QED BY <2>2, <3>1, Zenon
  <2> QED BY <2>1, <2>2
<1> DEFINE x == Number(w)
           y == Number(o)
<1>9. x \in Int /\ y \in Int
  BY WordyNumber, ScalarOfNumber
<1> HIDE DEF x, y, Tops
<1>10. (x >= y) <=> (x > y \/ x = y)
  BY <1>9
<1> QED BY <1>5, <1>6, <1>7, <1>8, <1>10 DEF x, y

LEMMA WordsAreSeq ==
    ASSUME NEW n \in Nat, NEW B, B \subseteq Nat, NEW w \in [1..n -> B]
    PROVE  w \in Seq(Nat)
<1>1. w \in [1..n -> Nat]
  OBVIOUS
<1> QED BY <1>1, SMT

LEMMA SumWordsIs ==
    ASSUME NEW col, \A i \in 1..ScalarLen : col[i] \in Nat
    PROVE  /\ Wordy(SumWords(col).words) /\ SumWords(col).carry \in Nat
           /\ Val(ScalarLen, col) = Number(SumWords(col).words) + SumWords(col).carry * Full
           /\ SumWords(col) \in [words: Seq(Nat), carry: Nat]
<1> DEFINE n == ScalarLen
           b == ScalarBase
           Rec(u) == u = [i \in 0..n |-> IF i = 0 THEN 0 ELSE (col[i] + u[i - 1]) \div b]
           u == CHOOSE u : Rec(u)
<1>1. n \in Nat /\ b \in Nat \ {0} /\ n <= 2 * n /\ n \in 0..n
  BY ScalarNumbers
<1>2. SumWords(col) = [words |-> [i \in ScalarWords |-> (col[i] + u[i - 1]) % b], carry |-> u[n]]
  BY Zenon DEF SumWords
<1>3. \A i \in 1..n : col[i] \in Nat
  OBVIOUS
<1>w. ScalarWords = 1..n
  BY DEF ScalarWords
<1> HIDE DEF n, b
<1> DEFINE A == Nat
           zero == 0
           step == [i \in 1..n |-> [a \in A |-> (col[i] + a) \div b]]
<1>5. \A i \in 1..n : \A a \in Nat : (col[i] + a) \div b \in Nat
  <2> SUFFICES ASSUME NEW i \in 1..n, NEW a \in Nat PROVE (col[i] + a) \div b \in Nat
    OBVIOUS
  <2> DEFINE s == col[i] + a
  <2>1. s \in Nat
    BY <1>1, <1>3
  <2> HIDE DEF s
  <2>2. s \div b \in Nat
    BY <1>1, <2>1
  <2> QED BY <2>2 DEF s
<1>6. step \in [1..n -> [A -> A]] /\ zero \in A
  BY <1>5
<1>7. \A i \in 1..n : \A a \in A : step[i][a] = (col[i] + a) \div b
  OBVIOUS
<1> HIDE DEF step, A, zero
<1>8. PICK fn : Recursion(n, A, zero, step, fn)
  BY <1>1, <1>6, RecursionExists
<1>9. fn \in [0..n -> A] /\ fn[0] = zero /\ \A k \in 1..n : fn[k] = step[k][fn[k - 1]]
  BY <1>8 DEF Recursion
<1>10. ASSUME NEW k \in 1..n PROVE fn[k] = (col[k] + fn[k - 1]) \div b
  <2>1. fn[k - 1] \in A
    BY <1>1, <1>9
  <2> QED BY <1>7, <1>9, <2>1
<1>11. Rec(fn)
  <2> DEFINE g == [i \in 0..n |-> IF i = 0 THEN 0 ELSE (col[i] + fn[i - 1]) \div b]
  <2>1. ASSUME NEW k \in 0..n PROVE fn[k] = g[k]
    <3>1. CASE k = 0
      BY <1>9, <3>1 DEF zero
    <3>2. CASE k # 0
      <4>1. k \in 1..n
        BY <1>1, <3>2
      <4> QED BY <1>10, <3>2, <4>1
    <3> QED BY <3>1, <3>2
  <2>2. fn = [k \in 0..n |-> fn[k]]
    BY <1>9
  <2>3. fn = g
    <3>1. g = [k \in 0..n |-> g[k]]
      BY Zenon
    <3> HIDE DEF g
    <3> QED BY <2>1, <2>2, <3>1
  <2> QED BY <2>3
<1>12. Rec(u)
  BY <1>11, Zenon
<1>13. ASSUME NEW k \in 0..n
       PROVE u[k] = IF k = 0 THEN 0 ELSE (col[k] + u[k - 1]) \div b
  <2> HIDE DEF u
  <2> QED BY <1>12, Zenon
<1>14. u = [i \in 0..n |-> u[i]]
  <2> HIDE DEF u
  <2> QED BY <1>12
<1> HIDE DEF u
<1>15. 0 \in 0..n /\ \A k \in 1..n : k \in 0..n /\ k # 0 /\ k - 1 \in 0..n
  BY <1>1
<1>16. u[0] = 0 /\ \A k \in 1..n : u[k] = (col[k] + u[k - 1]) \div b
  BY <1>13, <1>15
<1>17. \A k \in 0..n : u[k] \in Nat
  <2> DEFINE S == {m \in 0..n : u[m] \in Nat}
  <2>1. S \subseteq 0..n /\ 0 \in S
    BY <1>15, <1>16
  <2>2. ASSUME NEW m \in 0..(n - 1), m \in S PROVE m + 1 \in S
    <3>1. m + 1 \in 1..n /\ (m + 1) - 1 = m /\ u[m] \in Nat /\ m + 1 \in 0..n
      BY <1>1, <2>2
    <3>2. u[m + 1] = (col[m + 1] + u[m]) \div b
      BY <1>16, <3>1
    <3>3. u[m + 1] \in Nat
      BY <1>5, <3>1, <3>2
    <3> QED BY <3>1, <3>3
  <2> HIDE DEF S
  <2>3. \A m \in 0..n : m \in S
    BY <1>1, <2>1, <2>2, UpTo
  <2> QED BY <2>3 DEF S
<1>18. u \in [0..n -> Nat]
  BY <1>14, <1>17
<1> DEFINE w == [i \in 1..n |-> (col[i] + u[i - 1]) % b]
<1>19. \A i \in 1..n : w[i] = (col[i] + u[i - 1]) % b
  OBVIOUS
<1>20. w = [i \in 1..n |-> w[i]]
  OBVIOUS
<1>21. SumWords(col) = [words |-> w, carry |-> u[n]]
  BY <1>2, <1>w
<1> HIDE DEF w
<1>22. CarriedUp(n, b, col, u, w)
  BY <1>16, <1>18, <1>19 DEF CarriedUp
<1>23. Digital(n, b, w) /\ u[n] \in Nat /\ Val(n, col) = Val(n, w) + u[n] * WordPowers[n]
  BY <1>1, <1>3, <1>22, ValCarries DEF n, b
<1>24. Wordy(w) /\ w \in Seq(Nat)
  <2>1. \A i \in 1..n : w[i] \in 0..(b - 1)
    BY <1>23 DEF Digital
  <2> DEFINE B == 0..(b - 1)
  <2>2. B \subseteq Nat
    OBVIOUS
  <2> HIDE DEF B
  <2>3. w \in [1..n -> B]
    BY <1>20, <2>1 DEF B
  <2>4. w \in Seq(Nat)
    BY <1>1, <2>2, <2>3, WordsAreSeq
  <2> QED BY <2>3, <2>4, <1>w DEF Wordy, B, b
<1>25. SumWords(col).words = w /\ SumWords(col).carry = u[n]
  BY <1>21
<1>26. SumWords(col) \in [words: Seq(Nat), carry: Nat]
  BY <1>21, <1>23, <1>24
<1> QED BY <1>23, <1>24, <1>25, <1>26 DEF n, Number, Full

-----------------------------------------------------------------------------
(* The order.                                                              *)

Padded == [i \in ScalarWords |-> IF i <= K + 1 THEN CWord(i) ELSE 0]
Unpadded == [j \in 1..(K + 1) |-> CWord(j)]

LEMMA CWords ==
    \A j \in 1..(K + 1) : CWord(j) \in 0..(ScalarBase - 1)
<1> SUFFICES ASSUME NEW j \in 1..(K + 1) PROVE CWord(j) \in 0..(ScalarBase - 1)
  OBVIOUS
<1>1. CASE j = K + 1
  BY <1>1, ScalarNumbers DEF CWord
<1>2. CASE j # K + 1
  <2>1. j \in 1..K
    BY <1>2, ScalarNumbers
  <2> QED BY <1>2, <2>1, ScalarNumbers DEF CWord
<1> QED BY <1>1, <1>2

LEMMA ComplementIs ==
    /\ Wordy(Padded) /\ Number(Padded) = C /\ Val(K + 1, Unpadded) = C
    /\ Digital(K + 1, ScalarBase, Unpadded)
    /\ WordPowers[K] \in Nat \ {0} /\ C \in Nat
    /\ C >= WordPowers[K] /\ C < 2 * WordPowers[K]
    /\ Full \in Nat \ {0} /\ 36 * WordPowers[K] <= Full
    /\ N = Full - C
<1>1. /\ ScalarLen \in Nat /\ K \in Nat /\ ScalarLen >= K + 2 /\ K + 1 <= 2 * ScalarLen
      /\ K <= 2 * ScalarLen /\ ScalarLen <= 2 * ScalarLen /\ K + 1 \in Nat
      /\ ScalarBase \in Nat \ {0} /\ ScalarBase > 5
  BY ScalarNumbers
<1>2. Wordy(Padded)
  <2>1. ASSUME NEW i \in ScalarWords PROVE Padded[i] \in 0..(ScalarBase - 1)
    <3>1. CASE i <= K + 1
      <4>1. i \in 1..(K + 1)
        BY <1>1, <3>1 DEF ScalarWords
      <4> QED BY <3>1, <4>1, CWords DEF Padded
    <3>2. CASE ~(i <= K + 1)
      BY <1>1, <3>2 DEF Padded
    <3> QED BY <3>1, <3>2
  <2>2. Padded = [i \in ScalarWords |-> Padded[i]]
    BY DEF Padded
  <2> QED BY <2>1, <2>2 DEF Wordy
<1>3. Whole(ScalarLen, Padded)
  BY <1>2, WordyNumber
<1>4. Number(Padded) = C
  BY <1>3, ScalarValueIs DEF C, Padded
<1>5. Digital(K + 1, ScalarBase, Unpadded)
  BY CWords DEF Digital, Unpadded
<1>6. Val(K + 1, Unpadded) = Val(K, Unpadded) + WordPowers[K] /\ WordPowers[K] \in Nat \ {0}
  <2>1. K + 1 \in 0..(2 * ScalarLen) /\ 2 * ScalarLen \in Nat
    BY <1>1
  <2>2. Whole(K + 1, Unpadded) /\ Weights(K + 1, WordPowers)
    BY <1>1, <1>5, <2>1, ValBound, WeightsFrom, WordPowersAre
  <2>3. Val(K + 1, Unpadded) = Val(K, Unpadded) + Unpadded[K + 1] * WordPowers[K]
        /\ WordPowers[K] \in Nat \ {0}
    BY <1>1, <2>2, WorthNext DEF Val
  <2>4. Unpadded[K + 1] = 1
    BY <1>1 DEF Unpadded, CWord
  <2> QED BY <2>3, <2>4
<1>7. Val(K, Unpadded) \in 0..(WordPowers[K] - 1)
  <2>1. Digital(K, ScalarBase, Unpadded)
    BY <1>1, <1>5 DEF Digital
  <2> QED BY <1>1, <2>1, ValBound
<1>8. Val(K + 1, Unpadded) = Number(Padded)
  <2>1. Whole(K + 1, Unpadded)
    BY <1>1, <1>5, ValBound
  <2>2. Padding(Padded, ScalarLen, K + 1, Unpadded)
    BY <1>1 DEF Unpadded, Padded, ScalarWords, Padding
  <2>3. K + 1 <= ScalarLen
    BY <1>1
  <2> QED BY <1>1, <2>1, <2>2, <2>3, ValPad DEF Number
<1>9. Full \in Nat \ {0} /\ 36 * WordPowers[K] <= Full
  <2> DEFINE m == ScalarLen - (K + 2)
  <2>1. m \in Nat /\ (K + 2) + m = ScalarLen /\ K + 2 \in Nat /\ (K + 1) + 1 = K + 2
        /\ (K + 2) + m <= 2 * ScalarLen /\ K + 1 + 1 <= 2 * ScalarLen
    BY <1>1
  <2> HIDE DEF m
  <2>2. WordPowers[K + 1] = WordPowers[K] * ScalarBase
    BY <1>1, WordPowerNext
  <2>3. WordPowers[(K + 1) + 1] = WordPowers[K + 1] * ScalarBase
    BY <1>1, <2>1, WordPowerNext
  <2>4. WordPowers[(K + 2) + m] = WordPowers[K + 2] * WordPowers[m]
        /\ WordPowers[m] \in Nat \ {0} /\ WordPowers[K + 2] \in Nat \ {0}
        /\ WordPowers[(K + 2) + m] \in Nat \ {0}
    BY <2>1, WordPowersAdd
  <2> DEFINE p == WordPowers[K]
             q == WordPowers[K + 2]
             r == WordPowers[m]
             b == ScalarBase
  <2>5. q = (p * b) * b /\ Full = q * r /\ Full \in Nat \ {0}
    BY <2>1, <2>2, <2>3, <2>4 DEF Full
  <2>6. p \in Nat \ {0} /\ r \in Nat \ {0} /\ b \in Nat /\ b >= 6
    BY <1>1, <1>6, <2>4
  <2> HIDE DEF p, q, r, b
  <2>7. p * b >= p * 6 /\ p * b \in Nat
    BY <2>6
  <2> DEFINE e == p * b
  <2>8. e \in Nat /\ e >= 6 * p
    BY <2>6, <2>7
  <2> HIDE DEF e
  <2>9. e * b >= e * 6 /\ e * b \in Nat
    BY <2>6, <2>8
  <2>10. q >= 36 * p /\ q \in Nat
    BY <2>5, <2>6, <2>8, <2>9 DEF e
  <2>11. q * r >= q
    BY <2>6, <2>10
  <2>12. 36 * p <= Full
    BY <2>5, <2>6, <2>10, <2>11
  <2> QED BY <2>5, <2>12 DEF p
<1>10. N = Full - C
  <2>1. ScalarLen \in 0..ScalarLen
    BY <1>1
  <2> QED BY <2>1, ScalarPowers DEF N, Full
<1> DEFINE p == WordPowers[K]
           v == Val(K, Unpadded)
<1>11. p \in Nat \ {0} /\ v \in 0..(p - 1) /\ C = v + p
  BY <1>4, <1>6, <1>7, <1>8
<1> HIDE DEF p, v
<1>12. C \in Nat /\ C >= p /\ C < 2 * p
  BY <1>11
<1> QED BY <1>2, <1>4, <1>5, <1>8, <1>9, <1>10, <1>11, <1>12 DEF p

LEMMA OrderIs ==
    /\ C \in Nat \ {0} /\ Full \in Nat \ {0} /\ N \in Nat \ {0} /\ Full = N + C
    /\ 6 * C <= Full /\ 5 * C <= N /\ N > 1 /\ N < Full
    /\ Wordy(Order) /\ Number(Order) = N
    /\ Wordy(HalfOrder) /\ Number(HalfOrder) = N \div 2
    /\ Wordy(Zero) /\ Number(Zero) = 0
<1> DEFINE p == WordPowers[K]
<1>1. p \in Nat \ {0} /\ C \in Nat /\ C >= p /\ C < 2 * p /\ Full \in Nat \ {0}
      /\ 36 * p <= Full /\ N = Full - C
  BY ComplementIs
<1> HIDE DEF p
<1>2. C \in Nat \ {0} /\ N \in Nat \ {0} /\ Full = N + C /\ 6 * C <= Full /\ 5 * C <= N
      /\ N > 1 /\ N < Full
  BY <1>1
<1>3. N \div 2 \in Nat /\ N \div 2 < Full /\ 0 < Full
  BY <1>2
<1> QED BY <1>1, <1>2, <1>3, ScalarOfNumber DEF Order, HalfOrder, Zero

LEMMA OverflowsIs ==
    ASSUME NEW w, Wordy(w)
    PROVE  overflows(w) = IF Number(w) >= N THEN 1 ELSE 0
<1>1. Exceeds(w, Order, TRUE) <=> Number(w) >= N
  BY OrderIs, ExceedsIs
<1> QED BY <1>1, Zenon DEF overflows

LEMMA Reduce256Is ==
    ASSUME NEW w, Wordy(w), NEW over \in {0, 1}
    PROVE  reduce256(w, over) = ScalarOf((Number(w) + over * C) % Full)
<1> DEFINE col == [i \in ScalarWords |-> w[i] + (IF i <= K + 1 THEN over * CWord(i) ELSE 0)]
           z == [i \in ScalarWords |-> over * Padded[i]]
           s == SumWords(col)
<1>1. ScalarLen \in Nat /\ ScalarWords = 1..ScalarLen /\ Weights(ScalarLen, WordPowers)
  <2>1. ScalarLen \in 0..(2 * ScalarLen) /\ 2 * ScalarLen \in Nat /\ ScalarLen \in Nat
    BY ScalarNumbers
  <2> QED BY <2>1, WeightsFrom, WordPowersAre DEF ScalarWords
<1>2. Wordy(Padded) /\ Number(Padded) = C
  BY ComplementIs
<1>3. \A i \in ScalarWords : w[i] \in Nat /\ Padded[i] \in Nat
  BY <1>2, ScalarNumbers DEF Wordy
<1>4. ASSUME NEW i \in ScalarWords PROVE col[i] = w[i] + z[i] /\ z[i] = over * Padded[i]
  <2>1. Padded[i] = IF i <= K + 1 THEN CWord(i) ELSE 0
    BY DEF Padded
  <2>2. over * 0 = 0
    OBVIOUS
  <2> QED BY <2>1, <2>2
<1>5. \A i \in ScalarWords : z[i] \in Nat
  <2> SUFFICES ASSUME NEW i \in ScalarWords PROVE over * Padded[i] \in Nat
    OBVIOUS
  <2> DEFINE a == Padded[i]
  <2>1. a \in Nat
    BY <1>3
  <2> HIDE DEF a
  <2>2. over * a \in Nat
    BY <2>1
  <2> QED BY <2>2 DEF a
<1> HIDE DEF col, z
<1>6. \A i \in 1..ScalarLen : col[i] = w[i] + z[i] /\ z[i] = over * Padded[i] /\ col[i] \in Nat
  BY <1>1, <1>3, <1>4, <1>5
<1>7. Whole(ScalarLen, w) /\ Whole(ScalarLen, Padded) /\ Number(w) \in 0..(Full - 1)
      /\ Full \in Nat \ {0} /\ C \in Nat
  BY <1>2, WordyNumber, ComplementIs
<1>8. Whole(ScalarLen, z) /\ Val(ScalarLen, z) = over * C
  <2>1. over \in Int /\ (\A i \in 1..ScalarLen : z[i] = over * Padded[i])
        /\ ScalarLen \in Nat /\ Weights(ScalarLen, WordPowers) /\ Whole(ScalarLen, Padded)
    BY <1>1, <1>6, <1>7
  <2>2. Whole(ScalarLen, z) /\ Worth(WordPowers, ScalarLen, z) = over * Worth(WordPowers, ScalarLen, Padded)
    BY <2>1, WorthScale
  <2> QED BY <1>2, <2>2, Zenon DEF Val, Number
<1>9. Val(ScalarLen, col) = Number(w) + over * C
  BY <1>1, <1>6, <1>7, <1>8, WorthPlus DEF Val, Number
<1>10. Wordy(s.words) /\ s.carry \in Nat /\ Val(ScalarLen, col) = Number(s.words) + s.carry * Full
  BY <1>6, SumWordsIs
<1>11. reduce256(w, over) = s.words
  BY Zenon DEF reduce256, col
<1> DEFINE u == s.words
           c == s.carry
           T == Number(w) + over * C
<1>12. Wordy(u) /\ c \in Nat /\ T = c * Full + Number(u)
  <2> DEFINE m == Number(u)
             g == c * Full
  <2>1. m \in 0..(Full - 1)
    BY <1>10, WordyNumber
  <2>2. c \in Nat
    BY <1>10
  <2>3. g \in Int
    <3> HIDE DEF c
    <3> QED BY <1>7, <2>2
  <2>4. T = m + g
    BY <1>9, <1>10, Zenon
  <2> HIDE DEF m, g, T
  <2>5. T = g + m
    BY <1>7, <2>1, <2>3, <2>4
  <2> QED BY <1>10, <2>5 DEF g, m
<1> HIDE DEF T, u, c
<1>13. Number(u) \in 0..(Full - 1) /\ u = ScalarOf(Number(u))
  BY <1>12, WordyNumber
<1>14. T % Full = Number(u)
  <2> DEFINE r == Number(u)
  <2>1. r \in 0..(Full - 1) /\ c \in Int /\ Full \in Nat \ {0} /\ T = c * Full + r
    BY <1>7, <1>12, <1>13
  <2> HIDE DEF r
  <2>2. (c * Full + r) % Full = r
    BY <2>1, DivIs
  <2> QED BY <2>1, <2>2, Zenon DEF r
<1> QED BY <1>11, <1>13, <1>14, Zenon DEF T, u

\* A total below twice the order is reduced by one subtraction.
LEMMA FinalIs ==
    ASSUME NEW col, \A i \in 1..ScalarLen : col[i] \in Nat, NEW T, T = Val(ScalarLen, col),
           T < 2 * N
    PROVE  Final(col) = ScalarOf(T % N) /\ T \in Nat
<1> DEFINE s == SumWords(col)
           u == s.words
           c == s.carry
           m == Number(u)
           over == c + overflows(u)
<1>1. Wordy(u) /\ c \in Nat /\ Val(ScalarLen, col) = m + c * Full
      /\ s \in [words: Seq(Nat), carry: Nat]
  BY SumWordsIs
<1>2. Final(col) = reduce256(u, over)
  <2>1. Final(col) = Subtracted[s]
    BY DEF Final
  <2> HIDE DEF s
  <2>2. Subtracted[s] = reduce256(s.words, s.carry + overflows(s.words))
    BY <1>1 DEF Subtracted, WordsAndCarry
  <2> QED BY <2>1, <2>2
<1>3. overflows(u) = IF m >= N THEN 1 ELSE 0
  BY <1>1, OverflowsIs
<1>4. m \in 0..(Full - 1)
  BY <1>1, WordyNumber
<1>5. C \in Nat \ {0} /\ N \in Nat \ {0} /\ Full = N + C /\ 5 * C <= N /\ Full \in Nat \ {0}
  BY OrderIs
<1>6. Wordy(u) /\ c \in Nat /\ T = m + c * Full
  BY <1>1
<1> HIDE DEF s, u, c, m
<1>7. c < 2
  <2> SUFFICES ASSUME c >= 2 PROVE FALSE
    BY <1>6
  <2>1. c * Full >= 2 * Full
    BY <1>5, <1>6
  <2> QED BY <1>4, <1>5, <1>6, <2>1
<1>8. (c = 0 /\ T = m) \/ (c = 1 /\ T = m + Full)
  BY <1>4, <1>5, <1>6, <1>7
<1>9. T \in Nat
  BY <1>4, <1>5, <1>8
<1>10. /\ over \in {0, 1}
       /\ (over = 0 /\ T < N /\ m = T) \/ (over = 1 /\ T >= N /\ m + C = (T - N) + (1 - c) * Full)
  BY <1>3, <1>4, <1>5, <1>8
<1> DEFINE r == (m + over * C) % Full
<1>11. Final(col) = ScalarOf(r)
  <2>1. reduce256(u, over) = ScalarOf((Number(u) + over * C) % Full)
    BY <1>6, <1>10, Reduce256Is
  <2> QED BY <1>2, <2>1 DEF m
<1> HIDE DEF over
<1>12. r = T % N
  <2>1. CASE over = 0
    <3>1. m + over * C = T /\ T \in 0..(N - 1) /\ T \in 0..(Full - 1)
      BY <1>4, <1>5, <1>9, <1>10, <2>1
    <3>2. T % N = T /\ T % Full = T
      BY <1>5, <3>1, ModSmall
    <3> QED BY <3>1, <3>2
  <2>2. CASE over = 1
    <3> DEFINE d == T - N
               e == 1 - c
    <3>1. m + over * C = d + e * Full /\ e \in {0, 1} /\ d \in 0..(N - 1) /\ d \in 0..(Full - 1)
          /\ T = N + d
      BY <1>4, <1>5, <1>8, <1>9, <1>10, <2>2
    <3> HIDE DEF d, e
    <3>2. (e * Full + d) % Full = d
      <4>1. e \in Int /\ d \in 0..(Full - 1) /\ Full \in Nat \ {0}
        BY <1>5, <3>1
      <4> QED BY <4>1, DivIs
    <3>3. (1 * N + d) % N = d
      BY <1>5, <3>1, DivIs
    <3>4. e * Full \in Int /\ d \in Int
      BY <1>5, <3>1
    <3>5. m + over * C = e * Full + d /\ T = 1 * N + d
      BY <1>5, <3>1, <3>4
    <3> QED BY <3>2, <3>3, <3>5, Zenon
  <2> QED BY <1>10, <2>1, <2>2
<1> QED BY <1>9, <1>11, <1>12

Residues == 0..(N - 1)

LEMMA ResidueWords ==
    ASSUME NEW n \in Residues
    PROVE  n \in Nat /\ Wordy(ScalarOf(n)) /\ Number(ScalarOf(n)) = n
           /\ Whole(ScalarLen, ScalarOf(n))
           /\ \A i \in 1..ScalarLen : ScalarOf(n)[i] \in 0..(ScalarBase - 1)
                                      /\ ScalarOf(n)[i] \in Nat
<1>1. n \in Nat /\ n < Full
  BY OrderIs DEF Residues
<1>2. Wordy(ScalarOf(n)) /\ Number(ScalarOf(n)) = n
  BY <1>1, ScalarOfNumber
<1>3. \A i \in 1..ScalarLen : ScalarOf(n)[i] \in 0..(ScalarBase - 1)
  BY <1>2 DEF Wordy, ScalarWords
<1>4. \A x \in 0..(ScalarBase - 1) : x \in Nat
  BY ScalarNumbers
<1> QED BY <1>1, <1>2, <1>3, <1>4, WordyNumber

LEMMA ScalarAdd2Is ==
    ASSUME NEW n \in Residues, NEW m \in Residues
    PROVE  ScalarAdd2(ScalarOf(n), ScalarOf(m)) = ScalarOf((n + m) % N)
<1> DEFINE v == ScalarOf(n)
           w == ScalarOf(m)
           col == [i \in ScalarWords |-> v[i] + w[i]]
<1>1. /\ n \in Nat /\ Number(v) = n /\ Whole(ScalarLen, v)
      /\ \A i \in 1..ScalarLen : v[i] \in Nat
  BY ResidueWords
<1>2. /\ m \in Nat /\ Number(w) = m /\ Whole(ScalarLen, w)
      /\ \A i \in 1..ScalarLen : w[i] \in Nat
  BY ResidueWords
<1>3. ScalarAdd2(v, w) = Final(col)
  BY DEF ScalarAdd2
<1> HIDE DEF v, w
<1>4. \A i \in 1..ScalarLen : col[i] = v[i] + w[i]
  BY DEF ScalarWords
<1>5. ScalarLen \in Nat /\ Weights(ScalarLen, WordPowers)
  <2>1. ScalarLen \in 0..(2 * ScalarLen) /\ 2 * ScalarLen \in Nat /\ ScalarLen \in Nat
    BY ScalarNumbers
  <2> QED BY <2>1, WeightsFrom, WordPowersAre
<1> HIDE DEF col
<1>6. Val(ScalarLen, col) = n + m
  BY <1>1, <1>2, <1>4, <1>5, WorthPlus DEF Val, Number
<1>7. \A i \in 1..ScalarLen : col[i] \in Nat
  BY <1>1, <1>2, <1>4
<1>8. n + m < 2 * N /\ N \in Nat
  BY <1>1, <1>2, OrderIs DEF Residues
<1>9. Final(col) = ScalarOf((n + m) % N)
  BY <1>6, <1>7, <1>8, FinalIs
<1> QED BY <1>3, <1>9 DEF v, w

LEMMA ScalarSetBytesIs ==
    ASSUME NEW n \in 0..(Full - 1)
    PROVE  /\ ScalarSetBytes(n).words = ScalarOf(n % N) /\ n % N \in Residues
           /\ n < N => ScalarSetBytes(n) = [words |-> ScalarOf(n), overflow |-> 0]
<1> DEFINE w == ScalarOf(n)
           over == overflows(w)
           r == (n + over * C) % Full
<1>1. C \in Nat \ {0} /\ N \in Nat \ {0} /\ Full = N + C /\ 5 * C <= N /\ Full \in Nat \ {0}
  BY OrderIs
<1>2. Wordy(w) /\ Number(w) = n /\ n \in Nat /\ n < Full
  BY <1>1, ScalarOfNumber
<1>3. over = IF n >= N THEN 1 ELSE 0
  BY <1>2, OverflowsIs
<1>4. ScalarSetBytes(n) = [words |-> reduce256(w, over), overflow |-> over]
  BY DEF ScalarSetBytes
<1>5. over \in {0, 1}
  BY <1>3
<1>6. reduce256(w, over) = ScalarOf(r)
  BY <1>2, <1>5, Reduce256Is
<1> HIDE DEF w, over
<1>7. CASE n < N
  <2>1. over = 0 /\ n + over * C = n /\ n \in 0..(N - 1) /\ n \in 0..(Full - 1)
    BY <1>1, <1>2, <1>3, <1>7
  <2>2. n % N = n /\ n % Full = n
    BY <1>1, <2>1, ModSmall
  <2>3. r = n
    BY <2>1, <2>2
  <2> HIDE DEF r
  <2> QED BY <1>4, <1>6, <2>1, <2>2, <2>3 DEF Residues
<1>8. CASE n >= N
  <2> DEFINE d == n - N
  <2>1. over = 1 /\ n + over * C = 1 * Full + d /\ d \in 0..(N - 1) /\ d \in 0..(Full - 1)
        /\ n = 1 * N + d
    BY <1>1, <1>2, <1>3, <1>8
  <2> HIDE DEF d
  <2>2. (1 * Full + d) % Full = d
    BY <1>1, <2>1, DivIs
  <2>3. (1 * N + d) % N = d
    BY <1>1, <2>1, DivIs
  <2>4. r = d /\ n % N = d
    BY <2>1, <2>2, <2>3, Zenon
  <2> HIDE DEF r
  <2>5. ~(n < N)
    BY <1>1, <1>2, <1>8
  <2> QED BY <1>4, <1>6, <2>1, <2>4, <2>5 DEF Residues
<1>9. n < N \/ n >= N
  BY <1>1, <1>2
<1> QED BY <1>7, <1>8, <1>9

\* Words that are all the highest: one less than the next power.
LEMMA ScalarNegateValIs ==
    ASSUME NEW n \in Residues
    PROVE  ScalarNegateVal(ScalarOf(n)) = ScalarOf((N - n) % N) /\ (N - n) % N \in Residues
<1> DEFINE v == ScalarOf(n)
           b == ScalarBase
           col == [i \in ScalarWords |-> Order[i] + (b - 1 - v[i]) + (IF i = 1 THEN 1 ELSE 0)]
<1>1. /\ n \in Nat /\ Number(v) = n /\ Whole(ScalarLen, v) /\ Wordy(v)
      /\ \A i \in 1..ScalarLen : v[i] \in 0..(b - 1)
  BY ResidueWords
<1>2. N \in Nat \ {0} /\ N < Full /\ Full \in Nat \ {0} /\ Wordy(Order) /\ Number(Order) = N
      /\ Number(Zero) = 0 /\ Wordy(Zero)
  BY OrderIs
<1>3. \A i \in 1..ScalarLen : Order[i] \in 0..(b - 1)
  BY <1>2 DEF Wordy, ScalarWords
<1>4. (v = Zero) <=> n = 0
  <2>1. Zero = ScalarOf(0)
    BY DEF Zero
  <2>2. n = 0 => v = Zero
    BY <2>1
  <2>3. v = Zero => Number(v) = Number(Zero)
    BY Zenon
  <2>4. v = Zero => n = 0
    BY <1>1, <1>2, <2>3
  <2> QED BY <2>2, <2>4
<1>5. ScalarNegateVal(v) = IF v = Zero THEN Zero ELSE SumWords(col).words
  BY DEF ScalarNegateVal
<1>6. CASE n = 0
  <2>1. (N - n) % N = 0
    BY <1>2, <1>6
  <2>2. 0 \in Residues
    BY <1>2 DEF Residues
  <2> QED BY <1>4, <1>5, <1>6, <2>1, <2>2 DEF Zero
<1>7. CASE n # 0
  <2>1. N - n \in 0..(N - 1) /\ N - n \in 0..(Full - 1)
    BY <1>1, <1>2, <1>7 DEF Residues
  <2>2. (N - n) % N = N - n
    BY <1>2, <2>1, ModSmall
  <2> HIDE DEF v
  <2>3. \A i \in 1..ScalarLen : col[i] = Order[i] + (b - 1 - v[i]) + (IF i = 1 THEN 1 ELSE 0)
    BY DEF ScalarWords
  <2>4. b \in Nat \ {0} /\ ScalarLen \in Nat /\ ScalarLen > 1
    BY ScalarNumbers
  <2> HIDE DEF b, col
  <2>5. \A i \in 1..ScalarLen : col[i] \in Nat
    BY <1>1, <1>3, <2>3, <2>4
  <2>6. Whole(ScalarLen, col)
    BY <2>5 DEF Whole
  <2>7. Whole(ScalarLen, Order)
    BY <1>2, WordyNumber
  <2> DEFINE S == {m \in 0..ScalarLen : m > 0 =>
                     Val(m, col) = Val(m, Order) + WordPowers[m] - Val(m, v)}
  <2>8. S \subseteq 0..ScalarLen /\ 0 \in S
    BY <2>4
  <2>9. ASSUME NEW m \in 0..(ScalarLen - 1), m \in S PROVE m + 1 \in S
    <3>1. /\ m \in Nat /\ m + 1 \in 0..ScalarLen /\ m + 1 \in 1..ScalarLen /\ m + 1 <= 2 * ScalarLen
          /\ m + 1 \in 0..(2 * ScalarLen) /\ 2 * ScalarLen \in Nat /\ m <= 2 * ScalarLen
      BY <2>4
    <3>2. Whole(m + 1, col) /\ Whole(m + 1, Order) /\ Whole(m + 1, v) /\ Weights(m + 1, WordPowers)
      BY <1>1, <2>4, <2>6, <2>7, <3>1, WholeFrom, WeightsFrom, WordPowersAre
    <3> DEFINE a == Order[m + 1]
               e == v[m + 1]
               g == col[m + 1]
               p == WordPowers[m]
               X == Val(m, Order)
               Y == Val(m, v)
               Z == Val(m, col)
               X1 == Val(m + 1, Order)
               Y1 == Val(m + 1, v)
               Z1 == Val(m + 1, col)
               p1 == WordPowers[m + 1]
    <3>3. X1 = X + a * p /\ X \in Int /\ a \in Int /\ p \in Nat \ {0}
      BY <3>1, <3>2, WorthNext DEF Val
    <3>4. Y1 = Y + e * p /\ Y \in Int /\ e \in Int
      BY <3>1, <3>2, WorthNext DEF Val
    <3>5. Z1 = Z + g * p /\ Z \in Int /\ g \in Int
      BY <3>1, <3>2, WorthNext DEF Val
    <3>6. g = a + (b - 1 - e) + (IF m = 0 THEN 1 ELSE 0)
      <4>1. (m + 1 = 1) <=> m = 0
        BY <3>1
      <4> QED BY <2>3, <3>1, <4>1
    <3>7. p1 = p * b
      BY <3>1, WordPowerNext DEF b
    <3>8. m > 0 => Z = X + p - Y
      BY <2>9
    <3>9. m = 0 => X = 0 /\ Y = 0 /\ Z = 0 /\ p = 1
      <4>1. Val(0, Order) = 0 /\ Val(0, v) = 0 /\ Val(0, col) = 0
        BY WorthNone, WordPowersAre DEF Val
      <4> QED BY <4>1, WordPowersAre
    <3> HIDE DEF a, e, g, p, X, Y, Z, X1, Y1, Z1, p1
    <3>10. a * p \in Int /\ e * p \in Int /\ p * b \in Int
           /\ (a + (b - 1 - e)) * p = ((a * p + p * b) - p) - e * p
      <4>1. a * p \in Int /\ e * p \in Int /\ p * b \in Int
        BY <2>4, <3>3, <3>4
      <4>2. (a + (b - 1 - e)) * p = a * p + (b - 1 - e) * p
        BY <2>4, <3>3, <3>4
      <4>3. (b - 1 - e) * p = (p * b - p) - e * p
        BY <2>4, <3>3, <3>4
      <4> QED BY <3>3, <4>1, <4>2, <4>3
    <3>11. Z1 = X1 + p1 - Y1
      <4>1. CASE m = 0
        <5>1. p = 1 /\ g = a + (b - 1 - e) + 1 /\ g * 1 = g /\ a * 1 = a /\ e * 1 = e /\ 1 * b = b
          BY <2>4, <3>3, <3>4, <3>5, <3>6, <3>9, <4>1
        <5>2. Z1 = g /\ X1 = a /\ Y1 = e /\ p1 = b
          BY <3>3, <3>4, <3>5, <3>7, <3>9, <4>1, <5>1
        <5> QED BY <2>4, <3>3, <3>4, <5>1, <5>2
      <4>2. CASE m # 0
        <5>1. m > 0 /\ g = a + (b - 1 - e)
          BY <2>4, <3>1, <3>3, <3>4, <3>6, <4>2
        <5>2. g * p = ((a * p + p * b) - p) - e * p
          BY <3>10, <5>1
        <5> DEFINE ap == a * p
                   ep == e * p
                   pb == p * b
                   gp == g * p
        <5>3. /\ Z1 = Z + gp /\ X1 = X + ap /\ Y1 = Y + ep /\ p1 = pb /\ Z = X + p - Y
              /\ gp = ((ap + pb) - p) - ep /\ ap \in Int /\ ep \in Int /\ pb \in Int
          BY <3>3, <3>4, <3>5, <3>7, <3>8, <3>10, <5>1, <5>2
        <5> HIDE DEF ap, ep, pb, gp
        <5> QED BY <3>3, <3>4, <5>3
      <4> QED BY <4>1, <4>2
    <3> QED BY <3>1, <3>11 DEF X1, Y1, Z1, p1
  <2> HIDE DEF S
  <2>10. \A m \in 0..ScalarLen : m \in S
    BY <2>4, <2>8, <2>9, UpTo
  <2>11. ScalarLen \in S /\ ScalarLen > 0
    BY <2>4, <2>10
  <2>12. Val(ScalarLen, col) = N + Full - n
    BY <1>1, <1>2, <2>11 DEF S, Number, Full
  <2> DEFINE s == SumWords(col)
             u == s.words
             c == s.carry
             m == Number(u)
  <2>13. Wordy(u) /\ c \in Nat /\ N + Full - n = m + c * Full
    BY <2>5, <2>12, SumWordsIs
  <2>14. m \in 0..(Full - 1) /\ u = ScalarOf(m)
    BY <2>13, WordyNumber
  <2> HIDE DEF s, u, c, m
  <2>15. (c * Full + m) % Full = m
    <3>1. c \in Int /\ Full \in Nat \ {0}
      BY <1>2, <2>13
    <3> QED BY <2>14, <3>1, DivIs
  <2>16. (1 * Full + (N - n)) % Full = N - n
    <3> DEFINE d == N - n
    <3>1. d \in 0..(Full - 1) /\ 1 \in Int /\ Full \in Nat \ {0}
      BY <1>2, <2>1
    <3> HIDE DEF d
    <3>2. (1 * Full + d) % Full = d
      BY <3>1, DivIs
    <3> QED BY <3>2 DEF d
  <2>17. c * Full + m = 1 * Full + (N - n)
    <3>1. c * Full \in Int
      BY <1>2, <2>13
    <3> QED BY <1>1, <1>2, <2>13, <2>14, <3>1
  <2>18. m = N - n
    BY <2>15, <2>16, <2>17
  <2>19. ScalarNegateVal(ScalarOf(n)) = u
    BY <1>4, <1>5, <1>7 DEF u, s, col, v, b
  <2> QED BY <2>1, <2>2, <2>14, <2>18, <2>19 DEF Residues
<1> QED BY <1>6, <1>7

-----------------------------------------------------------------------------
(* The three words in which a column is added up.                          *)

Triples == (0..(ScalarBase - 1)) \X (0..(ScalarBase - 1)) \X (0..(ScalarBase - 1))
Acc(a) == a[1] + (a[2] + a[3] * ScalarBase) * ScalarBase
Most == (ScalarBase - 1) * (ScalarBase - 1)

LEMMA TriplesAre ==
    ASSUME NEW a \in Triples
    PROVE  /\ a[1] \in 0..(ScalarBase - 1) /\ a[2] \in 0..(ScalarBase - 1)
           /\ a[3] \in 0..(ScalarBase - 1) /\ a \in Seq(Nat) /\ a = <<a[1], a[2], a[3]>>
<1> DEFINE D == 0..(ScalarBase - 1)
<1>1. D \subseteq Nat
  BY ScalarNumbers
<1>2. a \in D \X D \X D
  BY DEF Triples
<1> HIDE DEF D
<1>3. a[1] \in D /\ a[2] \in D /\ a[3] \in D /\ a = <<a[1], a[2], a[3]>>
  BY <1>2
<1>4. <<a[1], a[2], a[3]>> \in Seq(Nat)
  BY <1>1, <1>3
<1> QED BY <1>3, <1>4 DEF D

LEMMA TripleIs ==
    ASSUME NEW x \in 0..(ScalarBase - 1), NEW y \in 0..(ScalarBase - 1),
           NEW z \in 0..(ScalarBase - 1)
    PROVE  <<x, y, z>> \in Triples /\ Acc(<<x, y, z>>) = x + (y + z * ScalarBase) * ScalarBase
BY DEF Triples, Acc

LEMMA AccAddIs ==
    ASSUME NEW a \in Triples, NEW v \in 0..Most,
           Acc(a) + v < (ScalarBase * ScalarBase) * ScalarBase
    PROVE  AccAdd(v)[a] \in Triples /\ Acc(AccAdd(v)[a]) = Acc(a) + v
<1> DEFINE b == ScalarBase
           a1 == a[1]
           a2 == a[2]
           a3 == a[3]
           q == v \div b
           low == v % b
           n0 == (a1 + low) % b
           c0 == IF n0 < low THEN 1 ELSE 0
           hi == q + c0
           n1 == (a2 + hi) % b
           c1 == IF n1 < hi THEN 1 ELSE 0
           n2 == (a3 + c1) % b
<1>1. b \in Nat \ {0} /\ b > 5
  BY ScalarNumbers
<1>2. a1 \in 0..(b - 1) /\ a2 \in 0..(b - 1) /\ a3 \in 0..(b - 1) /\ a \in Seq(Nat)
  BY TriplesAre
<1>3. AccAdd(v)[a] = <<n0, n1, n2>>
  BY <1>2 DEF AccAdd
<1>4. v \in Nat /\ v <= (b - 1) * (b - 1)
  BY <1>1 DEF Most
<1>5. a1 + (a2 + a3 * b) * b + v < (b * b) * b /\ Acc(a) = a1 + (a2 + a3 * b) * b
  BY DEF Acc
<1> HIDE DEF b, a1, a2, a3
<1>6. q \in Int /\ low \in 0..(b - 1) /\ v = q * b + low
  BY <1>1, <1>4, DivMod
<1> HIDE DEF q, low
<1>7. q \in 0..(b - 2)
  <2>1. (b - 1) * (b - 1) = (b - 2) * b + 1 /\ (b - 2) * b \in Int
    <3>1. (b - 1) * (b - 1) = b * b - b - b + 1 /\ (b - 2) * b = b * b - b - b /\ b * b \in Int
      BY <1>1
    <3> QED BY <1>1, <3>1
  <2>2. q < b - 1
    <3> SUFFICES ASSUME q >= b - 1 PROVE FALSE
      BY <1>1, <1>6
    <3>1. q * b >= (b - 1) * b
      BY <1>1, <1>6
    <3>2. (b - 1) * b = (b - 2) * b + b
      BY <1>1
    <3> DEFINE qb == q * b
               d == (b - 2) * b
    <3>3. qb >= d + b /\ v = qb + low /\ v <= d + 1 /\ d \in Int /\ qb \in Int
      BY <1>1, <1>4, <1>6, <2>1, <3>1, <3>2
    <3> HIDE DEF qb, d
    <3> QED BY <1>1, <1>6, <3>3
  <2>3. q >= 0
    <3> SUFFICES ASSUME q <= -1 PROVE FALSE
      BY <1>6
    <3>1. q * b <= -b
      BY <1>1, <1>6
    <3> DEFINE qb == q * b
    <3>2. qb <= -b /\ v = qb + low /\ qb \in Int
      BY <1>1, <1>6, <3>1
    <3> HIDE DEF qb
    <3> QED BY <1>1, <1>4, <1>6, <3>2
  <2> QED BY <1>1, <1>6, <2>2, <2>3
<1>8. n0 \in 0..(b - 1) /\ c0 \in {0, 1} /\ a1 + low = n0 + c0 * b
  <2>1. CASE a1 + low < b
    <3>1. n0 = a1 + low
      <4> DEFINE s == a1 + low
      <4>1. s \in 0..(b - 1)
        BY <1>1, <1>2, <1>6, <2>1
      <4> HIDE DEF s
      <4>2. s % b = s
        BY <1>1, <4>1, ModSmall
      <4> QED BY <4>2 DEF s
    <3> HIDE DEF n0
    <3> QED BY <1>1, <1>2, <1>6, <2>1, <3>1
  <2>2. CASE a1 + low >= b
    <3> DEFINE d == a1 + low - b
    <3>1. d \in 0..(b - 1) /\ a1 + low = 1 * b + d /\ d < low
      BY <1>1, <1>2, <1>6, <2>2
    <3> HIDE DEF d
    <3>2. (1 * b + d) % b = d
      BY <1>1, <3>1, DivIs
    <3>3. n0 = d
      BY <3>1, <3>2, Zenon
    <3> HIDE DEF n0
    <3> QED BY <1>1, <1>2, <1>6, <3>1, <3>3
  <2> QED BY <1>1, <1>2, <1>6, <2>1, <2>2
<1> HIDE DEF n0, c0
<1>9. hi \in 0..(b - 1)
  BY <1>1, <1>7, <1>8
<1> HIDE DEF hi
<1>10. n1 \in 0..(b - 1) /\ c1 \in {0, 1} /\ a2 + hi = n1 + c1 * b
  <2>1. CASE a2 + hi < b
    <3>1. n1 = a2 + hi
      <4> DEFINE s == a2 + hi
      <4>1. s \in 0..(b - 1)
        BY <1>1, <1>2, <1>9, <2>1
      <4> HIDE DEF s
      <4>2. s % b = s
        BY <1>1, <4>1, ModSmall
      <4> QED BY <4>2 DEF s
    <3> HIDE DEF n1
    <3> QED BY <1>1, <1>2, <1>9, <2>1, <3>1
  <2>2. CASE a2 + hi >= b
    <3> DEFINE d == a2 + hi - b
    <3>1. d \in 0..(b - 1) /\ a2 + hi = 1 * b + d /\ d < hi
      BY <1>1, <1>2, <1>9, <2>2
    <3> HIDE DEF d
    <3>2. (1 * b + d) % b = d
      BY <1>1, <3>1, DivIs, SMTT(30)
    <3>3. n1 = d
      BY <3>1, <3>2, Zenon
    <3> HIDE DEF n1
    <3> QED BY <1>1, <1>2, <1>9, <3>1, <3>3
  <2> QED BY <1>1, <1>2, <1>9, <2>1, <2>2
<1> HIDE DEF n1, c1
<1> DEFINE e == a3 + c1
           B2 == b * b
<1>11. a1 + (a2 + a3 * b) * b + v = n0 + (n1 + e * b) * b /\ e * B2 = (e * b) * b
       /\ (n1 + e * b) * b \in Int /\ (n1 + e * b) * b = n1 * b + e * B2
       /\ n1 * b \in Int /\ e * B2 \in Int
  <2>0. hi = q + c0
    BY DEF hi
  <2>1. /\ (a2 + a3 * b) * b = a2 * b + a3 * B2 /\ (n1 + e * b) * b = n1 * b + e * B2
        /\ e * B2 = a3 * B2 + c1 * B2 /\ (e * b) * b = e * B2
    BY <1>1, <1>2, <1>10
  <2>2. (a2 + hi) * b = n1 * b + c1 * B2 /\ (a2 + hi) * b = a2 * b + q * b + c0 * b
    <3>1. (a2 + hi) * b = (n1 + c1 * b) * b
      BY <1>10
    <3>2. (n1 + c1 * b) * b = n1 * b + c1 * B2
      BY <1>1, <1>10
    <3>3. (a2 + (q + c0)) * b = a2 * b + q * b + c0 * b
      BY <1>1, <1>2, <1>7, <1>8
    <3> QED BY <2>0, <3>1, <3>2, <3>3
  <2>3. /\ a2 * b \in Int /\ a3 * B2 \in Int /\ n1 * b \in Int /\ c1 * B2 \in Int
        /\ q * b \in Int /\ c0 * b \in Int /\ e * B2 \in Int
    BY <1>1, <1>2, <1>7, <1>8, <1>10
  <2> DEFINE t1 == a2 * b
             t2 == a3 * B2
             t3 == n1 * b
             t4 == c1 * B2
             t5 == q * b
             t6 == c0 * b
             t7 == e * B2
             t8 == (a2 + a3 * b) * b
             t9 == (n1 + e * b) * b
  <2>4. /\ t8 = t1 + t2 /\ t9 = t3 + t7 /\ t7 = t2 + t4 /\ t3 + t4 = t1 + t5 + t6
        /\ v = t5 + low /\ a1 + low = n0 + t6
    BY <1>6, <1>8, <2>1, <2>2
  <2>5. t1 \in Int /\ t2 \in Int /\ t3 \in Int /\ t4 \in Int /\ t5 \in Int /\ t6 \in Int
        /\ t7 \in Int
    BY <2>3
  <2> HIDE DEF t1, t2, t3, t4, t5, t6, t7, t8, t9, e
  <2>6. a1 + t8 + v = n0 + t9 /\ t9 \in Int /\ t9 = t3 + t7
    BY <1>2, <1>6, <1>8, <2>4, <2>5, SMTT(30)
  <2> QED BY <2>1, <2>3, <2>6 DEF t3, t7, t8, t9
<1>12. e \in 0..(b - 1)
  <2>1. e \in 0..b
    BY <1>1, <1>2, <1>10
  <2>2. e # b
    <3> SUFFICES ASSUME e = b PROVE FALSE
      OBVIOUS
    <3> DEFINE g == n1 * b
               h == (b * b) * b
               t == a1 + (a2 + a3 * b) * b + v
    <3>1. e * B2 = h /\ h \in Int /\ g >= 0 /\ g \in Int
      BY <1>1, <1>10
    <3>2. t < h /\ t = n0 + (g + e * B2)
      BY <1>5, <1>11
    <3> HIDE DEF g, h, t, e, B2
    <3> QED BY <1>8, <3>1, <3>2
  <2> QED BY <1>1, <2>1, <2>2
<1>13. n2 = e
  BY <1>1, <1>12, ModSmall
<1> HIDE DEF n2, e
<1>14. <<n0, n1, n2>> \in Triples /\ Acc(<<n0, n1, n2>>) = n0 + (n1 + n2 * b) * b
  BY <1>8, <1>10, <1>12, <1>13, TripleIs DEF b
<1> QED BY <1>3, <1>5, <1>11, <1>13, <1>14, Zenon

LEMMA Rsh32Is ==
    ASSUME NEW a \in Triples
    PROVE  /\ Rsh32(a) \in Triples /\ Acc(Rsh32(a)) = Acc(a) \div ScalarBase
           /\ Acc(Rsh32(a)) \in 0..(ScalarBase * ScalarBase - 1)
           /\ a[1] = Acc(a) % ScalarBase /\ Acc(a) \in Nat
<1> DEFINE b == ScalarBase
           a1 == a[1]
           a2 == a[2]
           a3 == a[3]
           h == a2 + a3 * b
<1>1. b \in Nat \ {0} /\ b > 5 /\ 0 \in 0..(b - 1)
  BY ScalarNumbers
<1>2. a1 \in 0..(b - 1) /\ a2 \in 0..(b - 1) /\ a3 \in 0..(b - 1)
  BY TriplesAre
<1>3. Rsh32(a) = <<a2, a3, 0>> /\ Acc(a) = a1 + h * b
  BY DEF Rsh32, Acc
<1>4. <<a2, a3, 0>> \in Triples /\ Acc(<<a2, a3, 0>>) = a2 + (a3 + 0 * b) * b
  BY <1>1, <1>2, TripleIs
<1> HIDE DEF b, a1, a2, a3
<1>5. a2 + (a3 + 0 * b) * b = h
  BY <1>1, <1>2
<1>6. h \in 0..(b * b - 1)
  <2>1. a3 * b >= 0 /\ a3 * b <= (b - 1) * b /\ (b - 1) * b = b * b - b /\ a3 * b \in Int
        /\ b * b \in Int
    BY <1>1, <1>2
  <2> QED BY <1>1, <1>2, <2>1
<1> HIDE DEF h
<1>7. h \in Int /\ h >= 0
  <2>1. b * b \in Int
    BY <1>1
  <2> QED BY <1>6, <2>1
<1>8. (h * b + a1) \div b = h /\ (h * b + a1) % b = a1
  BY <1>1, <1>2, <1>7, DivIs
<1>9. h * b \in Nat /\ a1 + h * b = h * b + a1 /\ a1 + h * b \in Nat
  <2>1. h * b \in Nat
    BY <1>1, <1>7
  <2> QED BY <1>2, <2>1
<1>10. Rsh32(a) \in Triples /\ Acc(Rsh32(a)) = h
  BY <1>3, <1>4, <1>5, Zenon
<1>11. Acc(a) \div b = h /\ Acc(a) % b = a1 /\ Acc(a) \in Nat
  BY <1>3, <1>8, <1>9, Zenon
<1> QED BY <1>6, <1>10, <1>11 DEF b, a1

LEMMA CubeRoom ==
    /\ Most \in Nat
    /\ \A t \in 0..(ScalarBase - 1) :
           (ScalarBase * ScalarBase - 1) + t * Most < (ScalarBase * ScalarBase) * ScalarBase
<1> DEFINE b == ScalarBase
           e == Most
           B2 == b * b
           d == b - 1
<1>1. b \in Nat \ {0} /\ b > 5
  BY ScalarNumbers
<1>2. e = d * d
  BY DEF Most
<1> HIDE DEF b, e
<1>3. d \in Nat /\ b = d + 1 /\ d > 1
  BY <1>1
<1> HIDE DEF d
<1>4. e \in Nat /\ e = d * d
  BY <1>2, <1>3
<1>5. b * b = e + d + d + 1
  BY <1>3, <1>4
<1>6. (b * b) * b = (b * b) * d + b * b
  BY <1>3
<1>7. (b * b) * d = e * d + d * d + d * d + d
  BY <1>3, <1>4, <1>5
<1>8. ASSUME NEW t \in 0..d PROVE (b * b - 1) + t * e < (b * b) * b
  <2>1. t * e <= d * e /\ d * e = e * d /\ d * e \in Int /\ t * e \in Int
    BY <1>3, <1>4
  <2> DEFINE te == t * e
             de == d * e
             bb == b * b
             bd == (b * b) * d
             b3 == (b * b) * b
  <2>2. te <= de /\ de \in Int /\ te \in Int /\ bb = e + d + d + 1 /\ b3 = bd + bb
        /\ bd = de + e + e + d
    BY <1>4, <1>5, <1>6, <1>7, <2>1
  <2> HIDE DEF te, de, bb, bd, b3
  <2>3. (bb - 1) + te < b3
    BY <1>3, <1>4, <2>2
  <2> QED BY <2>3 DEF bb, te, b3
<1> QED BY <1>4, <1>8 DEF b, e, d

\* What the terms of a column add up to is at most Most for each.
LEMMA TotIs ==
    ASSUME NEW n \in Nat, n <= 2 * ScalarLen, NEW x, \A i \in 1..n : x[i] \in 0..Most
    PROVE  /\ Whole(n, x) /\ Tot(0, x) = 0
           /\ \A i \in 0..n : Tot(i, x) \in Nat /\ Tot(i, x) <= i * Most
           /\ \A i \in 0..(n - 1) : Tot(i + 1, x) = Tot(i, x) + x[i + 1]
<1>1. Most \in Nat /\ ScalarLen \in Nat
  BY CubeRoom, ScalarNumbers
<1>2. Whole(n, x)
  BY <1>1 DEF Whole
<1>3. Tot(0, x) = 0
  BY TotNone
<1>4. ASSUME NEW i \in 0..(n - 1) PROVE Tot(i + 1, x) = Tot(i, x) + x[i + 1]
  <2>1. i \in Nat /\ i + 1 \in 0..n /\ i + 1 <= 2 * ScalarLen
    BY <1>1
  <2>2. Whole(i + 1, x)
    BY <1>2, <2>1, WholeFrom
  <2> QED BY <2>1, <2>2, TotNext
<1> DEFINE S == {i \in 0..n : Tot(i, x) \in Nat /\ Tot(i, x) <= i * Most}
<1>5. S \subseteq 0..n /\ 0 \in S
  BY <1>1, <1>3
<1>6. ASSUME NEW i \in 0..(n - 1), i \in S PROVE i + 1 \in S
  <2> DEFINE T == Tot(i, x)
             a == x[i + 1]
             e == Most
             t == Tot(i + 1, x)
             ie == i * e
  <2>1. T \in Nat /\ T <= ie /\ i + 1 \in 1..n /\ i + 1 \in 0..n /\ t = T + a
    BY <1>4, <1>6
  <2>2. a \in Nat /\ a <= e /\ e \in Nat
    BY <1>1, <2>1
  <2>3. (i + 1) * e = ie + e /\ ie \in Int
    BY <1>1
  <2> HIDE DEF T, a, t, ie
  <2>4. t \in Nat /\ t <= ie + e
    BY <2>1, <2>2, <2>3
  <2> HIDE DEF e
  <2> QED BY <2>1, <2>3, <2>4 DEF t, e
<1> HIDE DEF S
<1>7. \A i \in 0..n : i \in S
  BY <1>5, <1>6, UpTo
<1> QED BY <1>2, <1>3, <1>4, <1>7 DEF S

LEMMA AccumulatedIs ==
    ASSUME NEW n \in 0..(ScalarBase - 1), n <= 2 * ScalarLen,
           NEW x, \A i \in 1..n : x[i] \in 0..Most,
           NEW a \in Triples, Acc(a) \in 0..(ScalarBase * ScalarBase - 1)
    PROVE  Accumulated(x, n)[a] \in Triples /\ Acc(Accumulated(x, n)[a]) = Acc(a) + Tot(n, x)
<1> DEFINE Rec(u) == u = [i \in 0..n |-> IF i = 0 THEN a ELSE AccAdd(x[i])[u[i - 1]]]
           u == CHOOSE u : Rec(u)
           V == (ScalarBase * ScalarBase) * ScalarBase
           A == {t \in Triples : TRUE}
           B2 == ScalarBase * ScalarBase - 1
<1>1. n \in Nat /\ n <= ScalarBase - 1 /\ n \in 0..n /\ 0 \in 0..n /\ n \in 0..(2 * ScalarLen)
  BY ScalarNumbers
<1>2. /\ Tot(0, x) = 0 /\ \A i \in 0..n : Tot(i, x) \in Nat /\ Tot(i, x) <= i * Most
      /\ \A i \in 0..(n - 1) : Tot(i + 1, x) = Tot(i, x) + x[i + 1]
  BY <1>1, TotIs
<1>3. a \in Seq(Nat)
  BY TriplesAre
<1>4. Accumulated(x, n)[a] = u[n]
  BY <1>3, Zenon DEF Accumulated
<1> DEFINE Right(i, t) == t \in Triples /\ Acc(t) = Acc(a) + Tot(i, x)
<1>5. ASSUME NEW i \in 1..n, NEW t, Right(i - 1, t)
      PROVE  Right(i, AccAdd(x[i])[t])
  <2>1. i - 1 \in 0..(n - 1) /\ (i - 1) + 1 = i /\ i \in 0..(ScalarBase - 1) /\ i \in 0..n
    BY <1>1, ScalarNumbers
  <2>2. Tot((i - 1) + 1, x) = Tot(i - 1, x) + x[(i - 1) + 1]
    BY <1>2, <2>1
  <2>3. Tot(i, x) = Tot(i - 1, x) + x[i] /\ Tot(i, x) <= i * Most /\ Tot(i, x) \in Nat
        /\ Tot(i - 1, x) \in Nat
    <3>1. i - 1 \in 0..n
      BY <1>1
    <3> QED BY <1>2, <2>1, <2>2, <3>1
  <2>4. B2 + i * Most < V
    BY <2>1, CubeRoom
  <2> DEFINE ca == Acc(a)
             ct == Acc(t)
             e == x[i]
             T0 == Tot(i - 1, x)
             T1 == Tot(i, x)
             m == i * Most
  <2>5. ca \in 0..B2 /\ ct = ca + T0 /\ T1 = T0 + e /\ T1 <= m /\ B2 + m < V /\ T0 \in Nat
        /\ T1 \in Nat
    BY <1>5, <2>3, <2>4
  <2>6. e \in 0..Most
    OBVIOUS
  <2>7. e \in Nat /\ m \in Int /\ B2 \in Int /\ V \in Int
    <3>1. ScalarBase \in Int /\ Most \in Nat
      BY ScalarNumbers, CubeRoom
    <3> QED BY <2>6, <3>1
  <2> HIDE DEF ca, ct, e, T0, T1, m, V, B2
  <2>8. ct + e < V /\ ct + e = ca + T1
    BY <2>5, <2>7
  <2>9. t \in Triples
    BY <1>5
  <2>10. AccAdd(e)[t] \in Triples /\ Acc(AccAdd(e)[t]) = Acc(t) + e
    BY <2>6, <2>8, <2>9, AccAddIs DEF ct, V
  <2> QED BY <2>8, <2>10 DEF ca, ct, e, T1
<1> HIDE DEF Right
<1> DEFINE fn0 == [i \in 0..n |-> 0]
           S == {m \in 0..n : \E g : /\ DOMAIN g = 0..m /\ g = [i \in 0..m |-> g[i]] /\ g[0] = a
                                     /\ \A i \in 1..m : g[i] = AccAdd(x[i])[g[i - 1]]}
<1>6. S \subseteq 0..n /\ 0 \in S
  <2> DEFINE g == [i \in 0..0 |-> a]
  <2>1. DOMAIN g = 0..0 /\ g = [i \in 0..0 |-> g[i]] /\ g[0] = a
        /\ \A i \in 1..0 : g[i] = AccAdd(x[i])[g[i - 1]]
    OBVIOUS
  <2> HIDE DEF g
  <2>2. \E h : /\ DOMAIN h = 0..0 /\ h = [i \in 0..0 |-> h[i]] /\ h[0] = a
               /\ \A i \in 1..0 : h[i] = AccAdd(x[i])[h[i - 1]]
    BY <2>1, Zenon
  <2> QED BY <1>1, <2>2
<1>7. ASSUME NEW m \in 0..(n - 1), m \in S PROVE m + 1 \in S
  <2>1. PICK h : /\ DOMAIN h = 0..m /\ h = [i \in 0..m |-> h[i]] /\ h[0] = a
                 /\ \A i \in 1..m : h[i] = AccAdd(x[i])[h[i - 1]]
    BY <1>7, Zenon
  <2> DEFINE last == AccAdd(x[m + 1])[h[m]]
             g == [i \in 0..(m + 1) |-> IF i = m + 1 THEN last ELSE h[i]]
  <2>2. last = AccAdd(x[m + 1])[h[m]]
    OBVIOUS
  <2> HIDE DEF last
  <2>3. DOMAIN g = 0..(m + 1) /\ g = [i \in 0..(m + 1) |-> g[i]]
    OBVIOUS
  <2>4. g[0] = a
    <3>1. 0 \in 0..(m + 1) /\ 0 # m + 1
      BY <1>1
    <3> QED BY <2>1, <3>1
  <2>5. ASSUME NEW i \in 1..(m + 1) PROVE g[i] = AccAdd(x[i])[g[i - 1]]
    <3>1. CASE i = m + 1
      <4>1. g[i] = last /\ g[i - 1] = h[m]
        BY <1>1, <3>1
      <4> HIDE DEF g
      <4> QED BY <2>2, <3>1, <4>1, Zenon
    <3>2. CASE i # m + 1
      <4>1. g[i] = h[i] /\ g[i - 1] = h[i - 1] /\ i \in 1..m
        BY <1>1, <3>2
      <4> HIDE DEF g
      <4> QED BY <2>1, <4>1, Zenon
    <3> QED BY <3>1, <3>2
  <2> HIDE DEF g
  <2>6. \E k : /\ DOMAIN k = 0..(m + 1) /\ k = [i \in 0..(m + 1) |-> k[i]] /\ k[0] = a
               /\ \A i \in 1..(m + 1) : k[i] = AccAdd(x[i])[k[i - 1]]
    BY <2>3, <2>4, <2>5, Zenon
  <2>7. m + 1 \in 0..n
    BY <1>1
  <2> QED BY <2>6, <2>7
<1> HIDE DEF S
<1>8. \A m \in 0..n : m \in S
  BY <1>1, <1>6, <1>7, UpTo
<1>9. n \in S
  BY <1>1, <1>8
<1>10. PICK fn : fn = [i \in 0..n |-> fn[i]] /\ fn[0] = a
                 /\ \A i \in 1..n : fn[i] = AccAdd(x[i])[fn[i - 1]]
  BY <1>9, Zenon DEF S
<1>11. Rec(fn)
  <2> DEFINE g == [i \in 0..n |-> IF i = 0 THEN a ELSE AccAdd(x[i])[fn[i - 1]]]
  <2>1. ASSUME NEW k \in 0..n PROVE fn[k] = g[k]
    <3>1. CASE k = 0
      BY <1>10, <3>1
    <3>2. CASE k # 0
      <4>1. k \in 1..n
        BY <1>1, <3>2
      <4> QED BY <1>10, <3>2, <4>1
    <3> QED BY <3>1, <3>2
  <2>2. g = [k \in 0..n |-> g[k]]
    BY Zenon
  <2>3. fn = g
    <3> HIDE DEF g
    <3> QED BY <1>10, <2>1, <2>2, Zenon
  <2> QED BY <2>3
<1>12. Rec(u)
  BY <1>11, Zenon
<1>13. ASSUME NEW k \in 0..n
       PROVE u[k] = IF k = 0 THEN a ELSE AccAdd(x[k])[u[k - 1]]
  <2> HIDE DEF u
  <2> QED BY <1>12, Zenon
<1> HIDE DEF u
<1> DEFINE R == {m \in 0..n : Right(m, u[m])}
<1>14. R \subseteq 0..n /\ 0 \in R
  <2>1. u[0] = a
    BY <1>1, <1>13
  <2>2. Acc(a) + 0 = Acc(a)
    <3>1. Acc(a) \in Int
      BY Rsh32Is
    <3> QED BY <3>1
  <2>3. Right(0, a)
    BY <1>2, <2>2 DEF Right
  <2> QED BY <1>1, <2>1, <2>3
<1>15. ASSUME NEW m \in 0..(n - 1), m \in R PROVE m + 1 \in R
  <2>1. m + 1 \in 1..n /\ m + 1 \in 0..n /\ m + 1 # 0 /\ (m + 1) - 1 = m
    BY <1>1
  <2>2. u[m + 1] = AccAdd(x[m + 1])[u[(m + 1) - 1]]
    BY <1>13, <2>1, Zenon
  <2>3. Right((m + 1) - 1, u[m])
    BY <1>15, <2>1
  <2>4. Right(m + 1, AccAdd(x[m + 1])[u[m]])
    BY <1>5, <2>1, <2>3
  <2>5. Right(m + 1, u[m + 1])
    BY <2>1, <2>2, <2>4
  <2> QED BY <2>1, <2>5
<1> HIDE DEF R
<1>16. \A m \in 0..n : m \in R
  BY <1>1, <1>14, <1>15, UpTo
<1>17. n \in R
  BY <1>1, <1>16
<1>18. Right(n, u[n])
  BY <1>17 DEF R
<1> QED BY <1>4, <1>18 DEF Right

LEMMA ColumnWordsIs ==
    ASSUME NEW terms \in 0..(ScalarBase - 1), terms <= 2 * ScalarLen,
           NEW last \in Nat, last <= 2 * ScalarLen,
           NEW value, \A k \in 1..last : \A i \in 1..terms : value[k][i] \in 0..Most,
           NEW T, T = Val(last, ColumnTotals(value, terms, last)), T < WordPowers[last]
    PROVE  LET z == ColumnWords(value, terms, last) IN
           z \in Seq(Nat) /\ Digital(last, ScalarBase, z) /\ Val(last, z) = T
<1> DEFINE n == last
           b == ScalarBase
           zero == <<0, 0, 0>>
           Rec(u) == u = [k \in 0..n |-> IF k = 0 THEN zero
                                         ELSE Accumulated(value[k], terms)[Rsh32(u[k - 1])]]
           u == CHOOSE u : Rec(u)
           col == ColumnTotals(value, terms, last)
           z == ColumnWords(value, terms, last)
<1>1. n \in Nat /\ 0 \in 0..n /\ n \in 0..n /\ b \in Nat \ {0} /\ 0 \in 0..(b - 1)
  BY ScalarNumbers
<1>2. z = [k \in 1..n |-> u[k][1]]
  BY Zenon DEF ColumnWords
<1>3. zero \in Triples /\ Acc(zero) = 0
  <2>1. zero \in Triples /\ Acc(zero) = 0 + (0 + 0 * b) * b
    BY <1>1, TripleIs
  <2>2. 0 + (0 + 0 * b) * b = 0
    BY <1>1
  <2> QED BY <2>1, <2>2, Zenon
<1>4. terms \in Nat /\ \A k \in 1..n : col[k] = Tot(terms, value[k]) /\ col[k] \in Nat
  <2>1. terms \in Nat /\ terms \in 0..terms
    BY ScalarNumbers
  <2>2. ASSUME NEW k \in 1..n PROVE Tot(terms, value[k]) \in Nat
    <3>1. \A i \in 1..terms : value[k][i] \in 0..Most
      OBVIOUS
    <3>2. \A i \in 0..terms : Tot(i, value[k]) \in Nat
      BY <2>1, <3>1, TotIs
    <3> QED BY <2>1, <3>2
  <2> QED BY <2>1, <2>2 DEF ColumnTotals
<1>5. ASSUME NEW k \in 1..n, NEW t \in Triples
      PROVE  /\ Accumulated(value[k], terms)[Rsh32(t)] \in Triples
             /\ Acc(Accumulated(value[k], terms)[Rsh32(t)]) = (Acc(t) \div b) + col[k]
  <2>1. Rsh32(t) \in Triples /\ Acc(Rsh32(t)) = Acc(t) \div b /\ Acc(Rsh32(t)) \in 0..(b * b - 1)
    BY Rsh32Is
  <2>2. \A i \in 1..terms : value[k][i] \in 0..Most
    OBVIOUS
  <2> DEFINE a == Rsh32(t)
             x == value[k]
  <2> HIDE DEF a, x
  <2>3. Accumulated(x, terms)[a] \in Triples /\ Acc(Accumulated(x, terms)[a]) = Acc(a) + Tot(terms, x)
    BY <2>1, <2>2, AccumulatedIs DEF a, x
  <2> QED BY <1>4, <2>1, <2>3 DEF a, x
<1> HIDE DEF z
<1> DEFINE A == Triples
           step == [k \in 1..n |-> [t \in A |-> Accumulated(value[k], terms)[Rsh32(t)]]]
<1>6. step \in [1..n -> [A -> A]] /\ zero \in A
  BY <1>3, <1>5
<1>7. \A k \in 1..n : \A t \in A : step[k][t] = Accumulated(value[k], terms)[Rsh32(t)]
  OBVIOUS
<1> HIDE DEF step, A, zero, n, b, col
<1>8. PICK fn : Recursion(n, A, zero, step, fn)
  BY <1>1, <1>6, RecursionExists
<1>9. fn \in [0..n -> A] /\ fn[0] = zero /\ \A k \in 1..n : fn[k] = step[k][fn[k - 1]]
  BY <1>8 DEF Recursion
<1>10. ASSUME NEW k \in 1..n
       PROVE fn[k] = Accumulated(value[k], terms)[Rsh32(fn[k - 1])]
  <2>1. fn[k - 1] \in A
    BY <1>1, <1>9
  <2> QED BY <1>7, <1>9, <2>1
<1>11. Rec(fn)
  <2> DEFINE g == [k \in 0..n |-> IF k = 0 THEN zero
                                  ELSE Accumulated(value[k], terms)[Rsh32(fn[k - 1])]]
  <2>1. ASSUME NEW k \in 0..n PROVE fn[k] = g[k]
    <3>1. CASE k = 0
      BY <1>9, <3>1
    <3>2. CASE k # 0
      <4>1. k \in 1..n
        BY <1>1, <3>2
      <4> QED BY <1>10, <3>2, <4>1
    <3> QED BY <3>1, <3>2
  <2>2. fn = [k \in 0..n |-> fn[k]]
    BY <1>9
  <2>3. fn = g
    <3>1. g = [k \in 0..n |-> g[k]]
      BY Zenon
    <3> HIDE DEF g
    <3> QED BY <2>1, <2>2, <3>1
  <2> QED BY <2>3
<1>12. Rec(u)
  BY <1>11, Zenon
<1>13. ASSUME NEW k \in 0..n
       PROVE u[k] = IF k = 0 THEN zero ELSE Accumulated(value[k], terms)[Rsh32(u[k - 1])]
  <2> HIDE DEF u
  <2> QED BY <1>12, Zenon
<1> HIDE DEF u
<1>15. \A k \in 1..n : k \in 0..n /\ k # 0 /\ k - 1 \in 0..n
  BY <1>1
<1>16. u[0] = zero /\ \A k \in 1..n : u[k] = Accumulated(value[k], terms)[Rsh32(u[k - 1])]
  BY <1>1, <1>13, <1>15
<1>17. \A k \in 0..n : u[k] \in Triples
  <2> DEFINE S == {m \in 0..n : u[m] \in Triples}
  <2>1. S \subseteq 0..n /\ 0 \in S
    BY <1>1, <1>3, <1>16
  <2>2. ASSUME NEW m \in 0..(n - 1), m \in S PROVE m + 1 \in S
    <3>1. m + 1 \in 1..n /\ (m + 1) - 1 = m /\ u[m] \in Triples /\ m + 1 \in 0..n
      BY <1>1, <2>2
    <3>2. u[m + 1] = Accumulated(value[m + 1], terms)[Rsh32(u[m])]
      BY <1>16, <3>1
    <3>3. u[m + 1] \in Triples
      BY <1>5, <3>1, <3>2
    <3> QED BY <3>1, <3>3
  <2> HIDE DEF S
  <2>3. \A m \in 0..n : m \in S
    BY <1>1, <2>1, <2>2, UpTo
  <2> QED BY <2>3 DEF S
<1> DEFINE cy == [k \in 0..n |-> Acc(u[k]) \div b]
           B == 0..(b - 1)
<1>18. \A k \in 0..n : cy[k] = Acc(u[k]) \div b /\ Acc(u[k]) \in Nat /\ cy[k] \in Nat
                       /\ u[k][1] = Acc(u[k]) % b
  <2> SUFFICES ASSUME NEW k \in 0..n
               PROVE  Acc(u[k]) \in Nat /\ Acc(u[k]) \div b \in Nat /\ u[k][1] = Acc(u[k]) % b
    OBVIOUS
  <2>1. u[k] \in Triples
    BY <1>17
  <2>2. Acc(u[k]) \in Nat /\ u[k][1] = Acc(u[k]) % b
    BY <2>1, Rsh32Is DEF b
  <2> DEFINE m == Acc(u[k])
  <2>3. m \in Nat
    BY <2>2
  <2> HIDE DEF m
  <2>4. m \div b \in Nat
    BY <1>1, <2>3
  <2> QED BY <2>2, <2>4 DEF m
<1>19. cy \in [0..n -> Nat] /\ cy[0] = 0
  <2>1. cy \in [0..n -> Nat]
    BY <1>18
  <2>2. Acc(u[0]) = 0 /\ 0 \div b = 0
    BY <1>1, <1>3, <1>16
  <2> QED BY <1>1, <1>18, <2>1, <2>2
<1> HIDE DEF cy
<1>20. ASSUME NEW k \in 1..n
       PROVE  cy[k] = (col[k] + cy[k - 1]) \div b /\ z[k] = (col[k] + cy[k - 1]) % b
  <2>1. Acc(u[k]) = (Acc(u[k - 1]) \div b) + col[k]
    BY <1>5, <1>15, <1>16, <1>17
  <2>2. Acc(u[k - 1]) \div b = cy[k - 1] /\ cy[k - 1] \in Nat
    BY <1>15, <1>18
  <2>3. Acc(u[k]) = col[k] + cy[k - 1]
    <3>1. col[k] \in Nat
      BY <1>4
    <3> QED BY <2>1, <2>2, <3>1
  <2>4. z[k] = u[k][1]
    BY <1>2
  <2>5. cy[k] = Acc(u[k]) \div b /\ u[k][1] = Acc(u[k]) % b
    BY <1>15, <1>18
  <2> QED BY <2>3, <2>4, <2>5, Zenon
<1>21. CarriedUp(n, b, col, cy, z)
  BY <1>19, <1>20 DEF CarriedUp
<1>22. /\ Digital(n, b, z) /\ cy[n] \in Nat
       /\ Val(n, col) = Val(n, z) + cy[n] * WordPowers[n]
  BY <1>1, <1>4, <1>21, ValCarries DEF n, b
<1>23. Val(n, z) \in 0..(WordPowers[n] - 1) /\ WordPowers[n] \in Nat \ {0}
  BY <1>1, <1>22, ValBound DEF n, b
<1>24. Val(n, z) = T
  <2> DEFINE p == WordPowers[n]
             c == cy[n]
             v == Val(n, z)
  <2>1. T = v + c * p /\ T < p
    BY <1>22 DEF col, n
  <2>2. c \in Nat /\ v \in 0..(p - 1) /\ p \in Nat \ {0}
    BY <1>22, <1>23
  <2> HIDE DEF p, c, v
  <2>3. c < 1
    <3> SUFFICES ASSUME c >= 1 PROVE FALSE
      BY <2>2
    <3>1. c * p >= p
      BY <2>2
    <3> QED BY <2>1, <2>2, <3>1
  <2>4. c = 0
    BY <2>2, <2>3
  <2>5. v = T
    BY <2>1, <2>2, <2>4
  <2> QED BY <2>5 DEF v
<1>25. z \in Seq(Nat)
  <2>1. B \subseteq Nat
    BY <1>1
  <2>2. \A k \in 1..n : z[k] \in B
    BY <1>22 DEF Digital
  <2> HIDE DEF B
  <2>3. z = [k \in 1..n |-> z[k]]
    BY <1>2
  <2>4. z \in [1..n -> B]
    BY <2>2, <2>3
  <2> QED BY <1>1, <2>1, <2>4, WordsAreSeq
<1> QED BY <1>22, <1>24, <1>25 DEF z, n, b

-----------------------------------------------------------------------------
(* Products.                                                               *)

LEMMA ProductColumns ==
    ASSUME NEW m \in Nat, NEW n \in Nat, NEW last \in Nat, m + n <= last + 1,
           last <= 2 * ScalarLen, m <= 2 * ScalarLen, n <= 2 * ScalarLen,
           NEW v, Whole(m, v), NEW w, Whole(n, w),
           NEW value, Terms(value, last, m, n, v, w)
    PROVE  /\ Whole(last, ColumnTotals(value, m, last))
           /\ Val(last, ColumnTotals(value, m, last)) = Val(m, v) * Val(n, w)
  BY WordPowersAre, WorthProduct DEF Val

LEMMA DigitProduct ==
    ASSUME NEW x \in 0..(ScalarBase - 1), NEW y \in 0..(ScalarBase - 1)
    PROVE  x * y \in 0..Most /\ x \in 0..Most /\ 0 \in 0..Most
<1> DEFINE b == ScalarBase
           d == b - 1
<1>1. d \in Nat /\ x \in 0..d /\ y \in 0..d /\ Most = d * d /\ d > 1
  BY ScalarNumbers DEF Most
<1> HIDE DEF d
<1>2. x * y >= 0 /\ x * y <= x * d /\ x * d <= d * d /\ d <= d * d
  BY <1>1
<1>3. x * y \in Int /\ d * d \in Int /\ x * d \in Int
  BY <1>1
<1> QED BY <1>1, <1>2, <1>3

\* The places of a number from the one after d on.
LEMMA ValSplit ==
    ASSUME NEW d \in Nat, NEW n \in Nat, d + n <= 2 * ScalarLen,
           NEW t, Digital(d + n, ScalarBase, t), NEW x, From(t, d, n, x)
    PROVE  /\ Val(d + n, t) = Val(d, t) + WordPowers[d] * Val(n, x)
           /\ WordPowers[d] \in Nat \ {0} /\ WordPowers[n] \in Nat \ {0}
           /\ Digital(d, ScalarBase, t) /\ Digital(n, ScalarBase, x)
           /\ Val(d, t) \in 0..(WordPowers[d] - 1) /\ Val(n, x) \in 0..(WordPowers[n] - 1)
  BY WordPowersAre, WorthDigits DEF Val

\* The words past ScalarLen, multiplied by the complement, are added to the
\* others.
LEMMA FoldHighIs ==
    ASSUME NEW high \in Nat, high <= ScalarLen, NEW last \in Nat, last <= 2 * ScalarLen,
           ScalarLen <= last, K + high <= last,
           NEW t, Digital(ScalarLen, ScalarBase, t),
           NEW x, Digital(high, ScalarBase, x), From(t, ScalarLen, high, x),
           NEW T, T = Val(ScalarLen, t) + C * Val(high, x), T < WordPowers[last]
    PROVE  LET z == FoldHigh(t, high, last) IN
           z \in Seq(Nat) /\ Digital(last, ScalarBase, z) /\ Val(last, z) = T
<1> DEFINE value == [k \in 1..last |-> [i \in 1..(K + 2) |->
               CASE i = 1 -> IF k <= ScalarLen THEN t[k] ELSE 0
                 [] i > 1 -> IF k - i + 2 \in 1..high
                             THEN t[ScalarLen + k - i + 2] * CWord(i - 1) ELSE 0]]
           first == [k \in 1..last |-> IF k \in 1..ScalarLen THEN t[k] ELSE 0]
           rest == [k \in 1..last |-> [i \in 1..(K + 1) |-> value[k][i + 1]]]
           m == K + 1
           L == ScalarLen
           v == Unpadded
<1>1. /\ m \in Nat /\ K \in Nat /\ L \in Nat /\ m + 1 = K + 2 /\ m + high <= last + 1
      /\ K + 2 \in 0..(ScalarBase - 1) /\ K + 2 <= 2 * L /\ m <= 2 * L /\ high <= 2 * L
      /\ m + 1 <= 2 * L /\ L <= 2 * L /\ 2 * L \in Nat /\ last \in 0..(2 * L)
  BY ScalarNumbers
<1>2. FoldHigh(t, high, last) = ColumnWords(value, K + 2, last)
  BY Zenon DEF FoldHigh
<1>3. ASSUME NEW k \in 1..last PROVE value[k][1] = first[k]
  BY <1>1
<1>4. ASSUME NEW k \in 1..last, NEW i \in 1..m
      PROVE  value[k][i + 1] = IF k - i + 1 \in 1..high THEN v[i] * x[k - i + 1] ELSE 0
  <2>1. i + 1 \in 1..(K + 2) /\ i + 1 # 1 /\ i + 1 > 1 /\ k - (i + 1) + 2 = k - i + 1
        /\ (i + 1) - 1 = i /\ ScalarLen + k - (i + 1) + 2 = ScalarLen + (k - i + 1)
    BY <1>1
  <2>2. value[k][i + 1] = IF k - (i + 1) + 2 \in 1..high
                          THEN t[ScalarLen + k - (i + 1) + 2] * CWord((i + 1) - 1) ELSE 0
    BY <2>1
  <2> HIDE DEF value
  <2>3. value[k][i + 1] = IF k - i + 1 \in 1..high
                          THEN t[ScalarLen + (k - i + 1)] * CWord(i) ELSE 0
    BY <2>1, <2>2, Zenon
  <2>4. v[i] = CWord(i) /\ CWord(i) \in Int
    BY CWords, ScalarNumbers DEF Unpadded
  <2>5. CASE k - i + 1 \in 1..high
    <3> DEFINE j == k - i + 1
               a == t[ScalarLen + j]
               c == CWord(i)
    <3>1. x[j] = a /\ value[k][i + 1] = a * c /\ a \in Int
      <4>1. x[j] = a
        BY <2>5 DEF From
      <4>2. x[j] \in Int
        BY <2>5, ScalarNumbers DEF Digital
      <4> QED BY <2>3, <2>5, <4>1, <4>2
    <3>2. v[i] = c /\ c \in Int
      BY <2>4
    <3> HIDE DEF a, c, j
    <3>3. a * c = c * a
      BY <3>1, <3>2
    <3>4. value[k][i + 1] = v[i] * x[j]
      BY <3>1, <3>2, <3>3, Zenon
    <3> QED BY <2>5, <3>4 DEF j
  <2>6. CASE ~(k - i + 1 \in 1..high)
    BY <2>3, <2>6
  <2> QED BY <2>5, <2>6
<1>5. ASSUME NEW k \in 1..last PROVE \A i \in 1..m : rest[k][i] = value[k][i + 1]
  OBVIOUS
<1> HIDE DEF value, rest
<1>6. Terms(rest, last, m, high, v, x)
  BY <1>4, <1>5 DEF Terms
<1>7. \A j \in 1..m : v[j] \in 0..(ScalarBase - 1)
  BY CWords DEF Unpadded
<1>8. ASSUME NEW k \in 1..last PROVE first[k] \in 0..Most
  <2>1. CASE k \in 1..ScalarLen
    <3>1. first[k] = t[k] /\ t[k] \in 0..(ScalarBase - 1)
      BY <2>1 DEF Digital
    <3> QED BY <3>1, DigitProduct
  <2>2. CASE ~(k \in 1..ScalarLen)
    <3>1. 0 \in 0..(ScalarBase - 1)
      BY ScalarNumbers
    <3>2. 0 \in 0..Most
      BY <3>1, DigitProduct
    <3> QED BY <2>2, <3>2
  <2> QED BY <2>1, <2>2
<1>9. Padding(first, last, ScalarLen, t)
  BY DEF Padding
<1> HIDE DEF first, v
<1>10. ASSUME NEW k \in 1..last PROVE \A i \in 1..(K + 2) : value[k][i] \in 0..Most
  <2> SUFFICES ASSUME NEW i \in 1..(K + 2) PROVE value[k][i] \in 0..Most
    OBVIOUS
  <2>1. CASE i = 1
    BY <1>3, <1>8, <2>1
  <2>2. CASE i # 1
    <3> DEFINE j == i - 1
    <3>1. j \in 1..m /\ j + 1 = i
      BY <1>1, <2>2
    <3> HIDE DEF j
    <3>2. value[k][j + 1] = IF k - j + 1 \in 1..high THEN v[j] * x[k - j + 1] ELSE 0
      BY <1>4, <3>1, Zenon
    <3>3. v[j] \in 0..(ScalarBase - 1) /\ 0 \in 0..Most
      BY <1>7, <3>1, DigitProduct
    <3>4. CASE k - j + 1 \in 1..high
      <4>1. x[k - j + 1] \in 0..(ScalarBase - 1)
        BY <3>4 DEF Digital
      <4>2. v[j] * x[k - j + 1] \in 0..Most
        BY <3>3, <4>1, DigitProduct
      <4>3. value[k][i] = v[j] * x[k - j + 1]
        BY <3>1, <3>2, <3>4, Zenon
      <4> QED BY <4>2, <4>3, Zenon
    <3>5. CASE ~(k - j + 1 \in 1..high)
      <4>1. value[k][i] = 0
        BY <3>1, <3>2, <3>5, Zenon
      <4> QED BY <3>3, <4>1, Zenon
    <3> QED BY <3>4, <3>5
  <2> QED BY <2>1, <2>2
<1> DEFINE cr == ColumnTotals(rest, m, last)
           col == ColumnTotals(value, K + 2, last)
<1>11. ASSUME NEW k \in 1..last PROVE col[k] = first[k] + cr[k]
  <2> DEFINE y == value[k]
             z == rest[k]
  <2>1. Whole(m + 1, y)
    <3>1. Most \in Nat
      BY CubeRoom
    <3>2. \A i \in 1..(m + 1) : y[i] \in 0..Most
      BY <1>1, <1>10
    <3> HIDE DEF y
    <3>3. \A i \in 1..(m + 1) : y[i] \in Int
      BY <3>1, <3>2
    <3> QED BY <3>3 DEF Whole
  <2>2. \A i \in 1..m : z[i] = y[i + 1]
    BY <1>5
  <2> HIDE DEF y, z
  <2>3. Tot(m + 1, y) = y[1] + Tot(m, z)
    BY <1>1, <2>1, <2>2, TotFirst
  <2>4. col[k] = Tot(m + 1, y) /\ cr[k] = Tot(m, z)
    BY <1>1 DEF ColumnTotals, y, z
  <2>5. y[1] = first[k]
    BY <1>3 DEF y
  <2> QED BY <2>3, <2>4, <2>5, Zenon
<1> HIDE DEF cr, col
<1>12. Weights(last, WordPowers)
  BY <1>1, WeightsFrom, WordPowersAre
<1>13. Whole(ScalarLen, t) /\ Whole(high, x) /\ Whole(m, v)
  <2>1. Digital(m, ScalarBase, v)
    BY <1>7 DEF Digital
  <2> QED BY <1>1, <2>1, ValBound
<1>14. Whole(last, first) /\ Val(last, first) = Val(ScalarLen, t)
  BY <1>1, <1>9, <1>13, ValPad
<1>15. Whole(last, cr) /\ Val(last, cr) = Val(m, v) * Val(high, x)
  BY <1>1, <1>6, <1>13, ProductColumns DEF cr
<1>16. Val(m, v) = C
  BY ComplementIs DEF v
<1>17. Val(last, col) = T
  <2>1. Val(last, col) = Val(last, first) + Val(last, cr)
    BY <1>11, <1>12, <1>14, <1>15, WorthPlus DEF Val
  <2> QED BY <1>14, <1>15, <1>16, <2>1, Zenon
<1>18. LET z == ColumnWords(value, K + 2, last) IN
       z \in Seq(Nat) /\ Digital(last, ScalarBase, z) /\ Val(last, z) = T
  <2>1. T = Val(last, ColumnTotals(value, K + 2, last))
    BY <1>17 DEF col
  <2>2. \A k \in 1..last : \A i \in 1..(K + 2) : value[k][i] \in 0..Most
    BY <1>10
  <2> QED BY <1>1, <2>1, <2>2, ColumnWordsIs
<1> QED BY <1>2, <1>18, Zenon

-----------------------------------------------------------------------------
(* The reductions.                                                         *)

LEMMA FoldCong ==
    ASSUME NEW lo \in Nat, NEW hi \in Nat
    PROVE  Cong(N, lo + C * hi, lo + Full * hi)
<1>1. C \in Nat /\ N \in Nat \ {0} /\ Full = N + C
  BY OrderIs
<1>2. Full * hi = hi * N + C * hi /\ hi * N \in Int /\ C * hi \in Int
  BY <1>1
<1>3. (lo + C * hi) = (lo + Full * hi) + (-hi) * N
  <2>1. (-hi) * N = -(hi * N)
    BY <1>1
  <2> QED BY <1>2, <2>1
<1>4. -hi \in Int
  OBVIOUS
<1> QED BY <1>3, <1>4 DEF Cong

\* Seven words and what is left of them, a little above a scalar's.
LEMMA LastFoldIs ==
    ASSUME NEW u \in Seq(Nat), Digital(ScalarLen + 1, ScalarBase, u),
           NEW T, T = Val(ScalarLen + 1, u), T < 5 * Full
    PROVE  LastFold[u] = ScalarOf(T % N)
<1> DEFINE L == ScalarLen
           top == u[L + 1]
           lo == Val(L, u)
           z == [i \in ScalarWords |-> top * Padded[i]]
           col == [i \in ScalarWords |-> u[i] + (IF i <= K + 1 THEN top * CWord(i) ELSE 0)]
           R == Val(L, col)
<1>1. L \in Nat /\ L + 1 <= 2 * L /\ L + 1 \in Nat /\ L <= 2 * L /\ ScalarWords = 1..L
      /\ L + 1 \in 1..(L + 1) /\ 2 * L \in Nat /\ L + 1 \in 0..(2 * L) /\ L \in 0..(2 * L)
  BY ScalarNumbers DEF ScalarWords
<1>2. LastFold[u] = Final(col)
  BY DEF LastFold
<1>3. Weights(L + 1, WordPowers) /\ Weights(L, WordPowers)
  BY <1>1, WeightsFrom, WordPowersAre
<1>4. Digital(L, ScalarBase, u) /\ Whole(L + 1, u)
  <2>1. \A i \in 1..L : i \in 1..(L + 1)
    BY <1>1
  <2> QED BY <1>1, <2>1, ValBound DEF Digital
<1>5. lo \in 0..(Full - 1) /\ Whole(L, u)
  BY <1>1, <1>4, ValBound DEF Full
<1>6. T = lo + top * Full
  BY <1>1, <1>3, <1>4, WorthNext DEF Val, Full
<1>7. top \in Nat /\ \A i \in 1..L : u[i] \in Nat
  <2>1. top \in 0..(ScalarBase - 1) /\ \A i \in 1..L : u[i] \in 0..(ScalarBase - 1)
    BY <1>1, <1>4 DEF Digital
  <2>2. \A a \in 0..(ScalarBase - 1) : a \in Nat
    BY ScalarNumbers
  <2> QED BY <2>1, <2>2
<1>8. C \in Nat \ {0} /\ N \in Nat \ {0} /\ Full = N + C /\ 6 * C <= Full /\ Full \in Nat \ {0}
  BY OrderIs
<1>9. top < 5
  <2> HIDE DEF top, lo
  <2> SUFFICES ASSUME top >= 5 PROVE FALSE
    BY <1>7
  <2> DEFINE tf == top * Full
  <2>1. tf >= 5 * Full /\ tf \in Int /\ T = lo + tf
    BY <1>6, <1>7, <1>8
  <2> HIDE DEF tf
  <2> QED BY <1>5, <1>8, <2>1
<1>10. \A i \in 1..L : Padded[i] \in Nat
  <2>1. \A a \in 0..(ScalarBase - 1) : a \in Nat
    BY ScalarNumbers
  <2> QED BY <1>1, <2>1, ComplementIs DEF Wordy
<1>11. ASSUME NEW i \in 1..L
       PROVE z[i] = top * Padded[i] /\ z[i] \in Nat /\ col[i] = u[i] + z[i] /\ col[i] \in Nat
  <2> DEFINE a == Padded[i]
  <2>1. a \in Nat /\ u[i] \in Nat
    BY <1>7, <1>10
  <2>2. col[i] = u[i] + (IF i <= K + 1 THEN top * CWord(i) ELSE 0)
    BY <1>1
  <2>3. a = IF i <= K + 1 THEN CWord(i) ELSE 0
    BY <1>1 DEF Padded
  <2>4. z[i] = top * a
    BY <1>1
  <2> HIDE DEF top, z, col
  <2>5. top * 0 = 0
    BY <1>7
  <2>6. col[i] = u[i] + top * a
    BY <2>2, <2>3, <2>5
  <2> HIDE DEF a
  <2>7. top * a \in Nat
    BY <1>7, <2>1
  <2> QED BY <2>1, <2>4, <2>6, <2>7 DEF a
<1> HIDE DEF z, col, top, lo
<1>12. Whole(L, z) /\ Val(L, z) = top * C
  <2>1. top \in Int /\ (\A i \in 1..L : z[i] = top * Padded[i]) /\ L \in Nat
        /\ Weights(L, WordPowers) /\ Whole(L, Padded)
    BY <1>1, <1>3, <1>7, <1>11, ComplementIs, WordyNumber
  <2>2. Whole(L, z) /\ Worth(WordPowers, L, z) = top * Worth(WordPowers, L, Padded)
    BY <2>1, WorthScale, ZenonT(30)
  <2> QED BY <2>2, ComplementIs, Zenon DEF Val, Number
<1>13. R = lo + top * C
  <2>1. \A i \in 1..L : col[i] = u[i] + z[i]
    BY <1>11
  <2>2. Worth(WordPowers, L, col) = Worth(WordPowers, L, u) + Worth(WordPowers, L, z)
    BY <1>1, <1>3, <1>5, <1>12, <2>1, WorthPlus
  <2> QED BY <1>12, <2>2, Zenon DEF Val, lo
<1> DEFINE tc == top * C
           tn == top * N
           tf == top * Full
<1>14. tc <= 4 * C /\ tc \in Nat /\ tn \in Nat /\ tf = tn + tc
  BY <1>7, <1>8, <1>9
<1>15. R = lo + tc /\ T = lo + tf
  BY <1>6, <1>13
<1> HIDE DEF tc, tf, R
<1>16. R < 2 * N /\ R \in Nat /\ T \in Nat /\ T = R + top * N
  BY <1>5, <1>8, <1>14, <1>15 DEF tn
<1>17. Final(col) = ScalarOf(R % N)
  <2>1. \A i \in 1..ScalarLen : col[i] \in Nat
    BY <1>11
  <2> QED BY <1>16, <2>1, FinalIs DEF R
<1>18. R % N = T % N
  <2>1. top \in Int
    BY <1>7
  <2>2. Cong(N, T, R)
    BY <1>16, <2>1 DEF Cong
  <2>3. T \in Int /\ R \in Int /\ N \in Nat \ {0}
    BY <1>8, <1>16
  <2> QED BY <2>2, <2>3, CongIff, Zenon
<1> QED BY <1>2, <1>17, <1>18

LEMMA Reduce512Is ==
    ASSUME NEW t \in Seq(Nat), Digital(2 * ScalarLen, ScalarBase, t),
           NEW T, T = Val(2 * ScalarLen, t)
    PROVE  reduce512[t] = ScalarOf(T % N)
<1> DEFINE L == ScalarLen
           b == ScalarBase
           p == WordPowers[K]
           x == [j \in 1..L |-> t[L + j]]
           lo == Val(L, t)
           hi == Val(L, x)
           T1 == lo + C * hi
           l1 == L + K + 1
           t1 == FoldHigh(t, L, l1)
           d1 == K + 1
           x1 == [j \in 1..d1 |-> t1[L + j]]
           lo1 == Val(L, t1)
           hi1 == Val(d1, x1)
           T2 == lo1 + C * hi1
           t2 == FoldHigh(t1, d1, L + 1)
<1>1. /\ L \in Nat /\ K \in Nat /\ L + L = 2 * L /\ L <= 2 * L /\ l1 \in Nat /\ l1 <= 2 * L
      /\ L <= l1 /\ K + L <= l1 /\ d1 \in Nat /\ d1 <= L /\ L + 1 \in Nat /\ L + 1 <= 2 * L
      /\ L <= L + 1 /\ K + d1 <= L + 1 /\ L + d1 = l1 /\ 2 * K <= L /\ K + K <= 2 * L
      /\ b \in Nat /\ b > 5 /\ L + K <= 2 * L /\ (L + K) + 1 = l1 /\ L + L <= 2 * L
      /\ L + K \in Nat /\ L + d1 <= 2 * L
  BY ScalarNumbers
<1>2. C \in Nat /\ C < 2 * p /\ p \in Nat \ {0} /\ Full \in Nat \ {0}
      /\ N \in Nat \ {0} /\ Full = N + C
  BY ComplementIs, OrderIs
<1>3. /\ Val(L + L, t) = lo + Full * hi /\ Digital(L, b, t) /\ Digital(L, b, x)
      /\ lo \in 0..(Full - 1) /\ hi \in 0..(Full - 1)
  <2>1. From(t, L, L, x)
    BY DEF From
  <2> HIDE DEF x
  <2>2. Digital(L + L, b, t)
    BY <1>1
  <2> QED BY <1>1, <2>1, <2>2, ValSplit DEF Full
<1>4. From(t, L, L, x)
  BY DEF From
<1>p. WordPowers[l1] = (Full * p) * b /\ Full * p \in Nat \ {0}
  <2>1. WordPowers[L + K] = Full * p /\ WordPowers[L + K] \in Nat \ {0}
    BY <1>1, WordPowersAdd DEF Full
  <2>2. WordPowers[(L + K) + 1] = WordPowers[L + K] * b
    BY <1>1, WordPowerNext
  <2> QED BY <1>1, <2>1, <2>2
<1> HIDE DEF L, b, p, x, lo, hi, l1, d1, t1
<1>5. T1 \in Nat /\ T1 < (Full * p) * 2
  <2>1. C * hi >= 0 /\ C * hi <= (2 * p - 1) * hi /\ (2 * p - 1) * hi <= (2 * p - 1) * (Full - 1)
    BY <1>2, <1>3
  <2>2. (2 * p - 1) * (Full - 1) = (Full * p) * 2 - Full - 2 * p + 1
    BY <1>2
  <2>3. C * hi \in Int /\ (2 * p - 1) * hi \in Int /\ (2 * p - 1) * (Full - 1) \in Int
        /\ (Full * p) * 2 \in Int
    BY <1>2, <1>3
  <2> DEFINE c == C * hi
             e == (2 * p - 1) * hi
             g == (2 * p - 1) * (Full - 1)
             h == (Full * p) * 2
  <2>4. c >= 0 /\ c <= e /\ e <= g /\ g = h - Full - 2 * p + 1 /\ c \in Int /\ e \in Int
        /\ g \in Int /\ h \in Int /\ T1 = lo + c
    BY <2>1, <2>2, <2>3
  <2> HIDE DEF c, e, g, h, T1
  <2>5. T1 \in Nat /\ T1 < h
    BY <1>2, <1>3, <2>4
  <2> QED BY <2>5 DEF h
<1>6. T1 < WordPowers[l1]
  <2> DEFINE g == Full * p
  <2>1. g \in Nat \ {0} /\ T1 < g * 2 /\ WordPowers[l1] = g * b
    BY <1>5, <1>p
  <2> HIDE DEF g, T1
  <2>2. g * b >= g * 2 /\ g * b \in Int /\ g * 2 \in Int
    BY <1>1, <2>1
  <2> QED BY <1>5, <2>1, <2>2
<1> HIDE DEF T1
<1>7. t1 \in Seq(Nat) /\ Digital(l1, b, t1) /\ Val(l1, t1) = T1
  <2>1. T1 = Val(ScalarLen, t) + C * Val(L, x)
    BY DEF T1, lo, hi, L
  <2>2. LET z == FoldHigh(t, L, l1) IN z \in Seq(Nat) /\ Digital(l1, b, z) /\ Val(l1, z) = T1
    BY <1>1, <1>3, <1>4, <1>6, <2>1, FoldHighIs DEF L, b
  <2> QED BY <2>2, Zenon DEF t1
<1>8. From(t1, L, d1, x1)
  BY DEF From
<1> HIDE DEF x1
<1>9. /\ Val(L + d1, t1) = lo1 + Full * hi1 /\ Digital(L, b, t1) /\ Digital(d1, b, x1)
      /\ lo1 \in 0..(Full - 1) /\ hi1 \in Nat
  <2>1. Digital(L + d1, b, t1)
    BY <1>1, <1>7
  <2>2. /\ Val(L + d1, t1) = Val(L, t1) + WordPowers[L] * Val(d1, x1)
        /\ WordPowers[d1] \in Nat \ {0}
        /\ Digital(L, ScalarBase, t1) /\ Digital(d1, ScalarBase, x1)
        /\ Val(L, t1) \in 0..(WordPowers[L] - 1) /\ Val(d1, x1) \in 0..(WordPowers[d1] - 1)
    <3>1. L \in Nat /\ d1 \in Nat /\ L + d1 <= 2 * ScalarLen /\ Digital(L + d1, ScalarBase, t1)
      BY <1>1, <2>1 DEF b, L
    <3> QED BY <1>8, <3>1, ValSplit
  <2>3. Val(d1, x1) \in Nat
    BY <2>2
  <2> QED BY <2>2, <2>3 DEF Full, L, b, lo1, hi1
<1> HIDE DEF lo1, hi1
<1>10. T1 = lo1 + Full * hi1
  BY <1>1, <1>7, <1>9
<1>11. hi1 < 2 * p
  <2> SUFFICES ASSUME hi1 >= 2 * p PROVE FALSE
    BY <1>2, <1>9
  <2>1. Full * hi1 >= Full * (2 * p) /\ Full * (2 * p) = (Full * p) * 2
    BY <1>2, <1>9
  <2> DEFINE g == Full * hi1
             h == (Full * p) * 2
  <2>2. g >= h /\ T1 = lo1 + g /\ T1 < h /\ g \in Int /\ h \in Int
    BY <1>2, <1>5, <1>9, <1>10, <2>1
  <2> HIDE DEF g, h
  <2> QED BY <1>9, <2>2
<1>12. p * p <= Full /\ p * p \in Nat
  <2> DEFINE r == L - (K + K)
  <2>1. r \in Nat /\ (K + K) + r = L /\ K + K \in Nat /\ (K + K) + r <= 2 * L
    BY <1>1
  <2> HIDE DEF r
  <2>2. WordPowers[K + K] = p * p
    BY <1>1, WordPowersAdd DEF p, L
  <2>3. /\ WordPowers[(K + K) + r] = WordPowers[K + K] * WordPowers[r]
        /\ WordPowers[r] \in Nat \ {0} /\ WordPowers[K + K] \in Nat \ {0}
    BY <2>1, WordPowersAdd DEF L
  <2> DEFINE g == WordPowers[K + K]
             h == WordPowers[r]
  <2>4. g = p * p /\ Full = g * h /\ h \in Nat \ {0} /\ g \in Nat
    BY <2>1, <2>2, <2>3 DEF Full, L
  <2> HIDE DEF g, h
  <2>5. g * h >= g
    BY <2>4
  <2> QED BY <2>4, <2>5
<1>13. T2 \in Nat /\ T2 < 5 * Full
  <2>1. C * hi1 >= 0 /\ C * hi1 <= (2 * p) * hi1 /\ (2 * p) * hi1 <= (2 * p) * (2 * p)
        /\ (2 * p) * (2 * p) = 4 * (p * p)
    BY <1>2, <1>9, <1>11
  <2>2. C * hi1 \in Int /\ (2 * p) * hi1 \in Int
    BY <1>2, <1>9
  <2> DEFINE c == C * hi1
             e == (2 * p) * hi1
             g == p * p
  <2>3. c >= 0 /\ c <= e /\ e <= 4 * g /\ g <= Full /\ c \in Int /\ e \in Int /\ g \in Nat
        /\ T2 = lo1 + c
    BY <1>12, <2>1, <2>2
  <2> HIDE DEF c, e, g, T2
  <2> QED BY <1>2, <1>9, <2>3
<1>14. T2 < WordPowers[L + 1]
  <2>1. WordPowers[L + 1] = Full * b
    BY <1>1, WordPowerNext DEF Full, L, b
  <2>2. Full * b >= 5 * Full /\ Full * b \in Int
    BY <1>1, <1>2
  <2> HIDE DEF T2
  <2> QED BY <1>2, <1>13, <2>1, <2>2
<1> HIDE DEF T2, t2
<1>15. t2 \in Seq(Nat) /\ Digital(L + 1, b, t2) /\ Val(L + 1, t2) = T2
  <2>1. T2 = Val(ScalarLen, t1) + C * Val(d1, x1)
    BY DEF T2, lo1, hi1, L
  <2>2. LET z == FoldHigh(t1, d1, L + 1)
        IN  z \in Seq(Nat) /\ Digital(L + 1, b, z) /\ Val(L + 1, z) = T2
    BY <1>1, <1>8, <1>9, <1>14, <2>1, FoldHighIs DEF L, b
  <2> QED BY <2>2, Zenon DEF t2
<1>16. reduce512[t] = LastFold[t2]
  <2>1. reduce512[t] = reduce385[t1]
    BY DEF reduce512, t1, l1, L
  <2>2. reduce385[t1] = LastFold[t2]
    BY <1>7 DEF reduce385, t2, d1, L
  <2> QED BY <2>1, <2>2
<1>17. LastFold[t2] = ScalarOf(T2 % N)
  BY <1>13, <1>15, LastFoldIs DEF L, b
<1>18. T2 % N = T % N
  <2>1. T = lo + Full * hi /\ lo \in Nat /\ hi \in Nat /\ lo1 \in Nat
    BY <1>1, <1>2, <1>3, <1>9 DEF L
  <2>2. Cong(N, T1, T)
    BY <2>1, FoldCong DEF T1
  <2>3. Cong(N, T2, T1)
    BY <1>9, <1>10, <2>1, FoldCong DEF T2
  <2>4. T \in Int
    <3>1. Full * hi \in Int
      BY <1>2, <2>1
    <3> QED BY <2>1, <3>1
  <2>5. Cong(N, T2, T)
    BY <1>2, <1>5, <1>13, <2>2, <2>3, <2>4, CongTrans
  <2>6. T2 \in Int /\ N \in Nat \ {0}
    BY <1>2, <1>13
  <2> QED BY <2>4, <2>5, <2>6, CongIff, Zenon
<1> QED BY <1>16, <1>17, <1>18

LEMMA ScalarMul2Is ==
    ASSUME NEW n \in Residues, NEW m \in Residues
    PROVE  ScalarMul2(ScalarOf(n), ScalarOf(m)) = ScalarOf((n * m) % N)
<1> DEFINE v == ScalarOf(n)
           w == ScalarOf(m)
           L == ScalarLen
           value == [k \in 1..(2 * L) |-> [i \in ScalarWords |->
                      IF k - i + 1 \in ScalarWords THEN v[i] * w[k - i + 1] ELSE 0]]
           z == ColumnWords(value, L, 2 * L)
           T == n * m
<1>1. /\ n \in Nat /\ Number(v) = n /\ Whole(L, v)
      /\ \A i \in 1..L : v[i] \in 0..(ScalarBase - 1)
  BY ResidueWords
<1>2. /\ m \in Nat /\ Number(w) = m /\ Whole(L, w)
      /\ \A i \in 1..L : w[i] \in 0..(ScalarBase - 1)
  BY ResidueWords
<1>3. ScalarMul2(v, w) = reduce512[z]
  BY DEF ScalarMul2
<1>4. /\ L \in Nat /\ 2 * L \in Nat /\ L + L <= 2 * L + 1 /\ L <= 2 * L /\ ScalarWords = 1..L
      /\ L \in 0..(ScalarBase - 1) /\ 2 * L <= 2 * L /\ L + L = 2 * L /\ L + L <= 2 * L
  BY ScalarNumbers DEF ScalarWords
<1> HIDE DEF v, w
<1>5. Terms(value, 2 * L, L, L, v, w)
  BY <1>4 DEF Terms
<1>6. ASSUME NEW k \in 1..(2 * L), NEW i \in 1..L PROVE value[k][i] \in 0..Most
  <2>1. value[k][i] = IF k - i + 1 \in 1..L THEN v[i] * w[k - i + 1] ELSE 0
    BY <1>4
  <2> HIDE DEF value
  <2>2. v[i] \in 0..(ScalarBase - 1)
    BY <1>1
  <2>3. CASE k - i + 1 \in 1..L
    <3>1. w[k - i + 1] \in 0..(ScalarBase - 1)
      BY <1>2, <2>3
    <3>2. v[i] * w[k - i + 1] \in 0..Most
      BY <2>2, <3>1, DigitProduct
    <3> QED BY <2>1, <2>3, <3>2, Zenon
  <2>4. CASE ~(k - i + 1 \in 1..L)
    <3>1. 0 \in 0..Most
      BY <2>2, DigitProduct
    <3> QED BY <2>1, <2>4, <3>1, Zenon
  <2> QED BY <2>3, <2>4
<1> HIDE DEF value
<1>7. Val(2 * L, ColumnTotals(value, L, 2 * L)) = Val(L, v) * Val(L, w)
  BY <1>1, <1>2, <1>4, <1>5, ProductColumns
<1>8. T = Val(2 * L, ColumnTotals(value, L, 2 * L))
  BY <1>1, <1>2, <1>7 DEF Number
<1>9. T < WordPowers[2 * L]
  <2>1. WordPowers[L + L] = Full * Full /\ Full \in Nat \ {0}
    BY <1>4, WordPowersAdd DEF Full
  <2>2. n < Full /\ m < Full
    BY <1>1, <1>2, OrderIs DEF Residues
  <2>3. n * m <= n * Full /\ n * Full <= (Full - 1) * Full
    BY <1>1, <1>2, <2>1, <2>2
  <2>4. (Full - 1) * Full = Full * Full - Full /\ n * m \in Int /\ n * Full \in Int
        /\ Full * Full \in Int
    BY <1>1, <1>2, <2>1
  <2>5. n * m < Full * Full
    BY <2>1, <2>3, <2>4
  <2> QED BY <1>4, <2>1, <2>5
<1> HIDE DEF T
<1>10. z \in Seq(Nat) /\ Digital(2 * L, ScalarBase, z) /\ Val(2 * L, z) = T
  <2>1. \A k \in 1..(2 * L) : \A i \in 1..L : value[k][i] \in 0..Most
    BY <1>6
  <2>2. LET y == ColumnWords(value, L, 2 * L)
        IN  y \in Seq(Nat) /\ Digital(2 * L, ScalarBase, y) /\ Val(2 * L, y) = T
    BY <1>4, <1>8, <1>9, <2>1, ColumnWordsIs
  <2> QED BY <2>2, Zenon
<1> HIDE DEF z
<1>11. reduce512[z] = ScalarOf(T % N)
  BY <1>10, Reduce512Is
<1> QED BY <1>3, <1>11 DEF v, w, T

-----------------------------------------------------------------------------
(* Inverses.                                                               *)

\* The numbers that are congruent to a multiple of a: the least positive one
\* divides all of them.
MultiplesOf(p, a) == {x \in Nat \ {0} : \E u \in Int : Cong(p, x, u * a)}

LEMMA LeastMultiple ==
    ASSUME NEW p \in Nat \ {0}, NEW a \in Nat \ {0}
    PROVE  \E g \in MultiplesOf(p, a) : \A x \in MultiplesOf(p, a) : x % g = 0
<1> DEFINE T == MultiplesOf(p, a)
<1>1. T \subseteq Nat /\ a \in T
  <2>1. Cong(p, a, 1 * a)
    BY CongRefl
  <2> QED BY <2>1 DEF MultiplesOf
<1>2. PICK g \in T : \A y \in T : g <= y
  <2>1. PICK g \in T : \A y \in T : ~(<<y, g>> \in OpToRel(<, Nat))
    BY <1>1, NatLessThanWellFounded, WFMin
  <2> HIDE DEF T
  <2>2. ASSUME NEW y \in T PROVE g <= y
    <3>1. y \in Nat /\ g \in Nat
      BY <1>1
    <3>2. ~(y < g)
      BY <2>1, <3>1, Zenon DEF OpToRel
    <3> QED BY <3>1, <3>2
  <2> QED BY <2>2
<1>3. PICK u \in Int : g \in Nat \ {0} /\ Cong(p, g, u * a)
  BY DEF MultiplesOf
<1>4. ASSUME NEW x \in T
      PROVE  x % g = 0
  <2> DEFINE q == x \div g
             r == x % g
  <2>1. PICK s \in Int : x \in Nat \ {0} /\ Cong(p, x, s * a)
    BY DEF MultiplesOf
  <2>2. q \in Int /\ r \in 0..(g - 1) /\ x = q * g + r
    BY <1>3, <2>1, DivMod
  <2> HIDE DEF q, r
  <2>3. /\ q * g \in Int /\ q * (u * a) \in Int /\ s * a \in Int /\ u * a \in Int
        /\ -(q * g) \in Int /\ -(q * (u * a)) \in Int /\ x \in Int /\ r \in Int /\ g \in Int
    BY <1>3, <2>1, <2>2, Ring
  <2>4. Cong(p, -(q * g), -(q * (u * a)))
    BY <1>3, <2>2, <2>3, CongScale, CongNeg
  <2>5. Cong(p, x + (-(q * g)), s * a + (-(q * (u * a))))
    BY <2>1, <2>3, <2>4, CongPlus
  <2>6. x + (-(q * g)) = r
    BY <2>2, <2>3
  <2>7. s * a + (-(q * (u * a))) = (s - q * u) * a /\ s - q * u \in Int
    BY <1>3, <2>2, Ring
  <2>8. Cong(p, r, (s - q * u) * a)
    BY <2>5, <2>6, <2>7
  <2>9. r # 0 => r \in T
    <3>1. r \in Nat
      BY <1>3, <2>2
    <3> QED BY <2>7, <2>8, <3>1 DEF MultiplesOf
  <2>10. r = 0
    BY <1>2, <2>2, <2>9
  <2> QED BY <2>10 DEF r
<1> QED BY <1>4

LEMMA OrderInverseExists ==
    ASSUME NEW a \in 1..(N - 1)
    PROVE  \E x \in 1..(N - 1) : (x * a) % N = 1
<1>p. N \in Nat \ {0} /\ N > 1 /\ 1 \in Int
  BY OrderIs
<1>1. a \in Nat \ {0} /\ a \in Int
  BY <1>p
<1>2. PICK g \in MultiplesOf(N, a) : \A x \in MultiplesOf(N, a) : x % g = 0
  BY <1>p, <1>1, LeastMultiple
<1>3. N \in MultiplesOf(N, a) /\ a \in MultiplesOf(N, a)
  <2>1. Cong(N, a, 1 * a)
    BY <1>p, <1>1, CongRefl
  <2>2. Cong(N, N, 0 * a)
    <3>1. N = 0 * a + 1 * N
      BY <1>p, <1>1
    <3> QED BY <3>1 DEF Cong
  <2>3. 1 \in Int /\ 0 \in Int
    OBVIOUS
  <2> QED BY <1>p, <1>1, <2>1, <2>2, <2>3, Zenon DEF MultiplesOf
<1>4. PICK u \in Int : g \in Nat \ {0} /\ Cong(N, g, u * a)
  BY DEF MultiplesOf
<1>5. g <= a
  <2>1. a % g = 0
    BY <1>2, <1>3
  <2> SUFFICES ASSUME g > a PROVE FALSE
    BY <1>1, <1>4
  <2>2. a % g = a
    BY <1>1, <1>4, ModSmall
  <2> QED BY <1>1, <2>1, <2>2
<1>6. g = 1
  <2>1. N % g = 0
    BY <1>2, <1>3
  <2>2. g \in 1..(N - 1)
    BY <1>p, <1>4, <1>5
  <2>3. g \notin 2..(N - 1)
    BY <2>1, OrderAssumption
  <2> QED BY <2>2, <2>3
<1> DEFINE b == u % N
           c == b * a
<1>7. b \in 0..(N - 1) /\ b \in Int /\ Cong(N, b, u)
  BY <1>p, DivMod, CongMod
<1> HIDE DEF b
<1>8. Cong(N, b * a, u * a) /\ b * a \in Int /\ u * a \in Int
  BY <1>p, <1>1, <1>7, CongScale, Ring
<1>9. Cong(N, u * a, 1)
  BY <1>p, <1>4, <1>6, <1>8, CongSym
<1>10. Cong(N, b * a, 1)
  BY <1>p, <1>8, <1>9, CongTrans
<1>11. (b * a) % N = 1
  <2>1. c \in Int /\ Cong(N, c, 1)
    BY <1>8, <1>10
  <2> HIDE DEF c
  <2>2. c % N = 1 % N
    BY <1>p, <2>1, CongIff
  <2>3. 1 % N = 1
    BY <1>p
  <2> QED BY <2>2, <2>3 DEF c
<1>12. b # 0
  <2> SUFFICES ASSUME b = 0 PROVE FALSE
    OBVIOUS
  <2>1. b * a = 0 /\ 0 % N = 0
    BY <1>p, <1>1
  <2> QED BY <1>11, <2>1
<1>13. b \in 1..(N - 1)
  BY <1>p, <1>7, <1>12
<1> QED BY <1>11, <1>13, Zenon

LEMMA InverseIs ==
    ASSUME NEW n \in Residues, n # 0
    PROVE  ScalarMul2(ScalarOf(n), InverseValNonConst(ScalarOf(n))) = ScalarOf(1)
<1> DEFINE v == ScalarOf(n)
           inverse == [m \in 0..(N - 1) |-> CHOOSE x \in 1..(N - 1) : (x * m) % N = 1]
           y == inverse[n]
<1>1. n \in Nat /\ Wordy(v) /\ Number(v) = n /\ Whole(ScalarLen, v) /\ n \in 0..(N - 1)
      /\ n \in 1..(N - 1) /\ N \in Nat \ {0}
  BY ResidueWords, OrderIs DEF Residues
<1>2. v # Zero
  BY <1>1, OrderIs
<1>3. ScalarValue(v) = n
  BY <1>1, ScalarValueIs
<1>4. InverseValNonConst(v) = ScalarOf(inverse[ScalarValue(v)])
  BY <1>2, Zenon DEF InverseValNonConst
<1>5. y \in 1..(N - 1) /\ (y * n) % N = 1
  <2>1. \E x \in 1..(N - 1) : (x * n) % N = 1
    BY <1>1, OrderInverseExists
  <2>2. y = CHOOSE x \in 1..(N - 1) : (x * n) % N = 1
    BY <1>1, Zenon
  <2> QED BY <2>1, <2>2, Zenon
<1>6. InverseValNonConst(v) = ScalarOf(y)
  BY <1>3, <1>4, Zenon
<1> HIDE DEF y, inverse, v
<1>7. y \in Residues /\ y \in Int
  BY <1>1, <1>5 DEF Residues
<1>8. ScalarMul2(ScalarOf(n), ScalarOf(y)) = ScalarOf((n * y) % N)
  BY <1>7, ScalarMul2Is
<1>9. n * y = y * n
  BY <1>1, <1>7
<1> QED BY <1>5, <1>6, <1>8, <1>9, Zenon DEF v

-----------------------------------------------------------------------------
(* What a scalar holds.                                                    *)

\* The words of a scalar are those of the number that the calls should have
\* computed, and it is below the order: every operation is right when its
\* arguments are.
ScalarInvariant == scalarExact \in Residues /\ scalar = ScalarOf(scalarExact)

LEMMA ScalarInvariantInit == ScalarInit => ScalarInvariant
<1> SUFFICES ASSUME ScalarInit PROVE ScalarInvariant
  OBVIOUS
<1>1. PICK n \in ScalarInputs : scalar = ScalarSetBytes(n).words /\ scalarExact = n % N
  BY DEF ScalarInit
<1>2. n \in 0..(Full - 1)
  <2>1. ScalarPower(ScalarLen) = Full
    <3>1. ScalarLen \in 0..ScalarLen
      BY ScalarNumbers
    <3> QED BY <3>1, ScalarPowers DEF Full
  <2> QED BY <2>1, OperandsAssumption
<1>3. ScalarSetBytes(n).words = ScalarOf(n % N) /\ n % N \in Residues
  BY <1>2, ScalarSetBytesIs
<1> QED BY <1>1, <1>3 DEF ScalarInvariant

LEMMA RemainderResidue ==
    ASSUME NEW a \in Int
    PROVE  a % N \in Residues
BY OrderIs, DivMod DEF Residues

LEMMA ScalarInvariantNext ==
    ScalarInvariant /\ [ScalarNext]_scalarVars => ScalarInvariant'
<1> SUFFICES ASSUME ScalarInvariant, [ScalarNext]_scalarVars PROVE ScalarInvariant'
  OBVIOUS
<1> DEFINE x == scalarExact
<1>1. x \in Residues /\ scalar = ScalarOf(x) /\ x \in Int /\ N \in Int
  BY OrderIs DEF ScalarInvariant, Residues
<1> HIDE DEF x
<1>2. \A n \in ScalarOperands : n \in Residues /\ n \in Int
  BY OperandsAssumption, OrderIs DEF Residues
<1>3. CASE ScalarCallAdd
  <2>1. PICK n \in ScalarOperands : /\ scalar' = ScalarAdd2(scalar, ScalarOf(n))
                                    /\ scalarExact' = (x + n) % N
    BY <1>3 DEF ScalarCallAdd, x
  <2>2. ScalarAdd2(ScalarOf(x), ScalarOf(n)) = ScalarOf((x + n) % N)
    BY <1>1, <1>2, ScalarAdd2Is
  <2>3. x + n \in Int
    BY <1>1, <1>2
  <2> QED BY <1>1, <2>1, <2>2, <2>3, RemainderResidue DEF ScalarInvariant
<1>4. CASE ScalarCallMul
  <2>1. PICK n \in ScalarOperands : /\ scalar' = ScalarMul2(scalar, ScalarOf(n))
                                    /\ scalarExact' = (x * n) % N
    BY <1>4 DEF ScalarCallMul, x
  <2>2. ScalarMul2(ScalarOf(x), ScalarOf(n)) = ScalarOf((x * n) % N)
    BY <1>1, <1>2, ScalarMul2Is
  <2>3. x * n \in Int
    BY <1>1, <1>2
  <2> QED BY <1>1, <2>1, <2>2, <2>3, RemainderResidue DEF ScalarInvariant
<1>5. CASE ScalarCallSquare
  <2>1. scalar' = ScalarMul2(scalar, scalar) /\ scalarExact' = (x * x) % N
    BY <1>5 DEF ScalarCallSquare, ScalarSquareVal, x
  <2>2. ScalarMul2(ScalarOf(x), ScalarOf(x)) = ScalarOf((x * x) % N)
    BY <1>1, ScalarMul2Is
  <2>3. x * x \in Int
    BY <1>1
  <2> QED BY <1>1, <2>1, <2>2, <2>3, RemainderResidue DEF ScalarInvariant
<1>6. CASE ScalarCallNegate
  <2>1. scalar' = ScalarNegateVal(scalar) /\ scalarExact' = (N - x) % N
    BY <1>6 DEF ScalarCallNegate, x
  <2>2. ScalarNegateVal(ScalarOf(x)) = ScalarOf((N - x) % N) /\ (N - x) % N \in Residues
    BY <1>1, ScalarNegateValIs
  <2> QED BY <1>1, <2>1, <2>2 DEF ScalarInvariant
<1>7. CASE UNCHANGED scalarVars
  BY <1>7 DEF ScalarInvariant, scalarVars
<1> QED BY <1>3, <1>4, <1>5, <1>6, <1>7 DEF ScalarNext

LEMMA ScalarReadings == ScalarInvariant => ReducedExactly
<1> SUFFICES ASSUME ScalarInvariant PROVE ReducedExactly
  OBVIOUS
<1> DEFINE x == scalarExact
           w == scalar
<1>1. x \in Residues /\ w = ScalarOf(x)
  BY DEF ScalarInvariant
<1>2. /\ x \in Nat /\ x < N /\ N \in Nat \ {0} /\ N > 1 /\ Wordy(w) /\ Number(w) = x
      /\ Whole(ScalarLen, w) /\ x < Full /\ x \in 0..(Full - 1)
      /\ 1 \in ScalarWords
  <2>1. x \in Nat /\ x < N /\ N \in Nat \ {0} /\ N > 1 /\ x < Full /\ x \in 0..(Full - 1)
    BY <1>1, OrderIs DEF Residues
  <2>2. Wordy(w) /\ Number(w) = x /\ Whole(ScalarLen, w)
    BY <1>1, ResidueWords
  <2> QED BY <2>1, <2>2, ScalarNumbers DEF ScalarWords
<1>3. IsOverHalfOrder(w) <=> x > N - x
  <2>1. Exceeds(w, HalfOrder, FALSE) <=> Number(w) > N \div 2
    BY <1>2, OrderIs, ExceedsIs
  <2>2. x > N \div 2 <=> x > N - x
    <3> DEFINE h == N \div 2
               r == N % 2
    <3>1. h \in Int /\ r \in 0..1 /\ N = h * 2 + r
      BY <1>2, DivMod
    <3> HIDE DEF h, r
    <3>2. x > h <=> x > N - x
      BY <1>2, <3>1
    <3> QED BY <3>2 DEF h
  <2> QED BY <1>2, <2>1, <2>2 DEF IsOverHalfOrder
<1>4. ScalarIsOdd(w) <=> x % 2 = 1
  <2>1. w[1] = x % ScalarBase
    BY <1>1, <1>2, ScalarOfDigits
  <2> DEFINE b == ScalarBase
             q == x \div b
             r == x % b
             h == b \div 2
  <2>2. b \in Nat \ {0} /\ b % 2 = 0
    BY ScalarNumbers
  <2> HIDE DEF b
  <2>3. q \in Int /\ r \in 0..(b - 1) /\ x = q * b + r /\ h \in Int /\ b = h * 2
    BY <1>2, <2>2, DivMod
  <2> HIDE DEF q, r, h
  <2>4. x = r + (q * h) * 2 /\ q * h \in Int
    BY <2>2, <2>3
  <2> DEFINE g == q * h
  <2>5. g \in Int /\ x = r + g * 2 /\ r \in Int
    BY <2>2, <2>3, <2>4
  <2> HIDE DEF g
  <2>6. x % 2 = r % 2
    BY <1>2, <2>5
  <2> QED BY <2>1, <2>6 DEF ScalarIsOdd, r, b
<1>5. \A n \in Residues : ScalarEquals(w, ScalarOf(n)) <=> x = n
  <2> SUFFICES ASSUME NEW n \in Residues PROVE ScalarEquals(w, ScalarOf(n)) <=> x = n
    OBVIOUS
  <2> DEFINE u == ScalarOf(n)
  <2>1. Wordy(u) /\ Number(u) = n
    BY ResidueWords
  <2>2. x = n => w = u
    BY <1>1
  <2> HIDE DEF u
  <2>3. w = [i \in ScalarWords |-> w[i]] /\ u = [i \in ScalarWords |-> u[i]]
    BY <1>2, <2>1 DEF Wordy
  <2>4. (\A i \in ScalarWords : w[i] = u[i]) => w = u
    BY <2>3, Zenon
  <2>5. w = u => x = n
    BY <1>2, <2>1
  <2> QED BY <2>2, <2>4, <2>5 DEF ScalarEquals, u
<1>6. ScalarIsZero(w) <=> x = 0
  <2>1. 0 \in Residues
    BY <1>2 DEF Residues
  <2>2. ScalarEquals(w, ScalarOf(0)) <=> x = 0
    BY <1>5, <2>1
  <2>3. \A i \in ScalarWords : ScalarOf(0)[i] = 0
    <3>1. \A i \in 1..ScalarLen : Zero[i] = 0
      <4> DEFINE z == [i \in 1..ScalarLen |-> 0]
      <4>1. Digital(ScalarLen, ScalarBase, z) /\ ScalarLen \in Nat /\ ScalarLen <= 2 * ScalarLen
        BY ScalarNumbers DEF Digital
      <4>2. \A i \in 1..ScalarLen : z[i] = 0
        OBVIOUS
      <4> HIDE DEF z
      <4>3. Weights(ScalarLen, WordPowers)
        BY <4>1, WordPowersAre, WeightsFrom
      <4>4. Val(ScalarLen, z) = 0
        BY <4>1, <4>2, <4>3, WorthZero DEF Val
      <4>5. Digital(ScalarLen, ScalarBase, Zero) /\ Val(ScalarLen, Zero) = 0
        BY OrderIs, WordyNumber DEF Number
      <4>6. \A i \in 1..ScalarLen : z[i] = Zero[i]
        BY <4>1, <4>4, <4>5, ValUnique
      <4> QED BY <4>2, <4>6
    <3> QED BY <3>1 DEF Zero, ScalarWords
  <2> QED BY <2>2, <2>3 DEF ScalarEquals, ScalarIsZero
<1>7. ScalarSetBytes(ScalarValue(w)) = [words |-> w, overflow |-> 0]
  <2>1. ScalarValue(w) = x
    BY <1>2, ScalarValueIs
  <2>2. ScalarSetBytes(x) = [words |-> ScalarOf(x), overflow |-> 0]
    BY <1>2, ScalarSetBytesIs
  <2> QED BY <1>1, <2>1, <2>2, Zenon
<1>8. ScalarAdd2(w, ScalarNegateVal(w)) = Zero
  <2> DEFINE n == (N - x) % N
  <2>1. ScalarNegateVal(w) = ScalarOf(n) /\ n \in Residues
    BY <1>1, ScalarNegateValIs
  <2>2. (x + n) % N = 0
    <3>1. CASE x = 0
      <4>1. n = 0
        BY <1>2, <3>1
      <4> HIDE DEF n
      <4> QED BY <1>2, <3>1, <4>1
    <3>2. CASE x # 0
      <4>1. N - x \in 0..(N - 1)
        BY <1>2, <3>2
      <4>2. n = N - x
        BY <1>2, <4>1, ModSmall
      <4> HIDE DEF n
      <4>3. x + n = N
        BY <1>2, <4>2
      <4> QED BY <1>2, <4>3
    <3> QED BY <3>1, <3>2
  <2> HIDE DEF n
  <2>3. ScalarAdd2(ScalarOf(x), ScalarOf(n)) = ScalarOf((x + n) % N)
    BY <1>1, <2>1, ScalarAdd2Is
  <2> QED BY <1>1, <2>1, <2>2, <2>3, Zenon DEF Zero
<1>9. ~ScalarIsZero(w) => ScalarMul2(w, InverseValNonConst(w)) = ScalarOf(1)
  BY <1>1, <1>6, InverseIs
<1>10. \A n \in ScalarOperands : ScalarEquals(w, ScalarOf(n)) <=> x = n
  <2>1. \A n \in ScalarOperands : n \in Residues
    BY OperandsAssumption DEF Residues
  <2> QED BY <1>5, <2>1
<1>11. /\ IsOverHalfOrder(w) = (x > N - x) /\ ScalarIsOdd(w) = (x % 2 = 1)
       /\ ScalarIsZero(w) = (x = 0)
       /\ \A n \in ScalarOperands : ScalarEquals(w, ScalarOf(n)) = (x = n)
  <2>1. IsOverHalfOrder(w) = (x > N - x)
    <3> DEFINE over == IsOverHalfOrder(w)
               more == x > N - x
    <3>1. over \in BOOLEAN
      BY Zenon DEF IsOverHalfOrder, Exceeds
    <3>2. more \in BOOLEAN
      BY <1>3
    <3>3. over <=> more
      BY <1>3
    <3> HIDE DEF over, more
    <3>4. over = more
      BY <3>1, <3>2, <3>3
    <3> QED BY <3>4 DEF over, more
  <2>2. ScalarIsOdd(w) = (x % 2 = 1)
    BY <1>4 DEF ScalarIsOdd
  <2>3. ScalarIsZero(w) = (x = 0)
    BY <1>6 DEF ScalarIsZero
  <2>4. \A n \in ScalarOperands : ScalarEquals(w, ScalarOf(n)) = (x = n)
    BY <1>10 DEF ScalarEquals
  <2> QED BY <2>1, <2>2, <2>3, <2>4
<1> QED BY <1>1, <1>2, <1>7, <1>8, <1>9, <1>11, Zenon DEF ReducedExactly

\* After any sequence of calls a scalar holds the number that they should
\* have computed, reduced below the order, and what is read from it agrees
\* (modnscalar.go 251-1106).
THEOREM ScalarsAreReduced == ScalarSpec => []ReducedExactly
<1>1. ScalarSpec => []ScalarInvariant
  BY ScalarInvariantInit, ScalarInvariantNext, PTL DEF ScalarSpec
<1> QED BY <1>1, ScalarReadings, PTL

=============================================================================
