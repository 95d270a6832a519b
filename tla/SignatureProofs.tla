--------------------------- MODULE SignatureProofs ---------------------------
(***************************************************************************)
(* Signatures, for every key, hash and nonce on every curve of the assumed *)
(* shape.                                                                  *)
(*                                                                         *)
(* First single signatures (Signatures): what is signed verifies, and is   *)
(* read back from the bytes it is written as.                              *)
(*                                                                         *)
(* Then what several parties sign together (MuSig): that sorting gives one *)
(* order of the keys, that a partial signature satisfies the equation the  *)
(* others check, and that the sum of all is a Schnorr signature for the    *)
(* combined key, for every number of parties, tweak, nonce and hash.       *)
(* Points are written as multiples of the generator, and sums of points as *)
(* multiples by sums of numbers; the equations are then congruences of N.  *)
(*                                                                         *)
(* Last their calls: a nonce is used in one signature, the parties agree   *)
(* on the keys, and what they sign together is valid.  A party's nonces    *)
(* are numbered; the early one is number 1, and is taken by the first      *)
(* session.  A session that has signed holds no nonce.  So the sessions of *)
(* one number have the nonces of that number, and what they sign are the   *)
(* parts of the sum.                                                       *)
(***************************************************************************)
EXTENDS MuSig, CurveProofs, FiniteSetTheorems

-----------------------------------------------------------------------------
(* ECDSA.                                                                  *)

\* A sum of multiples of the generator and of a key.
LEMMA MulAddMultiple ==
    ASSUME NEW a \in Int, NEW b \in Int, NEW l \in 0..(N - 1)
    PROVE  /\ Plus(Times(a, G), Times(b, Multiples[l])) = Multiples[(a + b * l) % N]
           /\ MulAdd(a, b, Multiples[l]) = Jacobian(Multiples[(a + b * l) % N], AnyZ)
<1>1. l \in Int /\ b * l \in Int
  BY CurveNumbers, Ring
<1>2. Times(a, G) = Multiples[a % N] /\ Times(b, Multiples[l]) = Multiples[(b * l) % N]
  BY TimesGenerator, TimesMultiple
<1> DEFINE c == b * l
<1>3. Plus(Multiples[a % N], Multiples[c % N]) = Multiples[(a + c) % N]
  BY <1>1, PlusMultiples
<1> QED BY <1>2, <1>3, Zenon DEF MulAdd

LEMMA PubKeyMultiple ==
    ASSUME NEW k \in 0..(N - 1)
    PROVE  PubKey(k) = Multiples[k]
<1>1. k \in Int /\ k % N = k
  BY CurveNumbers, ModSmall
<1> QED BY <1>1, TimesGenerator DEF PubKey

LEMMA OrderInverse ==
    ASSUME NEW a \in 1..(N - 1)
    PROVE  InvN(a) \in 0..(N - 1) /\ InvN(a) \in Int /\ Cong(N, a * InvN(a), 1)
<1>n. N \in Nat \ {0} /\ Prime(N) /\ 1 \in 0..(N - 1) /\ 1 \in Int
  BY CurveNumbers
<1>1. a \in Int
  BY <1>n
<1>2. PICK b \in 0..(N - 1) : Cong(N, a * b, 1)
  BY <1>n, PrimeInverse
<1>3. \A c \in 0..(N - 1) : (a * c) % N = 1 <=> Cong(N, a * c, 1)
  <2> TAKE c \in 0..(N - 1)
  <2> DEFINE t == a * c
  <2>1. c \in Int /\ t \in Int
    BY <1>n, <1>1, Ring
  <2>2. 1 % N = 1
    BY <1>n, ModSmall
  <2> HIDE DEF t
  <2>3. t % N = 1 <=> Cong(N, t, 1)
    BY <1>n, <2>1, <2>2, CongIff
  <2> QED BY <2>3 DEF t
<1>4. InvN(a) \in 0..(N - 1) /\ (a * InvN(a)) % N = 1
  <2>1. \E c \in 0..(N - 1) : (a * c) % N = 1
    BY <1>2, <1>3, Zenon
  <2> QED BY <2>1, Zenon DEF InvN
<1>5. Cong(N, a * InvN(a), 1)
  BY <1>3, <1>4, Zenon
<1> QED BY <1>n, <1>4, <1>5

\* The order is more than half of the prime: of what a coordinate may be, r is
\* the remainder of at most two.
LEMMA RemainderOf ==
    ASSUME NEW x \in 0..(P - 1), NEW r \in 0..(N - 1)
    PROVE  x % N = r <=> (x = r \/ (r < P - N /\ x = r + N))
<1>1. P \in Nat /\ N \in Nat \ {0} /\ P < 2 * N /\ N < P
  BY CurveNumbers
<1>2. CASE x < N
  <2>1. x % N = x
    BY <1>1, <1>2, ModSmall
  <2> QED BY <1>1, <1>2, <2>1
<1>3. CASE x >= N
  <2>1. x - N \in 0..(N - 1) /\ 1 \in Int
    BY <1>1, <1>3
  <2>2. (1 * N + (x - N)) % N = x - N
    BY <1>1, <2>1, DivIs
  <2>3. 1 * N + (x - N) = x
    BY <1>1
  <2>4. x % N = x - N
    BY <2>2, <2>3
  <2> QED BY <1>1, <1>3, <2>4
<1> QED BY <1>1, <1>2, <1>3

\* Multiplying with a number that is not zero loses nothing.
LEMMA SameProduct ==
    ASSUME NEW a \in 0..(P - 1), NEW b \in 0..(P - 1), NEW m \in Int, NEW n \in Int,
           ~Cong(P, n, 0), Cong(P, m, n)
    PROVE  Mod(a * n) = Mod(b * m) <=> a = b
<1>1. P \in Nat \ {0} /\ Prime(P) /\ a \in Int /\ b \in Int
  BY CurveNumbers
<1>2. a * n \in Int /\ b * m \in Int /\ b * n \in Int
  BY <1>1, Ring
<1>3. Cong(P, b * m, b * n) /\ Cong(P, b * n, b * m)
  BY <1>1, <1>2, CongScale, CongSym
<1>4. Mod(a * n) = Mod(b * m) <=> Cong(P, a * n, b * m)
  BY <1>2, ModFacts
<1>5. Cong(P, a * n, b * m) => a = b
  <2> SUFFICES ASSUME Cong(P, a * n, b * m) PROVE a = b
    OBVIOUS
  <2>1. Cong(P, a * n, b * n)
    BY <1>1, <1>2, <1>3, CongTrans
  <2>2. Cong(P, a, b)
    BY <1>1, <2>1, PrimeCancel
  <2> QED BY <1>1, <2>2, CongSmall
<1>6. a = b => Cong(P, a * n, b * m)
  BY <1>3
<1> QED BY <1>4, <1>5, <1>6

\* IsRemainder decides whether r is the remainder of the point's coordinate.
LEMMA IsRemainderExact ==
    ASSUME NEW pt \in OnCurve, NEW r \in 0..(N - 1)
    PROVE  IsRemainder(r, Jacobian(pt, AnyZ)) <=> pt[1] % N = r
<1> DEFINE x == pt[1]
           z == AnyZ
           zz == z * z
           m == Mod(zz)
<1>1. x \in 0..(P - 1) /\ x \in Int /\ z \in 1..(P - 1) /\ P \in Nat /\ P \in Int /\ N \in Int
      /\ P \in Nat \ {0} /\ r \in Int /\ r \in 0..(P - 1) /\ N > 0 /\ N < P
  BY CurvePoint, CurveNumbers, WireAssumption
<1>2. ~Cong(P, z, 0) /\ z \in Int
  BY <1>1, SmallNotZero
<1>3. ~Cong(P, zz, 0) /\ zz \in Int
  BY <1>2, ProductNotZero
<1>4. m \in Int /\ Cong(P, m, zz) /\ Cong(P, zz, m) /\ ~Cong(P, m, 0)
  BY <1>1, <1>3, ModFacts, CongTrans
<1>5. x * z * z = x * zz
  BY <1>1, <1>2, Ring
<1>6. Jacobian(pt, AnyZ).X.v = Mod(x * zz) /\ Jacobian(pt, AnyZ).Z.v = z
  BY <1>1, <1>5, JacobianCoordinates
<1> HIDE DEF x, m, zz, z
<1>7. IsRemainder(r, Jacobian(pt, AnyZ)) <=>
         \/ Mod(r * m) = Mod(x * zz)
         \/ r < P - N /\ Mod((r + N) * m) = Mod(x * zz)
  <2>1. IsRemainder(r, Jacobian(pt, AnyZ)) <=>
          \/ Mod(r * Mod(z * z)) = Mod(x * zz)
          \/ ~(r >= P - N) /\ Mod((r + N) * Mod(z * z)) = Mod(x * zz)
    BY <1>6, Zenon DEF IsRemainder, IsGtOrEqPrimeMinusOrder
  <2>2. r >= P - N <=> ~(r < P - N)
    BY <1>1
  <2> QED BY <2>1, <2>2, Zenon DEF m, zz
<1>8. ASSUME NEW t \in 0..(P - 1)
      PROVE  Mod(t * m) = Mod(x * zz) <=> t = x
  <2>1. x \in 0..(P - 1) /\ zz \in Int /\ m \in Int /\ ~Cong(P, m, 0) /\ Cong(P, zz, m)
    BY <1>1, <1>3, <1>4
  <2>2. t \in 0..(P - 1)
    OBVIOUS
  <2> QED BY <2>1, <2>2, SameProduct
<1>9. r < P - N => r + N \in 0..(P - 1)
  BY <1>1
<1>10. x % N = r <=> (x = r \/ (r < P - N /\ x = r + N))
  BY <1>1, RemainderOf
<1> QED BY <1>1, <1>7, <1>8, <1>9, <1>10, Zenon DEF x

\* The point that a signature (r, s) of the hash h leads to, w the inverse of s.
VerifyPoint(h, r, w, l) == Multiples[(h * w + (r * w) * l) % N]

LEMMA ReducedFactors ==
    ASSUME NEW a \in Int, NEW b \in Int, NEW l \in 0..(N - 1)
    PROVE  MulAdd(a % N, b % N, Multiples[l]) = Jacobian(Multiples[(a + b * l) % N], AnyZ)
<1> DEFINE c == a % N
           e == b % N
<1>1. /\ N \in Nat \ {0} /\ l \in Int /\ c \in Int /\ e \in Int
      /\ Cong(N, c, a) /\ Cong(N, e, b)
  <2>1. N \in Nat \ {0} /\ l \in Int
    BY CurveNumbers
  <2>2. c \in Int /\ e \in Int
    BY <2>1, DivMod
  <2>3. Cong(N, c, a) /\ Cong(N, e, b)
    BY <2>1, CongMod
  <2> QED BY <2>1, <2>2, <2>3
<1> HIDE DEF c, e
<1>2. e * l \in Int /\ b * l \in Int /\ Cong(N, e * l, b * l)
  BY <1>1, CongScale, Ring
<1> DEFINE el == e * l
           bl == b * l
<1>3. el \in Int /\ bl \in Int /\ Cong(N, el, bl)
  BY <1>2
<1> HIDE DEF el, bl
<1>4. (c + el) % N = (a + bl) % N
  <2>1. Cong(N, c + el, a + bl) /\ c + el \in Int /\ a + bl \in Int
    BY <1>1, <1>3, CongPlus
  <2> QED BY <1>1, <2>1, CongIff
<1>5. MulAdd(c, e, Multiples[l]) = Jacobian(Multiples[(c + e * l) % N], AnyZ)
  BY <1>1, MulAddMultiple
<1> QED BY <1>4, <1>5, Zenon DEF c, e, el, bl

\* Verify accepts a signature if and only if r is the remainder of the first
\* coordinate of the point that it leads to.
LEMMA VerifyExact ==
    ASSUME NEW sig, NEW h \in Int, NEW l \in 0..(N - 1),
           sig.r \in 1..(N - 1), sig.s \in 1..(N - 1)
    PROVE  Verify(sig, h, Multiples[l]) <=>
              /\ VerifyPoint(h, sig.r, InvN(sig.s), l) # Infinity
              /\ VerifyPoint(h, sig.r, InvN(sig.s), l)[1] % N = sig.r
<1> DEFINE r == sig.r
           w == InvN(sig.s)
           f == (h * w + (r * w) * l) % N
           pt == Multiples[f]
           X == MulAdd((h * w) % N, (r * w) % N, Multiples[l])
<1>1. /\ r \in Int /\ w \in Int /\ N \in Nat \ {0} /\ l \in Int /\ r \in 0..(N - 1)
      /\ sig.r # 0 /\ sig.s # 0 /\ AnyZ \in 1..(P - 1)
  BY OrderInverse, CurveNumbers, WireAssumption
<1>2. h * w \in Int /\ r * w \in Int
  BY <1>1, Ring
<1>3. X = Jacobian(pt, AnyZ)
  <2> DEFINE a == h * w
             b == r * w
  <2> HIDE DEF a, b, w, r
  <2>1. a \in Int /\ b \in Int
    BY <1>2 DEF a, b
  <2>2. MulAdd(a % N, b % N, Multiples[l]) = Jacobian(Multiples[(a + b * l) % N], AnyZ)
    BY <2>1, ReducedFactors
  <2> QED BY <2>2, Zenon DEF a, b, X, pt, f
<1>4. f \in 0..(N - 1)
  <2> DEFINE t == h * w + (r * w) * l
  <2>1. t \in Int
    BY <1>1, <1>2, Ring
  <2> HIDE DEF t
  <2>2. t % N \in 0..(N - 1)
    BY <1>1, <2>1, DivMod
  <2> QED BY <2>2 DEF t
<1>5. pt = Infinity \/ pt \in OnCurve
  BY <1>4, MultiplesPoints
<1>6. Verify(sig, h, Multiples[l]) <=> ~IsNowhere(X) /\ IsRemainder(r, X)
  BY <1>1, Zenon DEF Verify
<1> HIDE DEF X, f, w, r
<1>7. CASE pt = Infinity
  BY <1>3, <1>6, <1>7, JacobianNowhere, Zenon DEF VerifyPoint, w, r, f
<1>8. CASE pt \in OnCurve
  <2> HIDE DEF pt
  <2>1. pt # Infinity /\ ~IsNowhere(X)
    BY <1>1, <1>3, <1>8, CurvePoint, JacobianSomewhere
  <2>2. IsRemainder(r, X) <=> pt[1] % N = r
    BY <1>1, <1>3, <1>8, IsRemainderExact
  <2>3. pt = VerifyPoint(h, sig.r, InvN(sig.s), l) /\ r = sig.r
    BY Zenon DEF VerifyPoint, w, r, f, pt
  <2> QED BY <1>6, <2>1, <2>2, <2>3
<1> QED BY <1>5, <1>7, <1>8

\* The signature was made with the secret key and a nonce k or N - k.
Signed(sig, k, key, h) ==
    /\ k \in 1..(N - 1) /\ sig.r \in 1..(N - 1) /\ sig.s \in 1..(N - 1)
    /\ sig.r = Multiples[k][1] % N
    /\ Cong(N, sig.s * k, h + sig.r * key)

\* A signature leads back to the point of its nonce.
LEMMA SignedPoint ==
    ASSUME NEW sig, NEW k, NEW h \in Int, NEW key \in 0..(N - 1), Signed(sig, k, key, h)
    PROVE  VerifyPoint(h, sig.r, InvN(sig.s), key) = Multiples[k]
<1> DEFINE r == sig.r
           s == sig.s
           w == InvN(s)
<1>1. /\ k \in 1..(N - 1) /\ r \in 1..(N - 1) /\ s \in 1..(N - 1)
      /\ Cong(N, s * k, h + r * key)
  BY DEF Signed
<1>2. /\ N \in Nat \ {0} /\ k \in Int /\ r \in Int /\ s \in Int /\ key \in Int /\ 1 \in Int
      /\ w \in Int /\ Cong(N, s * w, 1) /\ k \in 0..(N - 1)
  BY <1>1, CurveNumbers, OrderInverse
<1> HIDE DEF w, s, r
<1>3. /\ s * k \in Int /\ r * key \in Int /\ h + r * key \in Int /\ s * w \in Int
      /\ (s * k) * w = (s * w) * k /\ 1 * k = k /\ (s * k) * w \in Int
      /\ h * w \in Int /\ (r * w) * key = (r * key) * w /\ (r * w) * key \in Int
      /\ (h + r * key) * w = h * w + (r * key) * w /\ (h + r * key) * w \in Int
  <2>1. s * k \in Int /\ r * key \in Int /\ h + r * key \in Int /\ s * w \in Int /\ r * w \in Int
    BY <1>2, Ring
  <2>2. (s * k) * w = (s * w) * k /\ 1 * k = k /\ (s * k) * w \in Int
    BY <1>2, <2>1, Ring
  <2>3. h * w \in Int /\ (r * w) * key = (r * key) * w /\ (r * w) * key \in Int
    BY <1>2, <2>1, Ring
  <2>4. (h + r * key) * w = h * w + (r * key) * w /\ (h + r * key) * w \in Int
    BY <1>2, <2>1, Ring
  <2> QED BY <2>1, <2>2, <2>3, <2>4
<1> DEFINE t == h * w + (r * w) * key
<1>4. Cong(N, (s * k) * w, (h + r * key) * w)
  BY <1>1, <1>2, <1>3, CongScale
<1>5. Cong(N, (s * w) * k, 1 * k)
  BY <1>2, <1>3, CongScale
<1>6. t = (h + r * key) * w
  BY <1>3
<1> HIDE DEF t
<1>7. t \in Int /\ Cong(N, (s * k) * w, t) /\ Cong(N, (s * k) * w, k)
  BY <1>3, <1>4, <1>5, <1>6
<1> DEFINE u == (s * k) * w
<1>8. u \in Int /\ Cong(N, u, t) /\ Cong(N, u, k)
  BY <1>3, <1>7
<1> HIDE DEF u
<1>9. Cong(N, t, k)
  BY <1>2, <1>7, <1>8, CongSym, CongTrans
<1>10. t % N = k
  BY <1>2, <1>7, <1>9, CongIff, ModSmall
<1> QED BY <1>10, Zenon DEF VerifyPoint, t, w, s, r

LEMMA SignedVerifies ==
    ASSUME NEW sig, NEW k, NEW h \in Int, NEW key \in 0..(N - 1), Signed(sig, k, key, h)
    PROVE  Verify(sig, h, Multiples[key])
<1>1. k \in 1..(N - 1) /\ sig.r \in 1..(N - 1) /\ sig.s \in 1..(N - 1)
      /\ sig.r = Multiples[k][1] % N
  BY DEF Signed
<1>2. Multiples[k] # Infinity
  <2>1. k \in 0..(N - 1) /\ k # 0
    BY <1>1, CurveNumbers
  <2> QED BY <2>1, MultiplesPoints
<1>3. VerifyPoint(h, sig.r, InvN(sig.s), key) = Multiples[k]
  BY SignedPoint
<1> QED BY <1>1, <1>2, <1>3, VerifyExact

\* The negation of s goes with the negation of the nonce.
LEMMA NegatedSigned ==
    ASSUME NEW sig, NEW neg, NEW k, NEW h \in Int, NEW key \in 0..(N - 1),
           Signed(sig, k, key, h), neg.r = sig.r, neg.s = N - sig.s
    PROVE  Signed(neg, N - k, key, h)
<1> DEFINE r == sig.r
           s == sig.s
<1>1. /\ k \in 1..(N - 1) /\ r \in 1..(N - 1) /\ s \in 1..(N - 1)
      /\ r = Multiples[k][1] % N /\ Cong(N, s * k, h + r * key)
  BY DEF Signed
<1>2. /\ N - k \in 1..(N - 1) /\ N - s \in 1..(N - 1)
      /\ Multiples[N - k][1] = Multiples[k][1]
  BY <1>1, CurveNumbers, NegMultiple
<1>3. N \in Nat \ {0} /\ N \in Int /\ s \in Int /\ k \in Int /\ r \in Int /\ key \in Int
  BY <1>1, CurveNumbers
<1> HIDE DEF r, s
<1>4. Cong(N, (N - s) * (N - k), s * k)
  <2>1. Cong(N, N - s, -s) /\ Cong(N, N - k, -k) /\ -s \in Int /\ -k \in Int
        /\ N - s \in Int /\ N - k \in Int
    <3>1. Cong(N, s, s) /\ Cong(N, k, k)
      BY <1>3, CongRefl
    <3>2. Cong(N, N - s, -s) /\ Cong(N, N - k, -k)
      BY <1>3, <3>1, CongNeg
    <3> QED BY <1>3, <3>2
  <2>2. Cong(N, (N - s) * (N - k), (-s) * (-k))
    BY <1>3, <2>1, CongTimes
  <2>3. (-s) * (-k) = s * k
    BY <1>3
  <2> QED BY <2>2, <2>3
<1>5. Cong(N, (N - s) * (N - k), h + r * key)
  <2>1. s * k \in Int /\ r * key \in Int /\ h + r * key \in Int
    BY <1>3, Ring
  <2>2. N - s \in Int /\ N - k \in Int
    BY <1>3
  <2>3. (N - s) * (N - k) \in Int
    BY <2>2, Ring
  <2> QED BY <1>1, <1>3, <1>4, <2>1, <2>3, CongTrans
<1> QED BY <1>1, <1>2, <1>5 DEF Signed, r, s

\* A point and its negation differ in the oddness of y: there is no point of
\* the order two.
LEMMA NegOddness ==
    ASSUME NEW k \in 1..(N - 1)
    PROVE  /\ Multiples[k][2] \in 1..(P - 1) /\ Multiples[N - k][2] = P - Multiples[k][2]
           /\ IsOdd(Multiples[N - k][2]) <=> ~IsOdd(Multiples[k][2])
<1> DEFINE y == Multiples[k][2]
           m == Multiples[N - k][2]
<1>1. /\ N - k \in 1..(N - 1) /\ Multiples[N - k] = Neg(Multiples[k]) /\ m = Mod(P - y)
      /\ N - k \in 0..(N - 1) /\ k \in 0..(N - 1) /\ k # 0
  BY NegMultiple, CurveNumbers
<1>2. Multiples[k] \in OnCurve
  BY <1>1, MultiplesPoints
<1>3. y \in 0..(P - 1) /\ P \in Nat /\ N \in Nat /\ P % 4 = 3 /\ N > 3 /\ P > 7
  BY <1>2, CurvePoint, CurveNumbers
<1>4. Multiples[k] = <<Multiples[k][1], y>> /\ Multiples[k] # Infinity
  BY <1>2, CurvePoint
<1>5. Multiples[N - k] = <<Multiples[k][1], Mod(P - y)>>
  BY <1>1, <1>4, Zenon DEF Neg
<1> HIDE DEF y, m
<1>6. y # 0
  <2> SUFFICES ASSUME y = 0 PROVE FALSE
    OBVIOUS
  <2>1. P - 0 = P /\ P % P = 0
    BY <1>3
  <2>2. Mod(P - y) = 0
    BY <2>1 DEF Mod
  <2>3. Multiples[N - k] = Multiples[k]
    BY <1>4, <1>5, <2>2
  <2>4. N - k = k
    BY <1>1, <2>3, MultiplesPoints
  <2>5. N % 2 = 0 /\ 2 \in 2..(N - 1)
    BY <1>1, <1>3, <2>4
  <2>6. Prime(N)
    BY CurveNumbers
  <2> QED BY <2>5, <2>6, PrimeDivisor
<1>7. m = P - y
  <2>1. P - y \in 0..(P - 1) /\ P - y \in Int
    BY <1>3, <1>6
  <2> QED BY <1>1, <2>1, ModFacts
<1>8. IsOdd(m) <=> ~IsOdd(y)
  BY <1>3, <1>7 DEF IsOdd
<1> QED BY <1>3, <1>6, <1>7, <1>8 DEF y, m

\* The code that goes with a compact signature.
CodeOf(pt) == (IF pt[1] >= N THEN 2 ELSE 0) + (IF IsOdd(pt[2]) THEN 1 ELSE 0)

EcdsaSignature(r, s, code) ==
    [ok |-> TRUE, kind |-> "ecdsa", r |-> r, s |-> s, code |-> code]

\* What sign gives is a signature made with its nonce or with the negation of
\* it, its s is low, and its code tells which point the nonce leads to.
LEMMA SignGives ==
    ASSUME NEW key \in 1..(N - 1), NEW k \in 1..(N - 1), NEW h \in 0..(N - 1),
           sign(key, k, h).ok
    PROVE  \E r, s \in 1..(N - 1), kk \in 1..(N - 1) :
              LET sig == EcdsaSignature(r, s, CodeOf(Multiples[kk]))
              IN  sign(key, k, h) = sig /\ Signed(sig, kk, key, h) /\ ~IsOverHalfOrder(s)
<1> DEFINE kG == Multiples[k]
           x == kG[1]
           y == kG[2]
           r == x % N
           s == (InvN(k) * (key * r + h)) % N
           over == IsOverHalfOrder(s)
<1>1. k \in 0..(N - 1) /\ k # 0 /\ k \in Int /\ N \in Nat \ {0} /\ h \in Int /\ key \in Int
      /\ P \in Nat
  BY CurveNumbers
<1>2. PubKey(k) = kG /\ kG \in OnCurve
  BY <1>1, PubKeyMultiple, MultiplesPoints
<1>3. x \in Int /\ r \in 0..(N - 1) /\ r \in Int
  <2>1. x \in Int
    BY <1>1, <1>2, CurvePoint
  <2> QED BY <1>1, <2>1, DivMod
<1>4. sign(key, k, h) = IF r = 0 \/ s = 0 THEN None
                        ELSE [ok |-> TRUE, kind |-> "ecdsa",
                              r |-> r, s |-> IF over THEN N - s ELSE s,
                              code |-> (IF x >= N THEN 2 ELSE 0)
                                       + (IF IsOdd(y) # over THEN 1 ELSE 0)]
  BY <1>2, Zenon DEF sign
<1>5. /\ InvN(k) \in Int /\ Cong(N, k * InvN(k), 1)
  BY OrderInverse
<1> DEFINE w == InvN(k)
           e == key * r + h
           u == w * e
<1>6. e \in Int /\ u \in Int /\ s = u % N /\ h + r * key = e
  <2> HIDE DEF r, w
  <2>1. w \in Int /\ r \in Int
    BY <1>3, <1>5 DEF w
  <2>2. key * r \in Int /\ key * r = r * key
    BY <1>1, <2>1, Ring
  <2>3. e \in Int /\ h + r * key = e
    BY <1>1, <2>2
  <2> HIDE DEF e
  <2>4. u \in Int
    BY <2>1, <2>3, Ring
  <2> QED BY <2>3, <2>4, Zenon DEF w, e
<1>7. s \in 0..(N - 1) /\ s \in Int /\ Cong(N, s, u)
  <2> HIDE DEF u
  <2>1. u % N \in 0..(N - 1) /\ u % N \in Int /\ Cong(N, u % N, u)
    BY <1>1, <1>6, DivMod, CongMod
  <2> QED BY <1>6, <2>1
<1> HIDE DEF kG, x, y, r, s, over, u, e, w
<1>8. r # 0 /\ s # 0
  BY <1>4 DEF None
<1>9. Cong(N, s * k, e)
  <2>1. /\ Cong(N, s * k, u * k) /\ s * k \in Int /\ u * k \in Int
        /\ k * w \in Int /\ w \in Int /\ Cong(N, k * w, 1) /\ 1 * e = e
    <3>1. w \in Int /\ Cong(N, k * w, 1)
      BY <1>5 DEF w
    <3> QED BY <1>1, <1>6, <1>7, <3>1, CongScale, Ring
  <2>2. u * k = (k * w) * e
    <3>1. (w * e) * k = (w * k) * e /\ w * k = k * w
      BY <1>1, <1>6, <2>1, Ring
    <3> QED BY <3>1 DEF u
  <2> DEFINE kw == k * w
  <2>3. kw \in Int /\ Cong(N, kw, 1) /\ u * k = kw * e
    BY <2>1, <2>2
  <2> HIDE DEF kw
  <2>4. 1 \in Int
    OBVIOUS
  <2>5. Cong(N, kw * e, 1 * e)
    BY <1>1, <1>6, <2>3, <2>4, CongScale
  <2> QED BY <1>1, <1>6, <2>1, <2>3, <2>5, CongTrans
<1> DEFINE sg == [r |-> r, s |-> s]
<1>10. Signed(sg, k, key, h)
  <2>1. r \in 1..(N - 1) /\ s \in 1..(N - 1) /\ r = Multiples[k][1] % N
    BY <1>3, <1>7, <1>8 DEF kG, x, r
  <2>2. Cong(N, s * k, h + r * key)
    BY <1>6, <1>9
  <2> QED BY <2>1, <2>2 DEF Signed
<1>11. CASE ~over
  <2> DEFINE sig == EcdsaSignature(r, s, CodeOf(Multiples[k]))
  <2>1. sign(key, k, h) = sig
    <3>1. (IF x >= N THEN 2 ELSE 0) + (IF IsOdd(y) # over THEN 1 ELSE 0) = CodeOf(Multiples[k])
      <4>1. IsOdd(y) # over <=> IsOdd(y)
        BY <1>11 DEF over, IsOverHalfOrder, IsOdd
      <4> QED BY <4>1 DEF CodeOf, kG, x, y
    <3> QED BY <1>4, <1>8, <1>11, <3>1 DEF EcdsaSignature
  <2>2. Signed(sig, k, key, h)
    BY <1>10 DEF Signed, EcdsaSignature
  <2>3. ~IsOverHalfOrder(s)
    BY <1>11 DEF over
  <2>4. r \in 1..(N - 1) /\ s \in 1..(N - 1)
    BY <1>10 DEF Signed
  <2> QED BY <2>1, <2>2, <2>3, <2>4
<1>12. CASE over
  <2> DEFINE sig == EcdsaSignature(r, N - s, CodeOf(Multiples[N - k]))
  <2>1. sign(key, k, h) = sig
    <3>1. (IF x >= N THEN 2 ELSE 0) + (IF IsOdd(y) # over THEN 1 ELSE 0)
             = CodeOf(Multiples[N - k])
      <4>1. IsOdd(y) # over <=> ~IsOdd(y)
        BY <1>12 DEF over, IsOverHalfOrder, IsOdd
      <4>2. IsOdd(Multiples[N - k][2]) <=> ~IsOdd(y)
        BY NegOddness DEF y, kG
      <4>3. Multiples[N - k][1] = x
        BY NegMultiple DEF x, kG
      <4> QED BY <4>1, <4>2, <4>3 DEF CodeOf
    <3> QED BY <1>4, <1>8, <1>12, <3>1 DEF EcdsaSignature
  <2>2. Signed(sig, N - k, key, h)
    <3>1. sig.r = sg.r /\ sig.s = N - sg.s
      BY DEF EcdsaSignature
    <3>2. key \in 0..(N - 1)
      BY <1>1
    <3> HIDE DEF sig, sg
    <3> QED BY <1>1, <1>10, <3>1, <3>2, NegatedSigned
  <2>3. ~IsOverHalfOrder(N - s)
    BY <1>1, <1>7, <1>12 DEF over, IsOverHalfOrder
  <2>4. r \in 1..(N - 1) /\ N - s \in 1..(N - 1) /\ N - k \in 1..(N - 1)
    <3>1. r \in 1..(N - 1) /\ s \in 1..(N - 1)
      BY <1>10 DEF Signed
    <3> QED BY <1>1, <3>1
  <2> QED BY <2>1, <2>2, <2>3, <2>4
<1> QED BY <1>11, <1>12

-----------------------------------------------------------------------------
(* Bytes.                                                                  *)

LEMMA ByteType == Byte \in Nat \ {0} /\ Byte > 6 /\ Byte % 2 = 0
<1>1. Byte \in Nat
  BY PowerAssumption
<1>2. Byte % 2 = 0 /\ 4 + 2 * (Width + 3) < Byte /\ Width \in Nat \ {0}
  BY WireAssumption, Zenon
<1> HIDE DEF Byte
<1> QED BY <1>1, <1>2

Power(n) == Byte^n

LEMMA Powers ==
    /\ Width \in Nat \ {0} /\ Power(0) = 1 /\ Power(Width) > P
    /\ \A n \in 0..Width : Power(n) \in Nat \ {0}
    /\ \A n \in 0..(Width - 1) : Power(n + 1) = Power(n) * Byte
<1>1. Width \in Nat \ {0} /\ Power(Width) > P
  BY WireAssumption, Zenon DEF Power
<1>2. Power(0) = 1 /\ \A n \in 0..(Width - 1) : Power(n + 1) = Power(n) * Byte
  BY PowerAssumption, Zenon DEF Power
<1> DEFINE S == {n \in 0..Width : Power(n) \in Nat \ {0}}
<1>3. 0 \in S
  BY <1>1, <1>2
<1>4. ASSUME NEW i \in 0..(Width - 1), i \in S PROVE i + 1 \in S
  <2>1. i + 1 \in 0..Width
    BY <1>1
  <2> DEFINE p == Power(i)
  <2>2. Power(i + 1) = p * Byte /\ p \in Nat \ {0}
    BY <1>2, <1>4
  <2> HIDE DEF p
  <2>3. p * Byte \in Nat \ {0}
    <3> DEFINE b == Byte
    <3>1. b \in Nat \ {0}
      BY ByteType
    <3> HIDE DEF b
    <3>2. p * b \in Nat \ {0}
      BY <2>2, <3>1
    <3> QED BY <3>2 DEF b
  <2> QED BY <2>1, <2>2, <2>3
<1>5. \A n \in 0..Width : n \in S
  <2>1. S \subseteq 0..Width /\ Width \in Nat
    BY <1>1
  <2> HIDE DEF S
  <2> QED BY <1>3, <1>4, <2>1, UpTo
<1> QED BY <1>1, <1>2, <1>5

\* The values of the first bytes of b.
Values(b, f) ==
    /\ f \in [0..Len(b) -> Int] /\ f[0] = 0
    /\ \A i \in 1..Len(b) : f[i] = f[i - 1] * Byte + b[i]

LEMMA ValuesExist ==
    ASSUME NEW b \in Seq(Int)
    PROVE  \E f : Values(b, f)
<1> DEFINE n == Len(b)
           Upto(m, f) == /\ f \in [0..m -> Int] /\ f[0] = 0
                         /\ \A i \in 1..m : f[i] = f[i - 1] * Byte + b[i]
           S == {m \in 0..n : \E f : Upto(m, f)}
<1>1. n \in Nat /\ Byte \in Int
  BY ByteType
<1>2. 0 \in S
  <2>1. Upto(0, [i \in 0..0 |-> 0])
    OBVIOUS
  <2>2. 0 \in 0..n
    BY <1>1
  <2> HIDE DEF Upto
  <2>3. \E f : Upto(0, f)
    BY <2>1, Zenon
  <2> QED BY <2>2, <2>3
<1>3. ASSUME NEW m \in 0..(n - 1), m \in S PROVE m + 1 \in S
  <2>1. PICK f : Upto(m, f)
    BY <1>3
  <2> DEFINE last == f[m] * Byte + b[m + 1]
             g == [i \in 0..(m + 1) |-> IF i = m + 1 THEN last ELSE f[i]]
  <2>2. last \in Int
    <3>1. f[m] \in Int /\ b[m + 1] \in Int
      BY <1>1, <2>1
    <3>2. f[m] * Byte \in Int
      BY <1>1, <3>1, Ring
    <3> QED BY <3>1, <3>2
  <2>3. last = f[m] * Byte + b[m + 1]
    OBVIOUS
  <2> HIDE DEF last
  <2>4. g \in [0..(m + 1) -> Int] /\ g[0] = 0
    BY <1>1, <2>1, <2>2
  <2>5. ASSUME NEW i \in 1..(m + 1) PROVE g[i] = g[i - 1] * Byte + b[i]
    <3>1. CASE i = m + 1
      <4>1. g[i] = last /\ g[i - 1] = f[m] /\ i - 1 = m
        BY <1>1, <3>1
      <4> HIDE DEF g
      <4> QED BY <2>3, <3>1, <4>1
    <3>2. CASE i # m + 1
      <4>1. g[i] = f[i] /\ g[i - 1] = f[i - 1] /\ i \in 1..m
        BY <1>1, <3>2
      <4> HIDE DEF g
      <4> QED BY <2>1, <4>1
    <3> QED BY <3>1, <3>2
  <2> HIDE DEF g
  <2>6. Upto(m + 1, g)
    BY <2>4, <2>5
  <2>7. m + 1 \in 0..n
    BY <1>1
  <2> QED BY <2>6, <2>7
<1>4. n \in S
  <2>1. S \subseteq 0..n /\ n \in Nat /\ n \in 0..n
    BY <1>1
  <2> HIDE DEF S, n
  <2>2. \A m \in 0..n : m \in S
    BY <1>2, <1>3, <2>1, UpTo
  <2> QED BY <2>1, <2>2
<1> QED BY <1>4 DEF Values

\* What bytes are read as is the last of their values.
LEMMA FromBytesIs ==
    ASSUME NEW b \in Seq(Int), NEW f, Values(b, f)
    PROVE  FromBytes(b) = f[Len(b)]
<1> DEFINE n == Len(b)
           Rec(v) == v = [i \in 0..n |-> IF i = 0 THEN 0 ELSE v[i - 1] * Byte + b[i]]
           v == CHOOSE v : Rec(v)
<1>1. FromBytes(b) = v[n]
  BY Zenon DEF FromBytes
<1>2. n \in Nat
  OBVIOUS
<1>3. /\ f \in [0..n -> Int] /\ f[0] = 0
      /\ \A i \in 1..n : f[i] = f[i - 1] * Byte + b[i]
  BY DEF Values
<1>4. Rec(f)
  <2> DEFINE g == [i \in 0..n |-> IF i = 0 THEN 0 ELSE f[i - 1] * Byte + b[i]]
  <2>1. ASSUME NEW i \in 0..n PROVE f[i] = g[i]
    <3>1. CASE i = 0
      BY <1>3, <3>1
    <3>2. CASE i # 0
      <4>1. i \in 1..n
        BY <1>2, <3>2
      <4> QED BY <1>3, <3>2, <4>1
    <3> QED BY <3>1, <3>2
  <2> HIDE DEF n
  <2>2. DOMAIN f = 0..n /\ DOMAIN g = 0..n /\ f = [i \in 0..n |-> f[i]]
    BY <1>3
  <2>3. f = g
    <3> HIDE DEF g
    <3>1. g = [i \in 0..n |-> g[i]]
      BY <2>2 DEF g
    <3> QED BY <2>1, <2>2, <3>1
  <2> QED BY <2>3
<1>5. Rec(v)
  BY <1>4, Zenon
<1>6. v[0] = 0 /\ \A i \in 1..n : v[i] = v[i - 1] * Byte + b[i]
  <2> HIDE DEF v, n
  <2>1. ASSUME NEW i \in 0..n PROVE v[i] = IF i = 0 THEN 0 ELSE v[i - 1] * Byte + b[i]
    BY <1>5, Zenon
  <2>2. 0 \in 0..n /\ \A i \in 1..n : i \in 0..n /\ i # 0
    BY <1>2
  <2> QED BY <2>1, <2>2
<1> DEFINE S == {i \in 0..n : v[i] = f[i]}
<1> HIDE DEF v, n
<1>7. 0 \in S /\ S \subseteq 0..n
  BY <1>2, <1>3, <1>6
<1>8. ASSUME NEW i \in 0..(n - 1), i \in S PROVE i + 1 \in S
  <2>1. i + 1 \in 1..n /\ (i + 1) - 1 = i /\ i + 1 \in 0..n
    BY <1>2
  <2>2. v[i + 1] = v[i] * Byte + b[i + 1] /\ f[i + 1] = f[i] * Byte + b[i + 1]
    BY <1>3, <1>6, <2>1
  <2>3. v[i] = f[i]
    BY <1>8
  <2> QED BY <2>1, <2>2, <2>3
<1>9. n \in S
  <2>1. n \in 0..n
    BY <1>2
  <2> HIDE DEF S
  <2> QED BY <1>2, <1>7, <1>8, <2>1, UpTo
<1> QED BY <1>1, <1>9 DEF n

\* Zeros before a number do not change it.
LEMMA LeadingZeros ==
    ASSUME NEW b \in Seq(Int), NEW n \in 0..Len(b), \A i \in 1..n : b[i] = 0
    PROVE  FromBytes(SubSeq(b, n + 1, Len(b))) = FromBytes(b)
<1> DEFINE c == SubSeq(b, n + 1, Len(b))
           len == Len(b)
<1>1. /\ len \in Nat /\ c \in Seq(Int) /\ Len(c) = len - n /\ Byte \in Int
      /\ \A i \in 1..(len - n) : c[i] = b[i + n]
  BY ByteType
<1>2. PICK f : Values(b, f)
  BY ValuesExist
<1>3. /\ f \in [0..len -> Int] /\ f[0] = 0
      /\ \A i \in 1..len : f[i] = f[i - 1] * Byte + b[i]
  BY <1>2 DEF Values
<1> HIDE DEF c, len
<1>4. f[n] = 0
  <2> DEFINE S == {i \in 0..n : f[i] = 0}
  <2>1. n \in 0..len /\ n \in Nat
    BY <1>1 DEF len
  <2>2. ASSUME NEW i \in 0..(n - 1), i \in S PROVE i + 1 \in S
    <3>1. i + 1 \in 1..len /\ i + 1 \in 1..n /\ (i + 1) - 1 = i /\ i + 1 \in 0..n
      BY <1>1, <2>1
    <3>2. f[i + 1] = f[i] * Byte + b[i + 1] /\ f[i] = 0 /\ b[i + 1] = 0
      BY <1>3, <2>2, <3>1
    <3>3. f[i + 1] = 0 * Byte + 0 /\ 0 * Byte = 0
      BY <1>1, <3>2, Ring
    <3> QED BY <3>1, <3>3
  <2>3. S \subseteq 0..n /\ 0 \in S /\ n \in 0..n
    BY <1>3, <2>1
  <2>4. n \in S
    <3> HIDE DEF S
    <3> QED BY <2>1, <2>2, <2>3, UpTo
  <2> QED BY <2>4
<1> DEFINE g == [i \in 0..(len - n) |-> f[i + n]]
<1>5. n \in 0..len
  BY DEF len
<1>6. g \in [0..(len - n) -> Int] /\ g[0] = 0 /\ g[len - n] = f[len]
  BY <1>1, <1>3, <1>4, <1>5
<1>7. ASSUME NEW i \in 1..(len - n) PROVE g[i] = g[i - 1] * Byte + c[i]
  <2>1. i + n \in 1..len /\ (i + n) - 1 = (i - 1) + n /\ i \in 0..(len - n) /\ i - 1 \in 0..(len - n)
    BY <1>1, <1>5
  <2>2. g[i] = f[i + n] /\ g[i - 1] = f[(i + n) - 1] /\ c[i] = b[i + n]
    BY <1>1, <2>1
  <2>3. f[i + n] = f[(i + n) - 1] * Byte + b[i + n]
    BY <1>3, <2>1
  <2> HIDE DEF g
  <2> QED BY <2>2, <2>3
<1> HIDE DEF g
<1>8. Values(c, g)
  BY <1>1, <1>6, <1>7 DEF Values
<1>9. FromBytes(c) = f[len] /\ FromBytes(b) = f[len]
  BY <1>1, <1>2, <1>6, <1>8, FromBytesIs DEF len
<1> QED BY <1>9 DEF c, len

\* Dividing by a product is dividing by one factor after the other.
LEMMA DivDiv ==
    ASSUME NEW a \in Nat, NEW p \in Nat \ {0}, NEW b \in Nat \ {0}
    PROVE  a \div (p * b) = (a \div p) \div b
<1> DEFINE q == a \div p
           r == a % p
           t == q \div b
           u == q % b
<1>1. q \in Int /\ r \in 0..(p - 1) /\ a = q * p + r
  BY DivMod
<1>3. t \in Int /\ u \in 0..(b - 1) /\ q = t * b + u
  <2> HIDE DEF q
  <2> QED BY <1>1, DivMod
<1> HIDE DEF q, r, t, u
<1>4. p * b \in Nat \ {0} /\ u * p + r \in 0..(p * b - 1)
  <2>1. p * b \in Nat \ {0}
    OBVIOUS
  <2>2. (b - 1 - u) * p >= 0 /\ u * p >= 0
    BY <1>3
  <2>3. (b - 1 - u) * p = b * p - p - u * p /\ b * p = p * b
    <3>1. b - 1 \in Int /\ u \in Int /\ p \in Int /\ b \in Int /\ 1 \in Int
      BY <1>3
    <3>2. (b - 1 - u) * p = (b - 1) * p - u * p
      BY <3>1, Ring
    <3>3. (b - 1) * p = b * p - 1 * p /\ 1 * p = p /\ b * p = p * b
      BY <3>1, Ring
    <3> QED BY <3>2, <3>3
  <2>4. u * p \in Int /\ p * b \in Int
    BY <1>3, Ring
  <2> DEFINE up == u * p
             pb == p * b
  <2>5. up \in Int /\ pb \in Int /\ pb - p - up >= 0 /\ up >= 0
    <3>1. pb - p - up = (b - 1 - u) * p
      BY <2>3
    <3> QED BY <2>2, <2>4, <3>1
  <2> HIDE DEF up, pb
  <2>6. up + r \in 0..(pb - 1)
    BY <1>1, <2>5
  <2> QED BY <2>1, <2>6 DEF up, pb
<1>5. a = t * (p * b) + (u * p + r)
  <2>1. a = (t * b + u) * p + r
    BY <1>1, <1>3
  <2>2. (t * b + u) * p = (t * b) * p + u * p /\ (t * b) * p = t * (p * b)
    <3>1. t \in Int /\ b \in Int /\ p \in Int /\ u \in Int /\ t * b \in Int
      BY <1>3, Ring
    <3>2. (t * b + u) * p = (t * b) * p + u * p
      BY <3>1, Ring
    <3>3. (t * b) * p = (t * p) * b /\ (t * p) * b = t * (p * b)
      BY <3>1, Ring
    <3> QED BY <3>2, <3>3
  <2>3. t * (p * b) \in Int /\ u * p \in Int
    <3>1. p * b \in Int /\ t \in Int /\ u \in Int
      BY <1>3, <1>4
    <3> QED BY <3>1, Ring
  <2> DEFINE up == u * p
             tpb == t * (p * b)
             tbp == (t * b) * p
  <2>4. a = tbp + up + r /\ tbp = tpb /\ up \in Int /\ tpb \in Int /\ r \in Int
    <3>1. (t * b + u) * p = tbp + up /\ tbp = tpb /\ up \in Int /\ tpb \in Int
      BY <2>2, <2>3
    <3>2. a = tbp + up + r
      BY <2>1, <3>1
    <3> QED BY <1>1, <3>1, <3>2
  <2> HIDE DEF up, tpb, tbp
  <2>5. a = tpb + (up + r)
    BY <2>4
  <2> QED BY <2>5 DEF tpb, up
<1> DEFINE pb == p * b
           w == u * p + r
<1>6. pb \in Nat \ {0} /\ w \in 0..(pb - 1) /\ a = t * pb + w
  BY <1>4, <1>5
<1> HIDE DEF pb, w
<1>7. a \div pb = t
  BY <1>3, <1>6, DivIs
<1> QED BY <1>7, Zenon DEF pb, q, t

LEMMA DivSmall ==
    ASSUME NEW n \in Nat \ {0}, NEW a \in 0..(n - 1)
    PROVE  a \div n = 0
  OBVIOUS

LEMMA DivNat ==
    ASSUME NEW a \in Nat, NEW p \in Nat \ {0}
    PROVE  a \div p \in Nat
<1> DEFINE q == a \div p
           r == a % p
<1>1. q \in Int /\ r \in 0..(p - 1) /\ a = q * p + r
  BY DivMod
<1> HIDE DEF q, r
<1>2. q >= 0
  <2> SUFFICES ASSUME q <= -1 PROVE FALSE
    BY <1>1
  <2>1. q * p <= -p
    BY <1>1
  <2> QED BY <1>1, <2>1
<1> QED BY <1>1, <1>2 DEF q

\* A number is read back from its bytes.
LEMMA BytesReadBack ==
    ASSUME NEW a \in 0..(Power(Width) - 1)
    PROVE  /\ PutBytes(a) \in Seq(0..(Byte - 1)) /\ PutBytes(a) \in Seq(Int)
           /\ Len(PutBytes(a)) = Width
           /\ FromBytes(PutBytes(a)) = a
<1> DEFINE b == PutBytes(a)
           f == [i \in 0..Width |-> a \div Power(Width - i)]
<1>1. /\ Width \in Nat \ {0} /\ Byte \in Nat \ {0} /\ a \in Nat /\ Power(0) = 1
      /\ Power(Width) \in Nat \ {0}
  BY Powers, ByteType
<1>2. b = [i \in 1..Width |-> (a \div Power(Width - i)) % Byte]
  BY Zenon DEF PutBytes, Power
<1>3. \A i \in 0..Width : Width - i \in 0..Width /\ Power(Width - i) \in Nat \ {0}
  BY <1>1, Powers
<1>4. ASSUME NEW i \in 0..Width PROVE a \div Power(Width - i) \in Nat
  <2> DEFINE p == Power(Width - i)
  <2>1. p \in Nat \ {0}
    BY <1>3
  <2> HIDE DEF p
  <2>2. a \div p \in Nat
    BY <1>1, <2>1, DivNat
  <2> QED BY <2>2 DEF p
<1>5. \A i \in 1..Width : (a \div Power(Width - i)) % Byte \in 0..(Byte - 1)
  <2> TAKE i \in 1..Width
  <2> DEFINE t == a \div Power(Width - i)
  <2>1. t \in Int
    <3>1. i \in 0..Width
      BY <1>1
    <3>2. t \in Nat
      BY <1>4, <3>1
    <3> HIDE DEF t
    <3> QED BY <3>2
  <2> HIDE DEF t
  <2>2. t % Byte \in 0..(Byte - 1)
    BY <1>1, <2>1, DivMod
  <2> QED BY <2>2 DEF t
<1>6. b \in Seq(0..(Byte - 1)) /\ Len(b) = Width
  <2> HIDE DEF b
  <2>1. b \in [1..Width -> 0..(Byte - 1)]
    BY <1>2, <1>5
  <2> QED BY <1>1, <2>1
<1>7. b \in Seq(Int)
  <2> HIDE DEF b
  <2>1. \A i \in 1..Width : b[i] \in 0..(Byte - 1)
    BY <1>2, <1>5
  <2>2. \A i \in 1..Width : b[i] \in Int
    <3> DEFINE m == Byte
    <3>1. m \in Nat /\ \A i \in 1..Width : b[i] \in 0..(m - 1)
      BY <1>1, <2>1
    <3> HIDE DEF m
    <3> QED BY <3>1
  <2>3. b \in [1..Width -> Int]
    BY <1>2, <2>2
  <2> QED BY <1>1, <2>3
<1>8. f[0] = 0 /\ f[Width] = a /\ f \in [0..Width -> Int]
  <2>1. Width - 0 = Width /\ Width - Width = 0 /\ 0 \in 0..Width /\ Width \in 0..Width
    BY <1>1
  <2>2. f[0] = a \div Power(Width) /\ f[Width] = a \div Power(0)
    BY <2>1
  <2>3. a \div Power(Width) = 0
    BY <1>1, DivSmall
  <2>4. a \div 1 = a
    BY <1>1
  <2>5. \A i \in 0..Width : a \div Power(Width - i) \in Int
    <3> TAKE i \in 0..Width
    <3> DEFINE t == a \div Power(Width - i)
    <3>1. t \in Nat
      BY <1>4
    <3> HIDE DEF t
    <3>2. t \in Int
      BY <3>1
    <3> QED BY <3>2 DEF t
  <2>6. f \in [0..Width -> Int]
    BY <2>5
  <2> HIDE DEF f
  <2> QED BY <1>1, <2>2, <2>3, <2>4, <2>6
<1>9. ASSUME NEW i \in 1..Width PROVE f[i] = f[i - 1] * Byte + b[i]
  <2> DEFINE m == Width - i
             p == Power(m)
  <2>1. m \in 0..(Width - 1) /\ Width - (i - 1) = m + 1 /\ i - 1 \in 0..Width /\ i \in 0..Width
        /\ m \in 0..Width
    BY <1>1
  <2>2. p \in Nat \ {0} /\ Power(m + 1) = p * Byte
    BY <2>1, Powers
  <2>3. f[i] = a \div p /\ f[i - 1] = a \div (p * Byte) /\ b[i] = (a \div p) % Byte
    <3> HIDE DEF b
    <3> QED BY <1>2, <2>1, <2>2
  <2> HIDE DEF p, m, f, b
  <2>4. a \div p = (a \div (p * Byte)) * Byte + ((a \div p) % Byte)
    <3> DEFINE m2 == Byte
    <3>1. m2 \in Nat \ {0} /\ a \in Nat /\ p \in Nat \ {0}
      BY <1>1, <2>2
    <3> HIDE DEF m2
    <3> DEFINE q == a \div p
    <3>3. a \div (p * m2) = q \div m2
      BY <3>1, DivDiv
    <3>5. q \in Int
      BY <3>1, DivNat
    <3> HIDE DEF q
    <3>4. q = (q \div m2) * m2 + (q % m2)
      BY <3>1, <3>5, DivMod
    <3>2. a \div p = (a \div (p * m2)) * m2 + ((a \div p) % m2)
      BY <3>3, <3>4 DEF q
    <3> QED BY <3>2 DEF m2
  <2> QED BY <2>3, <2>4
<1>10. Values(b, f)
  <2> HIDE DEF b, f
  <2> QED BY <1>6, <1>8, <1>9 DEF Values
<1>11. FromBytes(b) = a
  <2> HIDE DEF b, f
  <2> QED BY <1>6, <1>7, <1>8, <1>10, FromBytesIs
<1> QED BY <1>6, <1>7, <1>11

-----------------------------------------------------------------------------
(* DER.                                                                    *)

LEMMA Joined ==
    ASSUME NEW s \in Seq(Int), NEW t \in Seq(Int)
    PROVE  /\ s \o t \in Seq(Int) /\ Len(s \o t) = Len(s) + Len(t)
           /\ \A i \in 1..Len(s) : (s \o t)[i] = s[i]
           /\ \A i \in 1..Len(t) : (s \o t)[i + Len(s)] = t[i]
  OBVIOUS

LEMMA Slice ==
    ASSUME NEW b \in Seq(Int), NEW c \in Seq(Int), NEW k \in Nat, k + Len(c) <= Len(b),
           \A i \in 1..Len(c) : b[i + k] = c[i]
    PROVE  SubSeq(b, k + 1, k + Len(c)) = c
<1> DEFINE t == SubSeq(b, k + 1, k + Len(c))
<1>1. t \in Seq(Int) /\ Len(t) = Len(c)
  OBVIOUS
<1>2. ASSUME NEW i \in 1..Len(c) PROVE t[i] = c[i]
  <2>1. t[i] = b[i + k]
    OBVIOUS
  <2> QED BY <2>1
<1> HIDE DEF t
<1>3. t = c
  BY <1>1, <1>2, SeqEqual
<1> QED BY <1>3 DEF t

\* Trimmed takes away as many bytes as can go.
LEMMA TrimmedBytes ==
    ASSUME NEW b \in Seq(Int), Len(b) > 0
    PROVE  \E n \in 0..(Len(b) - 1) :
              Trims(b, n) /\ ~Trims(b, n + 1) /\ Trimmed(b) = SubSeq(b, n + 1, Len(b))
<1> DEFINE len == Len(b)
           n == CHOOSE n \in 0..len : Trims(b, n) /\ ~Trims(b, n + 1)
           S == {i \in 0..len : Trims(b, i)}
<1>1. len \in Nat /\ len > 0
  OBVIOUS
<1>2. 0 \in S /\ S \subseteq 0..len
  BY <1>1 DEF Trims
<1>3. len \notin S
  BY <1>1 DEF Trims
<1>4. \E i \in 0..len : Trims(b, i) /\ ~Trims(b, i + 1)
  <2> SUFFICES ASSUME \A i \in 0..len : Trims(b, i) => Trims(b, i + 1) PROVE FALSE
    OBVIOUS
  <2>1. ASSUME NEW i \in 0..(len - 1), i \in S PROVE i + 1 \in S
    <3>1. i \in 0..len /\ i + 1 \in 0..len
      BY <1>1
    <3> QED BY <2>1, <3>1
  <2>2. len \in 0..len
    BY <1>1
  <2> HIDE DEF S, len
  <2> QED BY <1>1, <1>2, <1>3, <2>1, <2>2, UpTo
<1>5. n \in 0..len /\ Trims(b, n) /\ ~Trims(b, n + 1)
  BY <1>4, Zenon
<1>6. Trimmed(b) = SubSeq(b, n + 1, len)
  BY Zenon DEF Trimmed
<1> HIDE DEF n
<1>7. n \in 0..(len - 1)
  BY <1>1, <1>5 DEF Trims
<1> QED BY <1>5, <1>6, <1>7

\* A scalar is written as an integer that the parser takes, and takes for it.
LEMMA CanonicalInteger ==
    ASSUME NEW a \in 1..(N - 1)
    PROVE  /\ Canonical(a) \in Seq(Int) /\ Len(Canonical(a)) \in 1..(Width + 1)
           /\ IntegerOK(IntegerID, Canonical(a))
           /\ IntegerInRange(Canonical(a)) /\ FromBytes(Canonical(a)) = a
<1> DEFINE p == PutBytes(a)
           b == <<0>> \o p
           c == Canonical(a)
<1>1. /\ a \in 0..(Power(Width) - 1) /\ Width \in Nat \ {0} /\ Byte \in Nat \ {0} /\ Byte > 6
      /\ a \in Int
  BY CurveNumbers, Powers, ByteType
<1>2. p \in Seq(Int) /\ Len(p) = Width /\ FromBytes(p) = a
  BY <1>1, BytesReadBack
<1> HIDE DEF p
<1>3. b \in Seq(Int) /\ Len(b) = Width + 1 /\ b[1] = 0 /\ SubSeq(b, 2, Len(b)) = p
  <2>1. b \in Seq(Int) /\ Len(b) = Width + 1 /\ b[1] = 0
    BY <1>1, <1>2
  <2>2. \A i \in 1..Len(p) : b[i + 1] = p[i]
    BY <1>1, <1>2
  <2> HIDE DEF b
  <2>3. SubSeq(b, 1 + 1, 1 + Len(p)) = p
    <3>1. 1 + Len(p) <= Len(b) /\ 1 \in Nat
      BY <1>1, <1>2, <2>1
    <3> QED BY <1>2, <2>1, <2>2, <3>1, Slice
  <2>4. 1 + Len(p) = Len(b) /\ 1 + 1 = 2
    BY <1>1, <1>2, <2>1
  <2> QED BY <2>1, <2>3, <2>4
<1>4. c = Trimmed(b)
  BY Zenon DEF Canonical, p
<1> HIDE DEF b, c
<1>5. FromBytes(b) = a
  <2>1. 1 \in 0..Len(b) /\ \A i \in 1..1 : b[i] = 0
    BY <1>1, <1>3
  <2>2. ASSUME NEW n \in 0..Len(b), n = 1
        PROVE  FromBytes(SubSeq(b, 2, Len(b))) = FromBytes(b)
    <3>1. FromBytes(SubSeq(b, n + 1, Len(b))) = FromBytes(b)
      BY <1>3, <2>1, <2>2, LeadingZeros
    <3>2. n + 1 = 2
      BY <2>2
    <3> QED BY <3>1, <3>2
  <2> QED BY <1>2, <1>3, <2>1, <2>2
<1>6. PICK n \in 0..(Len(b) - 1) :
         Trims(b, n) /\ ~Trims(b, n + 1) /\ c = SubSeq(b, n + 1, Len(b))
  <2>1. Len(b) > 0
    BY <1>1, <1>3
  <2> QED BY <1>3, <1>4, <2>1, TrimmedBytes
<1>7. /\ n \in 0..Width /\ n < Len(b)
      /\ \A i \in 1..n : b[i] = 0 /\ ~IsHigh(b[i + 1])
  BY <1>1, <1>3, <1>6 DEF Trims
<1>8. /\ c \in Seq(Int) /\ Len(c) = Width + 1 - n
      /\ \A i \in 1..(Width + 1 - n) : c[i] = b[i + n]
  BY <1>1, <1>3, <1>6, <1>7
<1>9. FromBytes(c) = a
  <2>1. n \in 0..Len(b)
    BY <1>1, <1>3, <1>7
  <2> QED BY <1>3, <1>5, <1>6, <1>7, <2>1, LeadingZeros
<1>10. Len(c) \in 1..(Width + 1)
  BY <1>1, <1>7, <1>8
<1>11. c[1] = b[n + 1] /\ ~IsHigh(b[n + 1])
  <2>1. c[1] = b[n + 1]
    BY <1>1, <1>7, <1>8
  <2>2. n # 0 => ~IsHigh(b[n + 1])
    BY <1>7
  <2>3. ~IsHigh(0)
    <3> DEFINE m == Byte
    <3>1. m \in Nat /\ m > 6 /\ (IsHigh(0) <=> 0 >= m \div 2)
      BY <1>1 DEF IsHigh
    <3> HIDE DEF m
    <3> QED BY <3>1
  <2>4. n = 0 => ~IsHigh(b[n + 1])
    BY <1>3, <2>3
  <2> QED BY <2>1, <2>2, <2>4
<1>12. ~(Len(c) > 1 /\ c[1] = 0 /\ ~IsHigh(c[2]))
  <2> SUFFICES ASSUME Len(c) > 1, c[1] = 0, ~IsHigh(c[2]) PROVE FALSE
    OBVIOUS
  <2>1. c[2] = b[n + 2] /\ b[n + 1] = 0 /\ n + 1 < Len(b)
    <3>1. 2 \in 1..(Width + 1 - n) /\ n + 1 < Len(b) /\ 2 + n = n + 2
      BY <1>1, <1>3, <1>7, <1>8
    <3>2. c[2] = b[2 + n]
      BY <1>8, <3>1
    <3> QED BY <1>11, <3>1, <3>2
  <2>2. ASSUME NEW i \in 1..(n + 1) PROVE b[i] = 0 /\ ~IsHigh(b[i + 1])
    <3>1. CASE i = n + 1
      <4>1. i + 1 = n + 2
        BY <1>7, <3>1
      <4> QED BY <2>1, <3>1, <4>1
    <3>2. CASE i # n + 1
      <4>1. i \in 1..n
        BY <1>7, <3>2
      <4> QED BY <1>7, <4>1
    <3> QED BY <3>1, <3>2
  <2>3. Trims(b, n + 1)
    BY <2>1, <2>2 DEF Trims
  <2> QED BY <1>6, <2>3
<1>13. IntegerOK(IntegerID, c)
  BY <1>10, <1>11, <1>12 DEF IntegerOK
<1>14. IntegerInRange(c)
  <2>1. Len(c) - (IF c[1] = 0 THEN 1 ELSE 0) <= Width
    <3>1. CASE n = 0
      <4>1. c[1] = 0
        BY <1>3, <1>11, <3>1
      <4> QED BY <1>1, <1>8, <3>1, <4>1
    <3>2. CASE n # 0
      BY <1>1, <1>7, <1>8, <3>2
    <3> QED BY <3>1, <3>2
  <2> QED BY <1>9, <2>1 DEF IntegerInRange, InOrder
<1> QED BY <1>8, <1>9, <1>10, <1>13, <1>14 DEF c

\* Where the parts of two integers written as a sequence are.
HasIntegers(b, r, m, s, n) ==
    /\ b \in Seq(Int) /\ Len(b) = 6 + m + n
    /\ b[1] = SequenceID /\ b[2] = 4 + m + n
    /\ b[3] = IntegerID /\ b[4] = m
    /\ \A i \in 1..m : b[i + 4] = r[i]
    /\ b[5 + m] = IntegerID /\ b[6 + m] = n
    /\ \A i \in 1..n : b[i + (6 + m)] = s[i]

LEMMA SequenceBytes ==
    ASSUME NEW r \in Seq(Int), NEW s \in Seq(Int)
    PROVE  HasIntegers(Sequence(r, s), r, Len(r), s, Len(s))
<1> DEFINE b == Sequence(r, s)
           m == Len(r)
           n == Len(s)
           head == <<IntegerID, m>> \o r
           body == head \o <<IntegerID, n>> \o s
<1>1. m \in Nat /\ n \in Nat /\ IntegerID \in Int /\ SequenceID \in Int
  <2>1. m \in Nat /\ n \in Nat
    OBVIOUS
  <2>2. IntegerID \in 0..(Byte - 1) /\ SequenceID \in 0..(Byte - 1)
    BY WireAssumption
  <2> QED BY <2>1, <2>2, ByteType
<1> DEFINE h1 == <<IntegerID, m>>
           h2 == <<IntegerID, n>>
           h0 == <<SequenceID, Len(body)>>
<1>3. /\ h1 \in Seq(Int) /\ Len(h1) = 2 /\ h1[1] = IntegerID /\ h1[2] = m
      /\ h2 \in Seq(Int) /\ Len(h2) = 2 /\ h2[1] = IntegerID /\ h2[2] = n
  BY <1>1
<1> DEFINE both == head \o h2
<1>4. head = h1 \o r /\ body = both \o s /\ b = h0 \o body
  BY Zenon DEF Sequence
<1> HIDE DEF head, both, body, h1, h2, b
<1>5. /\ head \in Seq(Int) /\ Len(head) = 2 + m /\ head[1] = IntegerID /\ head[2] = m
      /\ \A i \in 1..m : head[i + 2] = r[i]
  <2>1. /\ head \in Seq(Int) /\ Len(head) = Len(h1) + Len(r)
        /\ \A i \in 1..Len(h1) : head[i] = h1[i]
        /\ \A i \in 1..Len(r) : head[i + Len(h1)] = r[i]
    <3>1. h1 \in Seq(Int) /\ r \in Seq(Int) /\ head = h1 \o r
      BY <1>3, <1>4
    <3> HIDE DEF m
    <3> QED BY <3>1, Joined
  <2> QED BY <1>3, <2>1
<1>6. /\ both \in Seq(Int) /\ Len(both) = 4 + m
      /\ \A i \in 1..(2 + m) : both[i] = head[i]
      /\ both[m + 3] = IntegerID /\ both[m + 4] = n
  <2>1. /\ both \in Seq(Int) /\ Len(both) = Len(head) + Len(h2)
        /\ \A i \in 1..Len(head) : both[i] = head[i]
        /\ \A i \in 1..Len(h2) : both[i + Len(head)] = h2[i]
    BY <1>3, <1>5, Joined DEF both
  <2>2. both[1 + (2 + m)] = IntegerID /\ both[2 + (2 + m)] = n
    BY <1>3, <1>5, <2>1
  <2>3. 1 + (2 + m) = m + 3 /\ 2 + (2 + m) = m + 4 /\ (2 + m) + 2 = 4 + m
    BY <1>1
  <2> QED BY <1>3, <1>5, <2>1, <2>2, <2>3
<1>b. /\ body \in Seq(Int) /\ Len(body) = 4 + m + n
      /\ \A i \in 1..(4 + m) : body[i] = both[i]
      /\ \A i \in 1..n : body[i + (4 + m)] = s[i]
  <2>1. /\ body \in Seq(Int) /\ Len(body) = Len(both) + Len(s)
        /\ \A i \in 1..Len(both) : body[i] = both[i]
        /\ \A i \in 1..Len(s) : body[i + Len(both)] = s[i]
    BY <1>4, <1>6, Joined
  <2> QED BY <1>6, <2>1
<1>c. h0 \in Seq(Int) /\ Len(h0) = 2 /\ h0[1] = SequenceID /\ h0[2] = 4 + m + n
  BY <1>1, <1>b
<1> HIDE DEF h0
<1>d. /\ b \in Seq(Int) /\ Len(b) = 6 + m + n /\ b[1] = SequenceID /\ b[2] = 4 + m + n
      /\ \A i \in 1..(4 + m + n) : b[i + 2] = body[i]
  <2>1. /\ b \in Seq(Int) /\ Len(b) = Len(h0) + Len(body)
        /\ \A i \in 1..Len(h0) : b[i] = h0[i]
        /\ \A i \in 1..Len(body) : b[i + Len(h0)] = body[i]
    <3>1. h0 \in Seq(Int) /\ body \in Seq(Int) /\ b = h0 \o body
      BY <1>4, <1>b, <1>c
    <3> QED BY <3>1, Joined
  <2>2. 2 + (4 + m + n) = 6 + m + n
    BY <1>1
  <2> QED BY <1>b, <1>c, <2>1, <2>2
<1>7. /\ b[3] = IntegerID /\ b[4] = m
      /\ \A i \in 1..m : b[i + 4] = r[i]
      /\ b[5 + m] = IntegerID /\ b[6 + m] = n
      /\ \A i \in 1..n : b[i + (6 + m)] = s[i]
  <2>1. ASSUME NEW i \in 1..(2 + m) PROVE b[i + 2] = head[i]
    <3>1. i \in 1..(4 + m + n) /\ i \in 1..(4 + m)
      BY <1>1
    <3> QED BY <1>6, <1>b, <1>d, <3>1
  <2>2. b[3] = IntegerID /\ b[4] = m
    <3>1. 1 \in 1..(2 + m) /\ 2 \in 1..(2 + m) /\ 1 + 2 = 3 /\ 2 + 2 = 4
      BY <1>1
    <3>2. b[1 + 2] = head[1] /\ b[2 + 2] = head[2]
      BY <2>1, <3>1
    <3> QED BY <1>5, <3>1, <3>2
  <2>3. ASSUME NEW i \in 1..m PROVE b[i + 4] = r[i]
    <3>1. i + 2 \in 1..(2 + m) /\ (i + 2) + 2 = i + 4
      BY <1>1
    <3>2. b[(i + 2) + 2] = head[i + 2]
      BY <2>1, <3>1
    <3> QED BY <1>5, <3>1, <3>2
  <2>4. b[5 + m] = IntegerID /\ b[6 + m] = n
    <3>1. /\ m + 3 \in 1..(4 + m) /\ m + 4 \in 1..(4 + m)
          /\ m + 3 \in 1..(4 + m + n) /\ m + 4 \in 1..(4 + m + n)
          /\ (m + 3) + 2 = 5 + m /\ (m + 4) + 2 = 6 + m
      BY <1>1
    <3>2. b[(m + 3) + 2] = body[m + 3] /\ b[(m + 4) + 2] = body[m + 4]
      BY <1>d, <3>1
    <3>3. body[m + 3] = both[m + 3] /\ body[m + 4] = both[m + 4]
      BY <1>b, <3>1
    <3> QED BY <1>6, <3>1, <3>2, <3>3
  <2>5. ASSUME NEW i \in 1..n PROVE b[i + (6 + m)] = s[i]
    <3>1. i + (4 + m) \in 1..(4 + m + n) /\ (i + (4 + m)) + 2 = i + (6 + m)
      BY <1>1
    <3>2. b[(i + (4 + m)) + 2] = body[i + (4 + m)]
      BY <1>d, <3>1
    <3> QED BY <1>b, <3>1, <3>2
  <2> QED BY <2>2, <2>3, <2>4, <2>5
<1> QED BY <1>7, <1>d DEF HasIntegers, b, m, n

\* Two integers written as a sequence are read back.
LEMMA SequenceReadBack ==
    ASSUME NEW r \in Seq(Int), NEW s \in Seq(Int),
           Len(r) \in 1..(Width + 1), IntegerOK(IntegerID, r), IntegerInRange(r),
           Len(s) \in 1..(Width + 1), IntegerOK(IntegerID, s), IntegerInRange(s)
    PROVE  ParseDERSignature(Sequence(r, s)) =
              [ok |-> TRUE, r |-> FromBytes(r), s |-> FromBytes(s)]
<1> DEFINE m == Len(r)
           n == Len(s)
           b == Sequence(r, s)
<1>1. /\ Width \in Nat /\ m \in Nat /\ n \in Nat /\ m > 0 /\ n > 0
      /\ m <= Width + 1 /\ n <= Width + 1
  BY Powers
<1>d. /\ b \in Seq(Int) /\ Len(b) = 6 + m + n /\ b[1] = SequenceID /\ b[2] = 4 + m + n
      /\ b[3] = IntegerID /\ b[4] = m
      /\ \A i \in 1..m : b[i + 4] = r[i]
      /\ b[5 + m] = IntegerID /\ b[6 + m] = n
      /\ \A i \in 1..n : b[i + (6 + m)] = s[i]
  BY SequenceBytes, ZenonT(30) DEF HasIntegers
<1> HIDE DEF m, n, b
<1>8. SubSeq(b, 5, 4 + m) = r
  <2>1. 4 + Len(r) <= Len(b) /\ \A i \in 1..Len(r) : b[i + 4] = r[i]
    BY <1>1, <1>d DEF m
  <2>2. SubSeq(b, 4 + 1, 4 + Len(r)) = r
    BY <1>d, <2>1, Slice
  <2> QED BY <2>2 DEF m
<1>9. SubSeq(b, 7 + m, 6 + m + n) = s
  <2>1. 6 + m \in Nat /\ (6 + m) + Len(s) <= Len(b) /\ \A i \in 1..Len(s) : b[i + (6 + m)] = s[i]
    BY <1>1, <1>d DEF n
  <2> DEFINE k == 6 + m
  <2>2. SubSeq(b, k + 1, k + Len(s)) = s
    <3> HIDE DEF k
    <3>1. k \in Nat /\ k + Len(s) <= Len(b) /\ \A i \in 1..Len(s) : b[i + k] = s[i]
      BY <2>1 DEF k
    <3> QED BY <1>d, <3>1, Slice
  <2>3. k + 1 = 7 + m /\ k + Len(s) = 6 + m + n
    BY <1>1 DEF n
  <2> HIDE DEF k
  <2> QED BY <2>2, <2>3
<1>10. LengthsFit(b)
  <2>1. /\ Len(b) \in 8..(6 + 2 * (Width + 1)) /\ b[1] = SequenceID /\ b[2] = Len(b) - 2
        /\ 4 + b[4] < Len(b) /\ 5 + b[4] < Len(b)
    <3>1. b[4] = m /\ Len(b) = 6 + m + n /\ b[1] = SequenceID /\ b[2] = 4 + m + n
      BY <1>d
    <3> QED BY <1>1, <3>1
  <2>2. 6 + b[4] + b[6 + b[4]] = Len(b)
    BY <1>d
  <2> QED BY <2>1, <2>2 DEF LengthsFit
<1> DEFINE rr == SubSeq(b, 5, 4 + b[4])
           ss == SubSeq(b, 7 + b[4], 6 + b[4] + b[6 + b[4]])
<1>11. rr = r /\ ss = s /\ b[5 + b[4]] = IntegerID
  BY <1>8, <1>9, <1>d
<1>12. ParseDERSignature(b) =
          IF /\ LengthsFit(b)
             /\ IntegerOK(b[3], rr) /\ IntegerOK(b[5 + b[4]], ss)
             /\ IntegerInRange(rr) /\ IntegerInRange(ss)
          THEN [ok |-> TRUE, r |-> FromBytes(rr), s |-> FromBytes(ss)]
          ELSE None
  BY Zenon DEF ParseDERSignature
<1> HIDE DEF rr, ss
<1> QED BY <1>10, <1>11, <1>12, <1>d, Zenon DEF b

\* The signature of three bytes and more is the one that was written.
LEMMA DERReadBack ==
    ASSUME NEW r \in 1..(N - 1), NEW s \in 1..(N - 1)
    PROVE  ParseDERSignature(DER(r, s)) = [ok |-> TRUE, r |-> r, s |-> s]
<1>1. ParseDERSignature(Sequence(Canonical(r), Canonical(s))) =
         [ok |-> TRUE, r |-> FromBytes(Canonical(r)), s |-> FromBytes(Canonical(s))]
  BY CanonicalInteger, SequenceReadBack
<1> QED BY <1>1, CanonicalInteger DEF DER

\* r and s one after the other are read back.
LEMMA FixedReadBack ==
    ASSUME NEW sig, sig.r \in 0..(Power(Width) - 1), sig.s \in 0..(Power(Width) - 1)
    PROVE  /\ Fixed(sig) \in Seq(Int) /\ Len(Fixed(sig)) = 2 * Width
           /\ First(Fixed(sig)) = sig.r /\ Second(Fixed(sig)) = sig.s
<1> DEFINE a == PutBytes(sig.r)
           c == PutBytes(sig.s)
           b == Fixed(sig)
<1>1. /\ Width \in Nat \ {0}
      /\ a \in Seq(Int) /\ Len(a) = Width /\ FromBytes(a) = sig.r
      /\ c \in Seq(Int) /\ Len(c) = Width /\ FromBytes(c) = sig.s
  BY Powers, BytesReadBack
<1>2. b = a \o c
  BY DEF Fixed
<1> HIDE DEF a, b, c
<1>3. /\ b \in Seq(Int) /\ Len(b) = 2 * Width
      /\ \A i \in 1..Width : b[i] = a[i]
      /\ \A i \in 1..Width : b[i + Width] = c[i]
  <2>1. /\ b \in Seq(Int) /\ Len(b) = Len(a) + Len(c)
        /\ \A i \in 1..Len(a) : b[i] = a[i]
        /\ \A i \in 1..Len(c) : b[i + Len(a)] = c[i]
    BY <1>1, <1>2, Joined
  <2> QED BY <1>1, <2>1
<1>4. SubSeq(b, 1, Width) = a
  <2>1. 0 + Len(a) <= Len(b) /\ 0 \in Nat /\ \A i \in 1..Len(a) : b[i + 0] = a[i]
    BY <1>1, <1>3
  <2>2. SubSeq(b, 0 + 1, 0 + Len(a)) = a
    BY <1>1, <1>3, <2>1, Slice
  <2> QED BY <1>1, <2>2
<1>5. SubSeq(b, Width + 1, 2 * Width) = c
  <2>1. Width + Len(c) <= Len(b) /\ Width \in Nat /\ \A i \in 1..Len(c) : b[i + Width] = c[i]
    BY <1>1, <1>3
  <2>2. SubSeq(b, Width + 1, Width + Len(c)) = c
    BY <1>1, <1>3, <2>1, Slice
  <2>3. Width + Len(c) = 2 * Width
    BY <1>1
  <2> QED BY <2>2, <2>3
<1>6. First(b) = sig.r /\ Second(b) = sig.s
  BY <1>1, <1>4, <1>5 DEF First, Second
<1> QED BY <1>3, <1>6 DEF b

-----------------------------------------------------------------------------
(* Public keys.                                                            *)

\* The powers of a number, each computed from the one before it.
Powered(a, f) ==
    /\ f \in [0..P -> Int] /\ f[0] = 1
    /\ \A k \in 1..P : f[k] = Mod(f[k - 1] * a)

LEMMA PoweredExist ==
    ASSUME NEW a \in Int
    PROVE  \E f : Powered(a, f)
<1> DEFINE Upto(m, f) == /\ f \in [0..m -> Int] /\ f[0] = 1
                         /\ \A i \in 1..m : f[i] = Mod(f[i - 1] * a)
           S == {m \in 0..P : \E f : Upto(m, f)}
<1>1. P \in Nat
  BY CurveNumbers
<1>2. 0 \in S
  <2>1. Upto(0, [i \in 0..0 |-> 1])
    OBVIOUS
  <2>2. 0 \in 0..P
    BY <1>1
  <2> HIDE DEF Upto
  <2>3. \E f : Upto(0, f)
    BY <2>1, Zenon
  <2> QED BY <2>2, <2>3
<1>3. ASSUME NEW m \in 0..(P - 1), m \in S PROVE m + 1 \in S
  <2>1. PICK f : Upto(m, f)
    BY <1>3
  <2> DEFINE last == Mod(f[m] * a)
             g == [i \in 0..(m + 1) |-> IF i = m + 1 THEN last ELSE f[i]]
  <2>2. last \in Int
    <3>1. f[m] \in Int
      BY <1>1, <2>1
    <3> DEFINE u == f[m] * a
    <3>2. u \in Int
      BY <3>1, Ring
    <3> HIDE DEF u
    <3>3. Mod(u) \in Int
      BY <3>2, ModFacts
    <3> QED BY <3>3 DEF u
  <2>3. last = Mod(f[m] * a)
    OBVIOUS
  <2> HIDE DEF last
  <2>4. g \in [0..(m + 1) -> Int] /\ g[0] = 1
    BY <1>1, <2>1, <2>2
  <2>5. ASSUME NEW i \in 1..(m + 1) PROVE g[i] = Mod(g[i - 1] * a)
    <3>1. CASE i = m + 1
      <4>1. g[i] = last /\ g[i - 1] = f[m] /\ i - 1 = m
        BY <1>1, <3>1
      <4> HIDE DEF g
      <4> QED BY <2>3, <3>1, <4>1, Zenon
    <3>2. CASE i # m + 1
      <4>1. g[i] = f[i] /\ g[i - 1] = f[i - 1] /\ i \in 1..m
        BY <1>1, <3>2
      <4> HIDE DEF g
      <4> QED BY <2>1, <4>1
    <3> QED BY <3>1, <3>2
  <2> HIDE DEF g
  <2>6. Upto(m + 1, g)
    BY <2>4, <2>5
  <2>7. m + 1 \in 0..P
    BY <1>1
  <2> QED BY <2>6, <2>7
<1>4. P \in S
  <2>1. S \subseteq 0..P /\ P \in 0..P
    BY <1>1
  <2> HIDE DEF S
  <2>2. \A m \in 0..P : m \in S
    BY <1>1, <1>2, <1>3, <2>1, UpTo
  <2> QED BY <2>1, <2>2
<1> QED BY <1>4 DEF Powered

\* The power taken for a root is a number below the prime.
LEMMA RootInField ==
    ASSUME NEW a \in Int
    PROVE  /\ SquareRootVal(a).root \in 0..(P - 1)
           /\ SquareRootVal(a).ok <=> Mod(SquareRootVal(a).root * SquareRootVal(a).root) = a
<1> DEFINE Rec(v) == v = [k \in 0..P |-> IF k = 0 THEN 1 ELSE Mod(v[k - 1] * a)]
           v == CHOOSE v : Rec(v)
           e == (P + 1) \div 4
<1>1. SquareRootVal(a) = RootOf(a, v[e])
  BY Zenon DEF SquareRootVal
<1>2. P \in Nat /\ P > 7
  BY CurveNumbers
<1>3. e \in 1..P /\ e - 1 \in 0..P
  BY <1>2
<1> HIDE DEF e
<1>4. PICK f : Powered(a, f)
  BY PoweredExist
<1>5. /\ f \in [0..P -> Int] /\ f[0] = 1
      /\ \A k \in 1..P : f[k] = Mod(f[k - 1] * a)
  BY <1>4 DEF Powered
<1>6. Rec(f)
  <2> DEFINE g == [k \in 0..P |-> IF k = 0 THEN 1 ELSE Mod(f[k - 1] * a)]
  <2>1. ASSUME NEW k \in 0..P PROVE f[k] = g[k]
    <3>1. CASE k = 0
      BY <1>5, <3>1
    <3>2. CASE k # 0
      <4>1. k \in 1..P
        BY <1>2, <3>2
      <4> QED BY <1>5, <3>2, <4>1
    <3> QED BY <3>1, <3>2
  <2>2. DOMAIN f = 0..P /\ DOMAIN g = 0..P /\ f = [k \in 0..P |-> f[k]]
    BY <1>5
  <2>3. f = g
    <3>1. g = [k \in 0..P |-> g[k]]
      BY Zenon
    <3> HIDE DEF g
    <3> QED BY <2>1, <2>2, <3>1
  <2> QED BY <2>3
<1>7. Rec(v)
  BY <1>6, Zenon
<1>8. v[0] = 1 /\ \A k \in 1..P : v[k] = Mod(v[k - 1] * a)
  <2> HIDE DEF v
  <2>1. ASSUME NEW k \in 0..P PROVE v[k] = IF k = 0 THEN 1 ELSE Mod(v[k - 1] * a)
    BY <1>7, Zenon
  <2>2. 0 \in 0..P /\ \A k \in 1..P : k \in 0..P /\ k # 0
    BY <1>2
  <2> QED BY <2>1, <2>2
<1> DEFINE S == {k \in 0..P : v[k] \in Int}
<1> HIDE DEF v
<1>9. 0 \in S /\ S \subseteq 0..P
  BY <1>2, <1>8
<1>10. \A k \in 0..P : v[k] \in Int => v[k] * a \in Int /\ Mod(v[k] * a) \in 0..(P - 1)
  <2> TAKE k \in 0..P
  <2> HAVE v[k] \in Int
  <2> DEFINE u == v[k] * a
  <2>1. u \in Int
    BY Ring
  <2> HIDE DEF u
  <2>2. Mod(u) \in 0..(P - 1)
    BY <2>1, ModFacts
  <2> QED BY <2>1, <2>2 DEF u
<1>11. ASSUME NEW k \in 0..(P - 1), k \in S PROVE k + 1 \in S
  <2>1. k + 1 \in 1..P /\ (k + 1) - 1 = k /\ k + 1 \in 0..P /\ k \in 0..P
    BY <1>2
  <2>2. v[k + 1] = Mod(v[k] * a)
    BY <1>8, <2>1
  <2>3. Mod(v[k] * a) \in 0..(P - 1)
    BY <1>10, <1>11, <2>1
  <2>4. v[k + 1] \in Int
    BY <1>2, <2>2, <2>3
  <2> QED BY <2>1, <2>4
<1>12. \A k \in 0..P : k \in S
  <2> HIDE DEF S
  <2> QED BY <1>2, <1>9, <1>11, UpTo
<1>13. v[e] \in 0..(P - 1)
  <2>1. v[e - 1] \in Int
    BY <1>3, <1>12
  <2>2. Mod(v[e - 1] * a) \in 0..(P - 1)
    BY <1>3, <1>10, <2>1
  <2>3. v[e] = Mod(v[e - 1] * a)
    BY <1>3, <1>8
  <2> QED BY <2>2, <2>3
<1> HIDE DEF Rec
<1>14. /\ SquareRootVal(a).root = v[e]
       /\ SquareRootVal(a).ok <=> Mod(v[e] * v[e]) = a
  <2> DEFINE ok == Mod(v[e] * v[e]) = a
  <2>1. SquareRootVal(a) = [root |-> v[e], ok |-> ok]
    BY <1>1, Zenon DEF RootOf
  <2> HIDE DEF ok
  <2>2. SquareRootVal(a).root = v[e] /\ SquareRootVal(a).ok = ok
    BY <2>1
  <2> QED BY <2>2, Zenon DEF ok
<1> QED BY <1>13, <1>14

\* The power that is taken for the root of a square is one of its two roots.
LEMMA RootOfSquare ==
    ASSUME NEW y \in 0..(P - 1)
    PROVE  /\ SquareRootVal(Mod(y * y)).ok
           /\ SquareRootVal(Mod(y * y)).root \in 0..(P - 1)
           /\ \/ SquareRootVal(Mod(y * y)).root = y
              \/ SquareRootVal(Mod(y * y)).root = Mod(P - y)
<1> DEFINE s == SquareRootVal(Mod(y * y))
           z == s.root
<1>1. s.ok /\ z \in 0..(P - 1)
  <2>1. y \in Int /\ Mod(y * y) \in Int
    <3> DEFINE u == y * y
    <3>1. P \in Nat \ {0}
      BY CurveNumbers
    <3>2. y \in Int
      BY <3>1
    <3>3. u \in Int
      BY <3>2, Ring
    <3> HIDE DEF u
    <3>4. Mod(u) \in Int
      BY <3>3, ModFacts
    <3> QED BY <3>2, <3>4 DEF u
  <2>2. s.ok
    BY RootAssumption, Zenon
  <2>3. z \in 0..(P - 1)
    BY <2>1, RootInField, Zenon
  <2> QED BY <2>2, <2>3
<1>2. \E any : s = RootOf(Mod(y * y), any)
  BY Zenon DEF SquareRootVal
<1>3. s.ok <=> Mod(z * z) = Mod(y * y)
  <2>1. PICK any : s = RootOf(Mod(y * y), any)
    BY <1>2, Zenon
  <2> HIDE DEF s
  <2>2. s = [root |-> any, ok |-> Mod(any * any) = Mod(y * y)]
    BY <2>1, Zenon DEF RootOf
  <2>3. s.root = any /\ s.ok = (Mod(any * any) = Mod(y * y))
    BY <2>2, Zenon
  <2> QED BY <2>3, Zenon
<1> HIDE DEF s, z
<1>4. /\ Prime(P) /\ P \in Nat \ {0} /\ y \in Int /\ z \in Int /\ 0 \in Int
      /\ z - y \in Int /\ z + y \in Int /\ P - y \in Int /\ -y \in Int
  BY <1>1, CurveNumbers
<1>5. Cong(P, (z - y) * (z + y), 0)
  <2>1. z * z \in Int /\ y * y \in Int /\ y * z \in Int /\ z * y = y * z
    BY <1>4, Ring
  <2>2. (z - y) * (z + y) = z * z + (-(y * y))
    <3>1. (z - y) * (z + y) = (z - y) * z + (z - y) * y
      BY <1>4, Ring
    <3>2. (z - y) * z = z * z - y * z /\ (z - y) * y = z * y - y * y
      BY <1>4, Ring
    <3> DEFINE zz == z * z
               yy == y * y
               yz == y * z
    <3>3. zz \in Int /\ yy \in Int /\ yz \in Int /\ (z - y) * (z + y) = (zz - yz) + (yz - yy)
      BY <2>1, <3>1, <3>2
    <3> HIDE DEF zz, yy, yz
    <3>4. (z - y) * (z + y) = zz + (-yy)
      BY <3>3
    <3> QED BY <3>4 DEF zz, yy
  <2> DEFINE zz == z * z
             yy == y * y
  <2>3. zz \in Int /\ yy \in Int /\ Cong(P, zz, yy)
    <3>1. zz \in Int /\ yy \in Int /\ Mod(zz) = Mod(yy)
      BY <1>1, <1>3, <2>1
    <3> HIDE DEF zz, yy
    <3> QED BY <3>1, ModFacts
  <2>4. (z - y) * (z + y) = zz + (-yy)
    BY <2>2
  <2> HIDE DEF zz, yy
  <2>5. Cong(P, -yy, -yy) /\ -yy \in Int
    BY <1>4, <2>3, CongRefl
  <2>6. Cong(P, zz + (-yy), yy + (-yy)) /\ yy + (-yy) = 0
    BY <1>4, <2>3, <2>5, CongPlus
  <2> QED BY <2>4, <2>6
<1>6. Cong(P, z - y, 0) \/ Cong(P, z + y, 0)
  BY <1>4, <1>5, PrimeProduct
<1>7. Cong(P, z - y, 0) => z = y
  <2> SUFFICES ASSUME Cong(P, z - y, 0) PROVE z = y
    OBVIOUS
  <2>1. Cong(P, (z - y) + y, 0 + y)
    BY <1>4, CongRefl, CongPlus
  <2>2. (z - y) + y = z /\ 0 + y = y
    BY <1>4
  <2> QED BY <1>1, <1>4, <2>1, <2>2, CongSmall
<1>8. Cong(P, z + y, 0) => z = Mod(P - y)
  <2> SUFFICES ASSUME Cong(P, z + y, 0) PROVE z = Mod(P - y)
    OBVIOUS
  <2>1. Cong(P, P - y, -y) /\ Cong(P, -y, P - y)
    BY <1>4, CongRefl, CongNeg, CongSym
  <2>2. Cong(P, (z + y) + (-y), 0 + (-y))
    BY <1>4, CongRefl, CongPlus
  <2>3. (z + y) + (-y) = z /\ 0 + (-y) = -y
    BY <1>4
  <2>4. Cong(P, z, P - y)
    BY <1>4, <2>1, <2>2, <2>3, CongTrans
  <2> QED BY <1>1, <1>4, <2>4, ModFacts
<1> QED BY <1>1, <1>6, <1>7, <1>8 DEF s, z

\* A point of the curve is known by x and the oddness of y.
LEMMA DecompressPoint ==
    ASSUME NEW pt \in OnCurve, NEW odd \in BOOLEAN, odd = IsOdd(pt[2])
    PROVE  DecompressY(pt[1], odd).ok /\ DecompressY(pt[1], odd).y = pt[2]
<1> DEFINE x == pt[1]
           y == pt[2]
           s == SquareRootVal(Mod(y * y))
           z == s.root
<1>1. y \in 0..(P - 1) /\ Mod(y * y) = Mod(x * x * x + 7) /\ P \in Nat /\ P % 4 = 3 /\ P > 7
  BY CurvePoint, CurveNumbers
<1>2. s.ok /\ z \in 0..(P - 1) /\ (z = y \/ z = Mod(P - y))
  BY <1>1, RootOfSquare
<1>3. DecompressY(x, odd) = WithOddness(s, odd)
  BY <1>1, Zenon DEF DecompressY
<1> HIDE DEF x, y, s, z
<1>4. /\ DecompressY(x, odd).ok
      /\ DecompressY(x, odd).y = IF (z % 2 = 1) = odd THEN z ELSE Mod(P - z)
  <2>1. WithOddness(s, odd) = [ok |-> s.ok, y |-> IF ~s.ok \/ (z % 2 = 1) = odd THEN z ELSE Mod(P - z)]
    BY Zenon DEF WithOddness, z
  <2> QED BY <1>2, <1>3, <2>1
<1>5. odd = (y % 2 = 1)
  BY DEF IsOdd, y
<1>6. CASE z = y
  BY <1>4, <1>5, <1>6 DEF x, y
<1>7. CASE z # y
  <2>1. y # 0
    <3> SUFFICES ASSUME y = 0 PROVE FALSE
      OBVIOUS
    <3>1. P - y = P /\ P % P = 0
      BY <1>1
    <3> QED BY <1>2, <1>7, <3>1 DEF Mod
  <2>2. P - y \in 0..(P - 1) /\ P - y \in Int
    BY <1>1, <2>1
  <2>3. z = P - y
    BY <1>2, <1>7, <2>2, ModFacts
  <2>4. P - z = y /\ y \in Int
    BY <1>1, <2>3
  <2>5. (z % 2 = 1) <=> ~(y % 2 = 1)
    BY <1>1, <2>3
  <2>6. Mod(P - z) = y
    BY <1>1, <2>4, ModFacts
  <2>7. (z % 2 = 1) # odd
    BY <1>5, <2>5
  <2> QED BY <1>4, <2>6, <2>7 DEF x, y
<1> QED BY <1>6, <1>7

\* A number of a field fits into the bytes.
LEMMA FieldFits ==
    ASSUME NEW a \in 0..(P - 1)
    PROVE  /\ a \in 0..(Power(Width) - 1) /\ PutBytes(a) \in Seq(Int)
           /\ Len(PutBytes(a)) = Width /\ FromBytes(PutBytes(a)) = a
<1>1. a \in 0..(Power(Width) - 1)
  <2>1. Power(Width) > P /\ Power(Width) \in Nat /\ P \in Nat
    <3>1. Width \in 0..Width
      BY Powers
    <3> QED BY <3>1, Powers, CurveNumbers
  <2> QED BY <2>1
<1> QED BY <1>1, BytesReadBack

\* The bytes after the first.
LEMMA TailOf ==
    ASSUME NEW a \in Int, NEW b \in Seq(Int)
    PROVE  /\ <<a>> \o b \in Seq(Int) /\ Len(<<a>> \o b) = 1 + Len(b)
           /\ (<<a>> \o b)[1] = a /\ Tail(<<a>> \o b) = b
<1> DEFINE h == <<a>>
           c == h \o b
<1>1. h \in Seq(Int) /\ Len(h) = 1 /\ h[1] = a
  OBVIOUS
<1> HIDE DEF h
<1>2. /\ c \in Seq(Int) /\ Len(c) = 1 + Len(b) /\ c[1] = a
      /\ \A i \in 1..Len(b) : c[i + 1] = b[i]
  <2>1. /\ c \in Seq(Int) /\ Len(c) = Len(h) + Len(b)
        /\ \A i \in 1..Len(h) : c[i] = h[i]
        /\ \A i \in 1..Len(b) : c[i + Len(h)] = b[i]
    BY <1>1, Joined
  <2> HIDE DEF c
  <2> QED BY <1>1, <2>1
<1> HIDE DEF c
<1> DEFINE t == Tail(c)
<1>3. t \in Seq(Int) /\ Len(t) = Len(b) /\ \A i \in 1..Len(b) : t[i] = c[i + 1]
  BY <1>2
<1> HIDE DEF t
<1>4. t = b
  BY <1>2, <1>3, SeqEqual
<1> QED BY <1>2, <1>4 DEF t, c, h

LEMMA WholeFirst ==
    ASSUME NEW b \in Seq(Int), Len(b) = Width
    PROVE  First(b) = FromBytes(b)
<1>1. 0 + Len(b) <= Len(b) /\ 0 \in Nat /\ \A i \in 1..Len(b) : b[i + 0] = b[i]
  OBVIOUS
<1>2. SubSeq(b, 0 + 1, 0 + Len(b)) = b
  BY <1>1, Slice
<1>3. SubSeq(b, 1, Width) = b
  BY <1>2
<1> QED BY <1>3 DEF First

\* A key in its short form: x and the oddness of y.
LEMMA CompressedReadBack ==
    ASSUME NEW pt \in OnCurve, NEW format \in {2, 3}, format = 3 <=> IsOdd(pt[2])
    PROVE  /\ ParsePubKey(<<format>> \o PutBytes(pt[1])).ok
           /\ ParsePubKey(<<format>> \o PutBytes(pt[1])).pt = pt
<1> DEFINE x == pt[1]
           body == PutBytes(x)
           b == <<format>> \o body
           y == DecompressY(First(body), b[1] = 3)
<1>1. x \in 0..(P - 1) /\ pt = <<x, pt[2]>> /\ Width \in Nat \ {0} /\ format \in Int
  BY CurvePoint, Powers
<1>2. body \in Seq(Int) /\ Len(body) = Width /\ First(body) = x
  <2>1. body \in Seq(Int) /\ Len(body) = Width /\ FromBytes(body) = x
    BY <1>1, FieldFits
  <2> HIDE DEF body
  <2> QED BY <2>1, WholeFirst
<1> HIDE DEF body
<1>3. b[1] = format /\ Tail(b) = body /\ Len(b) = 1 + Width
  BY <1>1, <1>2, TailOf
<1> HIDE DEF b
<1>4. y.ok /\ y.y = pt[2]
  <2> DEFINE odd == b[1] = 3
  <2>1. odd \in BOOLEAN /\ odd = IsOdd(pt[2])
    BY <1>3 DEF IsOdd
  <2> HIDE DEF odd
  <2>2. DecompressY(x, odd).ok /\ DecompressY(x, odd).y = pt[2]
    BY <2>1, DecompressPoint
  <2> QED BY <1>2, <2>2 DEF odd
<1>5. Len(b) # 1 + 2 * Width /\ First(body) < P
  BY <1>1, <1>2, <1>3, CurveNumbers, SMTT(30)
<1> HIDE DEF y, x
<1>6. ParsePubKey(b) = [ok |-> TRUE, pt |-> <<First(body), y.y>>]
  <2>1. ParsePubKey(b) =
          CASE /\ Len(b) = 1 + 2 * Width
               /\ First(body) < P /\ Second(body) < P
               /\ FormatFits(b[1], Second(body))
               /\ isOnCurve(First(body), Second(body)) ->
                 [ok |-> TRUE, pt |-> <<First(body), Second(body)>>]
            [] Len(b) = 1 + Width /\ b[1] \in {2, 3} /\ First(body) < P /\ y.ok ->
                 [ok |-> TRUE, pt |-> <<First(body), y.y>>]
            [] OTHER -> None
    BY <1>3, Zenon DEF ParsePubKey, y
  <2> QED BY <1>3, <1>4, <1>5, <2>1
<1> QED BY <1>1, <1>2, <1>4, <1>6, SMTT(30) DEF b, body, x

\* A key in its long form.
LEMMA UncompressedReadBack ==
    ASSUME NEW pt \in OnCurve
    PROVE  /\ ParsePubKey(SerializeUncompressed(pt)).ok
           /\ ParsePubKey(SerializeUncompressed(pt)).pt = pt
<1> DEFINE x == pt[1]
           y == pt[2]
           sig == [r |-> x, s |-> y]
           body == Fixed(sig)
           b == SerializeUncompressed(pt)
<1>1. /\ x \in 0..(P - 1) /\ y \in 0..(P - 1) /\ pt = <<x, y>> /\ Width \in Nat \ {0}
      /\ Mod(y * y) = Mod(x * x * x + 7)
  BY CurvePoint, Powers
<1>2. body \in Seq(Int) /\ Len(body) = 2 * Width /\ First(body) = x /\ Second(body) = y
  <2>1. x \in 0..(Power(Width) - 1) /\ y \in 0..(Power(Width) - 1)
    BY <1>1, FieldFits
  <2>2. sig.r = x /\ sig.s = y
    OBVIOUS
  <2> HIDE DEF sig, x, y
  <2> QED BY <2>1, <2>2, FixedReadBack
<1>3. b = <<4>> \o body
  <2> DEFINE p == PutBytes(x)
             q == PutBytes(y)
             h == <<4>>
  <2>1. p \in Seq(Int) /\ q \in Seq(Int) /\ h \in Seq(Int)
    BY <1>1, FieldFits
  <2>2. b = (h \o p) \o q /\ body = p \o q
    BY DEF SerializeUncompressed, Fixed
  <2> HIDE DEF p, q, h
  <2>3. (h \o p) \o q = h \o (p \o q)
    BY <2>1, ConcatAssociative, SMTT(30)
  <2> QED BY <2>2, <2>3 DEF h
<1> HIDE DEF body, b
<1>4. b[1] = 4 /\ Tail(b) = body /\ Len(b) = 1 + 2 * Width
  BY <1>2, <1>3, TailOf
<1>5. First(body) < P /\ Second(body) < P
  BY <1>1, <1>2, CurveNumbers, SMTT(30)
<1>6. FormatFits(b[1], Second(body)) /\ isOnCurve(First(body), Second(body))
  BY <1>1, <1>2, <1>4, Zenon DEF FormatFits, isOnCurve
<1> HIDE DEF x, y
<1>7. ParsePubKey(b) = [ok |-> TRUE, pt |-> <<First(body), Second(body)>>]
  <2> DEFINE yy == DecompressY(First(body), b[1] = 3)
  <2>1. ParsePubKey(b) =
          CASE /\ Len(b) = 1 + 2 * Width
               /\ First(body) < P /\ Second(body) < P
               /\ FormatFits(b[1], Second(body))
               /\ isOnCurve(First(body), Second(body)) ->
                 [ok |-> TRUE, pt |-> <<First(body), Second(body)>>]
            [] Len(b) = 1 + Width /\ b[1] \in {2, 3} /\ First(body) < P /\ yy.ok ->
                 [ok |-> TRUE, pt |-> <<First(body), yy.y>>]
            [] OTHER -> None
    BY <1>4, Zenon DEF ParsePubKey
  <2> HIDE DEF yy
  <2>2. b[1] \notin {2, 3}
    BY <1>4
  <2> QED BY <1>4, <1>5, <1>6, <2>1, <2>2
<1>8. ParsePubKey(b).ok /\ ParsePubKey(b).pt = <<First(body), Second(body)>>
  BY <1>7
<1>9. <<First(body), Second(body)>> = pt
  BY <1>1, <1>2
<1> QED BY <1>8, <1>9 DEF b

-----------------------------------------------------------------------------
(* Schnorr.                                                                *)

\* Of a scalar and its negation, EvenKey takes the one of the even point.
LEMMA EvenPoint ==
    ASSUME NEW k \in 1..(N - 1)
    PROVE  /\ EvenKey(k) \in 1..(N - 1)
           /\ Multiples[EvenKey(k)] \in OnCurve
           /\ Multiples[EvenKey(k)][1] = Multiples[k][1]
           /\ ~IsOdd(Multiples[EvenKey(k)][2])
<1>1. k \in 0..(N - 1) /\ N - k \in 1..(N - 1)
  BY CurveNumbers
<1>2. EvenKey(k) = IF IsOdd(Multiples[k][2]) THEN N - k ELSE k
  BY <1>1, PubKeyMultiple DEF EvenKey
<1>3. EvenKey(k) \in 1..(N - 1)
  BY <1>1, <1>2
<1>4. EvenKey(k) \in 0..(N - 1) /\ EvenKey(k) # 0
  BY <1>3, CurveNumbers
<1>5. Multiples[EvenKey(k)] \in OnCurve
  BY <1>4, MultiplesPoints
<1>6. /\ Multiples[N - k][1] = Multiples[k][1]
      /\ IsOdd(Multiples[N - k][2]) <=> ~IsOdd(Multiples[k][2])
  BY NegMultiple, NegOddness
<1> QED BY <1>2, <1>3, <1>5, <1>6

\* The point of even y is found from x.
LEMMA LiftPoint ==
    ASSUME NEW k \in 1..(N - 1)
    PROVE  Lift(Multiples[k][1]).ok /\ Lift(Multiples[k][1]).pt = Multiples[EvenKey(k)]
<1> DEFINE pt == Multiples[EvenKey(k)]
<1>1. pt \in OnCurve /\ pt[1] = Multiples[k][1] /\ ~IsOdd(pt[2])
  BY EvenPoint
<1> HIDE DEF pt
<1>2. ParsePubKey(<<2>> \o PutBytes(pt[1])).ok /\ ParsePubKey(<<2>> \o PutBytes(pt[1])).pt = pt
  <2>1. 2 \in {2, 3} /\ (2 = 3 <=> IsOdd(pt[2]))
    BY <1>1
  <2> QED BY <1>1, <2>1, CompressedReadBack
<1> QED BY <1>1, <1>2 DEF Lift, pt

\* What a verifier adds to s * G takes the key away again.
LEMMA ChallengeFactor ==
    ASSUME NEW e \in 0..(N - 1), NEW l \in Int, NEW v \in 0..(N - 1)
    PROVE  (((e * l + v) % N) + ((N - e) % N) * l) % N = v
<1> DEFINE t == e * l
           u == t + v
           s == u % N
           b == (N - e) % N
<1>1. /\ N \in Nat \ {0} /\ N \in Int /\ e \in Int /\ v \in Int /\ t \in Int /\ N - e \in Int
      /\ -e \in Int /\ -t \in Int
  <2>1. N \in Nat \ {0} /\ N \in Int /\ e \in Int /\ v \in Int
    BY CurveNumbers
  <2> QED BY <2>1, Ring
<1> HIDE DEF t
<1>2. u \in Int
  BY <1>1
<1> HIDE DEF u
<1>3. s \in Int /\ Cong(N, s, u)
  BY <1>1, <1>2, DivMod, CongMod
<1> HIDE DEF s
<1>4. b \in Int /\ Cong(N, b, N - e)
  <2> DEFINE f == N - e
  <2>1. f \in Int
    BY <1>1
  <2> HIDE DEF f
  <2>2. f % N \in Int /\ Cong(N, f % N, f)
    BY <1>1, <2>1, DivMod, CongMod
  <2> QED BY <2>2 DEF f
<1> HIDE DEF b
<1>5. Cong(N, N - e, -e)
  BY <1>1, CongRefl, CongNeg
<1>6. Cong(N, b, -e)
  BY <1>1, <1>4, <1>5, CongTrans
<1>7. Cong(N, b * l, -t) /\ b * l \in Int
  <2>1. Cong(N, b * l, (-e) * l) /\ b * l \in Int
    BY <1>1, <1>4, <1>6, CongScale, Ring
  <2>2. (-e) * l = -t
    BY <1>1, Ring DEF t
  <2> QED BY <2>1, <2>2
<1> DEFINE bl == b * l
<1>8. bl \in Int /\ Cong(N, bl, -t)
  BY <1>7
<1> HIDE DEF bl
<1>9. Cong(N, s + bl, u + (-t)) /\ u + (-t) = v /\ s + bl \in Int
  BY <1>1, <1>2, <1>3, <1>8, CongPlus DEF u
<1>10. (s + bl) % N = v
  <2>1. (s + bl) % N = v % N
    BY <1>1, <1>9, CongIff
  <2>2. v % N = v
    BY <1>1, ModSmall
  <2> QED BY <2>1, <2>2
<1> QED BY <1>10 DEF s, bl, b, u, t

\* What is signed as the algorithm says is accepted, for the key and for its
\* negation, which have the same x.
LEMMA SchnorrVerifies ==
    ASSUME NEW key \in 1..(N - 1), NEW k \in 1..(N - 1), NEW h, NEW e \in 0..(N - 1), NEW sig,
           sig.r = Multiples[k][1], e = ChallengeHash(sig.r, Multiples[key][1], h) % N,
           sig.s = (e * EvenKey(key) + EvenKey(k)) % N
    PROVE  schnorrVerify(sig, h, Multiples[key][1])
<1> DEFINE l == EvenKey(key)
           v == EvenKey(k)
           x == Multiples[key][1]
           lifted == Lift(x)
           R == MulAdd(sig.s, (N - e) % N, lifted.pt)
<1>1. /\ l \in 1..(N - 1) /\ v \in 1..(N - 1) /\ l \in 0..(N - 1) /\ v \in 0..(N - 1)
      /\ l \in Int /\ v \in Int /\ N \in Nat \ {0} /\ e \in Int /\ N - e \in Int
  BY EvenPoint, CurveNumbers
<1>2. lifted.ok /\ lifted.pt = Multiples[l]
  BY LiftPoint
<1>4. schnorrVerify(sig, h, x) <=>
         /\ lifted.ok /\ ~IsNowhere(R) /\ ~IsOdd(Affine(R)[2]) /\ Affine(R)[1] = sig.r
  BY Zenon DEF schnorrVerify
<1>5. /\ Multiples[v] \in OnCurve /\ Multiples[v][1] = sig.r /\ ~IsOdd(Multiples[v][2])
  BY EvenPoint
<1> HIDE DEF l, v, lifted
<1>6. (sig.s + ((N - e) % N) * l) % N = v
  <2>1. sig.s = (e * l + v) % N
    BY DEF l, v
  <2>2. (((e * l + v) % N) + ((N - e) % N) * l) % N = v
    BY <1>1, ChallengeFactor
  <2> QED BY <2>1, <2>2, Zenon
<1>7. sig.s \in Int /\ (N - e) % N \in Int
  <2> DEFINE a == e * l + v
             f == N - e
  <2>1. a \in Int /\ f \in Int
    <3>1. e * l \in Int
      BY <1>1, Ring
    <3> QED BY <1>1, <3>1
  <2>2. sig.s = a % N
    BY DEF l, v
  <2> HIDE DEF a, f
  <2>3. a % N \in Int /\ f % N \in Int
    BY <1>1, <2>1, DivMod
  <2> QED BY <2>2, <2>3 DEF f
<1>8. R = Jacobian(Multiples[v], AnyZ)
  <2> DEFINE b == (N - e) % N
  <2>1. b \in Int /\ (sig.s + b * l) % N = v
    BY <1>6, <1>7
  <2> HIDE DEF b
  <2>2. MulAdd(sig.s, b, Multiples[l]) = Jacobian(Multiples[(sig.s + b * l) % N], AnyZ)
    <3> DEFINE a == sig.s
    <3>1. a \in Int /\ b \in Int /\ l \in 0..(N - 1)
      BY <1>1, <1>7, <2>1
    <3> HIDE DEF a
    <3>2. MulAdd(a, b, Multiples[l]) = Jacobian(Multiples[(a + b * l) % N], AnyZ)
      BY <3>1, MulAddMultiple
    <3> QED BY <3>2 DEF a
  <2> QED BY <1>2, <2>1, <2>2, Zenon DEF b
<1> HIDE DEF R
<1>9. ~IsNowhere(R) /\ Affine(R) = Multiples[v]
  BY <1>5, <1>8, WireAssumption, JacobianSomewhere, AffineJacobian
<1> QED BY <1>2, <1>4, <1>5, <1>9 DEF x

SchnorrSignature(key, k, h) ==
    [ok |-> TRUE, kind |-> "schnorr", r |-> Multiples[k][1],
     s |-> (ChallengeHash(Multiples[k][1], Multiples[key][1], h) * EvenKey(key) + EvenKey(k)) % N]

\* Schnorr signing gives a signature that verifies and fits into its bytes.
LEMMA SchnorrGives ==
    ASSUME NEW key \in 1..(N - 1), NEW k \in 1..(N - 1), NEW h \in Hashes,
           NEW fastSign \in BOOLEAN, schnorrSign(key, k, h, fastSign).ok
    PROVE  LET sig == schnorrSign(key, k, h, fastSign)
           IN  /\ sig.kind = "schnorr" /\ sig.r \in 0..(P - 1) /\ sig.s \in 0..(N - 1)
               /\ schnorrVerify(sig, h, Multiples[key][1])
<1> DEFINE e == ChallengeHash(Multiples[k][1], Multiples[key][1], h)
           sig == SchnorrSignature(key, k, h)
           sg == schnorrSign(key, k, h, fastSign)
           x == Multiples[key][1]
<1>1. /\ key \in 0..(N - 1) /\ k \in 0..(N - 1) /\ key # 0 /\ k # 0 /\ N \in Nat \ {0} /\ P \in Nat
  BY CurveNumbers
<1>2. /\ PubKey(key) = Multiples[key] /\ PubKey(k) = Multiples[k]
      /\ Multiples[k] \in OnCurve /\ Multiples[key] \in OnCurve
  BY <1>1, PubKeyMultiple, MultiplesPoints
<1>3. Multiples[k][1] \in 0..(P - 1) /\ x \in 0..(P - 1)
  BY <1>2, CurvePoint
<1>4. e \in Nat
  BY <1>3, HashAssumption
<1>5. (IF IsOdd(Multiples[k][2]) THEN N - k ELSE k) = EvenKey(k)
  BY <1>2, Zenon DEF EvenKey
<1>6. sg = IF e < N /\ (fastSign \/ schnorrVerify(sig, h, x)) THEN sig ELSE None
  BY <1>2, <1>5, Zenon DEF schnorrSign, SchnorrSignature
<1>7. sg = sig /\ e < N
  <2>1. sg.ok
    OBVIOUS
  <2> HIDE DEF sg, sig, e, x
  <2> QED BY <1>6, <2>1 DEF None
<1> HIDE DEF sg
<1>8. e \in 0..(N - 1)
  BY <1>1, <1>4, <1>7
<1>9. sig.r = Multiples[k][1] /\ sig.s = (e * EvenKey(key) + EvenKey(k)) % N /\ sig.kind = "schnorr"
  BY DEF SchnorrSignature
<1>10. sig.s \in 0..(N - 1)
  <2> DEFINE a == e * EvenKey(key) + EvenKey(k)
  <2>1. a \in Int
    <3> DEFINE f == EvenKey(key)
               g == EvenKey(k)
    <3>1. f \in Int /\ g \in Int /\ e \in Int
      BY <1>1, <1>8, EvenPoint
    <3> HIDE DEF f, g, e
    <3>2. e * f + g \in Int
      BY <3>1, Ring
    <3> QED BY <3>2 DEF f, g
  <2> HIDE DEF a
  <2>2. a % N \in 0..(N - 1)
    BY <1>1, <2>1, DivMod
  <2> QED BY <1>9, <2>2 DEF a
<1> HIDE DEF sig
<1>11. schnorrVerify(sig, h, x)
  <2> HIDE DEF x
  <2>1. e = ChallengeHash(sig.r, Multiples[key][1], h) % N
    <3>1. e = ChallengeHash(sig.r, Multiples[key][1], h)
      BY <1>9
    <3> HIDE DEF e
    <3>2. e % N = e
      BY <1>1, <1>8, ModSmall
    <3> QED BY <3>1, <3>2
  <2> HIDE DEF e
  <2> QED BY <1>8, <1>9, <2>1, SchnorrVerifies DEF x
<1> QED BY <1>3, <1>7, <1>9, <1>10, <1>11 DEF sg

LEMMA SchnorrReadBack ==
    ASSUME NEW sig, sig.r \in 0..(P - 1), sig.s \in 0..(N - 1)
    PROVE  ParseSignature(Fixed(sig)) = [ok |-> TRUE, r |-> sig.r, s |-> sig.s]
<1> DEFINE b == Fixed(sig)
<1>1. /\ sig.r \in 0..(Power(Width) - 1) /\ sig.s \in 0..(Power(Width) - 1)
      /\ sig.r < P /\ N \in Nat \ {0}
  <2>1. sig.s \in 0..(P - 1) /\ sig.r < P /\ N \in Nat \ {0}
    BY CurveNumbers
  <2> QED BY <2>1, FieldFits
<1>2. Len(b) = 2 * Width /\ First(b) = sig.r /\ Second(b) = sig.s
  BY <1>1, FixedReadBack
<1>3. sig.s % N = sig.s
  BY <1>1, ModSmall
<1> HIDE DEF b
<1>4. ParseSignature(b) = [ok |-> TRUE, r |-> First(b), s |-> Second(b) % N]
  BY <1>1, <1>2, Zenon DEF ParseSignature
<1> QED BY <1>2, <1>3, <1>4 DEF b

-----------------------------------------------------------------------------
(* The key is recovered from a compact signature.                          *)

\* The factor of the generator that the two products of RecoverCompact add to.
RecoverSum(h, s, k, w) == (((N - ((h * w) % N)) % N) + ((s * w) % N) * k) % N

LEMMA RecoverTerms ==
    ASSUME NEW h \in Int, NEW s \in Int, NEW k \in Int, NEW w \in Int
    PROVE  /\ RecoverSum(h, s, k, w) \in 0..(N - 1)
           /\ Cong(N, RecoverSum(h, s, k, w), -(h * w) + (s * w) * k)
<1> DEFINE hw == h * w
           sw == s * w
           m == hw % N
           f == N - m
           a == f % N
           b == sw % N
           bk == b * k
<1>1. N \in Nat \ {0} /\ N \in Int /\ hw \in Int /\ sw \in Int
  BY CurveNumbers, Ring
<1> HIDE DEF hw, sw
<1>2. m \in Int /\ Cong(N, m, hw)
  BY <1>1, DivMod, CongMod
<1> HIDE DEF m
<1>3. f \in Int /\ Cong(N, f, -hw) /\ -hw \in Int
  BY <1>1, <1>2, CongNeg
<1> HIDE DEF f
<1>4. a \in Int /\ Cong(N, a, -hw)
  <2>1. a \in Int /\ Cong(N, a, f)
    BY <1>1, <1>3, DivMod, CongMod
  <2> QED BY <1>1, <1>3, <2>1, CongTrans
<1> HIDE DEF a
<1>5. b \in Int /\ Cong(N, b, sw)
  BY <1>1, DivMod, CongMod
<1> HIDE DEF b
<1>6. bk \in Int /\ Cong(N, bk, sw * k) /\ sw * k \in Int
  BY <1>1, <1>5, CongScale, Ring
<1> HIDE DEF bk
<1> DEFINE swk == sw * k
<1>7. swk \in Int /\ Cong(N, bk, swk)
  BY <1>6
<1> HIDE DEF swk
<1> DEFINE t == a + bk
           u == (-hw) + swk
<1>8. t \in Int /\ u \in Int /\ Cong(N, t, u)
  BY <1>1, <1>3, <1>4, <1>6, <1>7, CongPlus
<1> HIDE DEF t, u
<1>9. /\ t % N \in 0..(N - 1) /\ t % N \in Int /\ Cong(N, t % N, u)
  <2>1. t % N \in 0..(N - 1) /\ t % N \in Int /\ Cong(N, t % N, t)
    BY <1>1, <1>8, DivMod, CongMod
  <2> QED BY <1>1, <1>8, <2>1, CongTrans
<1>10. RecoverSum(h, s, k, w) = t % N
  BY Zenon DEF RecoverSum, t, a, bk, b, f, m, hw, sw
<1> QED BY <1>9, <1>10, Zenon DEF u, swk, hw, sw

LEMMA RecoverFactor ==
    ASSUME NEW h \in Int, NEW r \in Int, NEW s \in Int, NEW k \in Int, NEW w \in Int,
           NEW key \in 0..(N - 1),
           Cong(N, s * k, h + r * key), Cong(N, r * w, 1)
    PROVE  RecoverSum(h, s, k, w) = key
<1> DEFINE hw == h * w
           sw == s * w
<1>1. /\ N \in Nat \ {0} /\ N \in Int /\ key \in Int /\ hw \in Int /\ sw \in Int
      /\ 1 \in Int
  BY CurveNumbers, Ring
<1> DEFINE f == RecoverSum(h, s, k, w)
<1>2. f \in 0..(N - 1) /\ Cong(N, f, -hw + sw * k)
  BY RecoverTerms
<1> HIDE DEF hw, sw, f
<1>7. Cong(N, sw * k, hw + key)
  <2> DEFINE sk == s * k
             rk == r * key
             rw == r * w
  <2>1. sk \in Int /\ rk \in Int /\ rw \in Int /\ h + rk \in Int
    BY <1>1, Ring
  <2>2. sw * k = sk * w
    BY Ring DEF sw
  <2>3. (h + rk) * w = hw + rk * w /\ rk * w = rw * key /\ (h + rk) * w \in Int
        /\ sk * w \in Int /\ rw * key \in Int
    <3>1. rk * w = rw * key
      BY <1>1, Ring
    <3> HIDE DEF rk
    <3>2. (h + rk) * w = h * w + rk * w /\ (h + rk) * w \in Int
      BY <1>1, <2>1, Ring
    <3> HIDE DEF sk, rw
    <3>3. sk * w \in Int /\ rw * key \in Int
      BY <1>1, <2>1, Ring
    <3> QED BY <3>1, <3>2, <3>3 DEF hw
  <2>4. Cong(N, sk, h + rk) /\ Cong(N, rw, 1)
    OBVIOUS
  <2> HIDE DEF sk, rk, rw
  <2>5. Cong(N, sk * w, (h + rk) * w)
    BY <1>1, <2>1, <2>4, CongScale
  <2>6. Cong(N, rw * key, 1 * key) /\ 1 * key = key
    BY <1>1, <2>1, <2>4, CongScale, Ring
  <2> DEFINE t == rw * key
  <2>7. t \in Int /\ Cong(N, t, key) /\ (h + rk) * w = hw + t
    BY <2>3, <2>6
  <2> HIDE DEF t
  <2>8. Cong(N, hw + t, hw + key) /\ hw + t \in Int /\ hw + key \in Int
    <3>1. Cong(N, hw, hw)
      BY <1>1, CongRefl
    <3> QED BY <1>1, <2>7, <3>1, CongPlus
  <2>9. Cong(N, sk * w, hw + key)
    BY <1>1, <2>3, <2>5, <2>7, <2>8, CongTrans
  <2> QED BY <2>2, <2>9
<1> DEFINE swk == sw * k
<1>8. swk \in Int /\ Cong(N, swk, hw + key) /\ Cong(N, f, -hw + swk)
  BY <1>1, <1>2, <1>7, Ring
<1> HIDE DEF swk
<1>9. Cong(N, -hw + swk, -hw + (hw + key)) /\ -hw + (hw + key) = key /\ -hw + swk \in Int
  <2>1. Cong(N, -hw, -hw) /\ -hw \in Int /\ hw + key \in Int
    BY <1>1, CongRefl
  <2> QED BY <1>1, <1>8, <2>1, CongPlus
<1>10. Cong(N, f, key)
  <2>1. f \in Int
    BY <1>1, <1>2
  <2> QED BY <1>1, <1>8, <1>9, <2>1, CongTrans
<1>11. f = key
  BY <1>1, <1>2, <1>10, CongSmall
<1> QED BY <1>11 DEF f

\* The two bits of a code, and the third one of the form of the key.
LEMMA CodeBits ==
    ASSUME NEW over \in BOOLEAN, NEW odd \in BOOLEAN, NEW c \in BOOLEAN, NEW code,
           code = (IF over THEN 2 ELSE 0) + (IF odd THEN 1 ELSE 0) + (IF c THEN 4 ELSE 0)
    PROVE  /\ code \in 0..7 /\ ((code \div 2) % 2 = 1 <=> over)
           /\ (code % 2 = 1 <=> odd) /\ (code >= 4 <=> c)
  OBVIOUS

LEMMA CompactReadBack ==
    ASSUME NEW sig, NEW kk, NEW h \in Int, NEW key \in 1..(N - 1), NEW c \in BOOLEAN,
           Signed(sig, kk, key, h), sig.code = CodeOf(Multiples[kk])
    PROVE  LET rec == RecoverCompact(SignCompact(sig, c), h)
           IN  rec.ok /\ rec.pt = Multiples[key] /\ rec.wasCompressed = c
<1> DEFINE pt == Multiples[kk]
           rest == Fixed(sig)
           first == MagicOffset + sig.code + (IF c THEN 4 ELSE 0)
           b == SignCompact(sig, c)
           code == b[1] - MagicOffset
           r == First(Tail(b))
           s == Second(Tail(b))
           overflow == (code \div 2) % 2 = 1
           x == IF overflow THEN r + N ELSE r
           y == DecompressY(x, IsOdd(code))
           w == InvN(r)
           K == MulAdd((N - ((h * w) % N)) % N, (s * w) % N, <<x, y.y>>)
<1>1. /\ kk \in 1..(N - 1) /\ sig.r \in 1..(N - 1) /\ sig.s \in 1..(N - 1)
      /\ sig.r = pt[1] % N /\ Cong(N, sig.s * kk, h + sig.r * key)
  BY DEF Signed
<1>2. /\ kk \in 0..(N - 1) /\ kk # 0 /\ kk \in Int /\ N \in Nat \ {0} /\ N < P /\ P \in Nat
      /\ key \in 0..(N - 1) /\ key # 0 /\ sig.r \in 0..(P - 1) /\ sig.s \in 0..(P - 1)
      /\ sig.r \in Int /\ sig.s \in Int /\ P < 2 * N /\ MagicOffset \in Int /\ AnyZ \in 1..(P - 1)
  <2>1. MagicOffset \in 0..(Byte - 1) /\ AnyZ \in 1..(P - 1)
    BY WireAssumption
  <2>2. MagicOffset \in Int
    BY <2>1, ByteType
  <2> QED BY <1>1, <2>1, <2>2, CurveNumbers
<1>3. pt \in OnCurve /\ Multiples[key] \in OnCurve
  BY <1>2, MultiplesPoints
<1>4. pt[1] \in 0..(P - 1) /\ pt[2] \in 0..(P - 1) /\ pt = <<pt[1], pt[2]>>
  BY <1>3, CurvePoint
<1>5. /\ rest \in Seq(Int) /\ Len(rest) = 2 * Width
      /\ First(rest) = sig.r /\ Second(rest) = sig.s
  BY <1>2, FieldFits, FixedReadBack
<1>6. b = <<first>> \o rest
  BY Zenon DEF SignCompact
<1> DEFINE bits == sig.code + (IF c THEN 4 ELSE 0)
<1>7. /\ bits \in 0..7 /\ ((bits \div 2) % 2 = 1 <=> pt[1] >= N)
      /\ (IsOdd(bits) <=> IsOdd(pt[2])) /\ (bits >= 4 <=> c)
      /\ first = MagicOffset + bits
  <2> DEFINE over == pt[1] >= N
             odd == IsOdd(pt[2])
  <2>1. bits = (IF over THEN 2 ELSE 0) + (IF odd THEN 1 ELSE 0) + (IF c THEN 4 ELSE 0)
    BY Zenon DEF CodeOf
  <2>2. over \in BOOLEAN /\ odd \in BOOLEAN
    BY DEF IsOdd
  <2>3. sig.code \in Int /\ first = MagicOffset + sig.code + (IF c THEN 4 ELSE 0)
    BY <2>2 DEF CodeOf
  <2>4. first = MagicOffset + bits
    <3> DEFINE four == IF c THEN 4 ELSE 0
    <3>1. four \in Int
      OBVIOUS
    <3> HIDE DEF four, first
    <3> QED BY <1>2, <2>3, <3>1 DEF four
  <2> HIDE DEF bits, over, odd, first
  <2>5. /\ bits \in 0..7 /\ ((bits \div 2) % 2 = 1 <=> over)
        /\ (bits % 2 = 1 <=> odd) /\ (bits >= 4 <=> c)
    BY <2>1, <2>2, CodeBits
  <2> QED BY <2>4, <2>5 DEF over, odd, IsOdd
<1> HIDE DEF bits, first, rest
<1>8. b[1] = first /\ Tail(b) = rest /\ Len(b) = 1 + 2 * Width
  <2>1. first \in Int
    BY <1>2, <1>7
  <2> HIDE DEF b
  <2> QED BY <1>5, <1>6, <2>1, TailOf
<1> HIDE DEF b
<1>9. code = bits /\ r = sig.r /\ s = sig.s
  <2>1. r = sig.r /\ s = sig.s
    BY <1>5, <1>8
  <2>2. b[1] = MagicOffset + bits /\ bits \in Int
    BY <1>7, <1>8
  <2> QED BY <1>2, <2>1, <2>2
<1> HIDE DEF r, s, code
<1>10. overflow <=> pt[1] >= N
  BY <1>7, <1>9
<1> HIDE DEF overflow
<1>11. x = pt[1] /\ (overflow => r < P - N)
  <2>1. pt[1] % N = r <=> (pt[1] = r \/ (r < P - N /\ pt[1] = r + N))
    <3>1. r \in 0..(N - 1)
      BY <1>1, <1>2, <1>9
    <3> QED BY <1>4, <3>1, RemainderOf
  <2>2. pt[1] % N = r /\ r \in 1..(N - 1)
    BY <1>1, <1>9
  <2> QED BY <1>2, <1>4, <1>10, <2>1, <2>2
<1> HIDE DEF x
<1>12. y.ok /\ y.y = pt[2]
  <2> DEFINE odd == IsOdd(code)
  <2>1. odd \in BOOLEAN /\ odd = IsOdd(pt[2])
    BY <1>7, <1>9 DEF IsOdd
  <2> HIDE DEF odd
  <2>2. DecompressY(pt[1], odd).ok /\ DecompressY(pt[1], odd).y = pt[2]
    BY <1>3, <2>1, DecompressPoint
  <2> QED BY <1>11, <2>2 DEF odd
<1> HIDE DEF y
<1>13. w \in Int /\ Cong(N, r * w, 1)
  <2>1. r \in 1..(N - 1)
    BY <1>1, <1>9
  <2> QED BY <2>1, OrderInverse
<1> HIDE DEF w
<1>14. K = Jacobian(Multiples[key], AnyZ)
  <2> DEFINE p == (N - ((h * w) % N)) % N
             q == (s * w) % N
  <2>1. (p + q * kk) % N = key
    <3>1. Cong(N, s * kk, h + r * key) /\ r \in Int /\ s \in Int
      BY <1>1, <1>2, <1>9
    <3>2. RecoverSum(h, s, kk, w) = key
      BY <1>2, <1>13, <3>1, RecoverFactor
    <3> QED BY <3>2, Zenon DEF RecoverSum
  <2>2. p \in Int /\ q \in Int
    <3> DEFINE hw == h * w
               sw == s * w
    <3>1. hw \in Int /\ sw \in Int
      BY <1>2, <1>9, <1>13, Ring
    <3> HIDE DEF hw, sw
    <3>2. sw % N \in Int /\ hw % N \in Int
      BY <1>2, <3>1, DivMod
    <3> DEFINE f == N - (hw % N)
    <3>3. f \in Int
      BY <1>2, <3>2
    <3> HIDE DEF f
    <3>4. f % N \in Int
      BY <1>2, <3>3, DivMod
    <3> QED BY <3>2, <3>4 DEF f, hw, sw
  <2>3. K = MulAdd(p, q, pt)
    BY <1>4, <1>11, <1>12
  <2> HIDE DEF p, q, K
  <2>4. MulAdd(p, q, Multiples[kk]) = Jacobian(Multiples[(p + q * kk) % N], AnyZ)
    BY <1>2, <2>2, MulAddMultiple
  <2> QED BY <2>1, <2>3, <2>4, Zenon DEF pt
<1> HIDE DEF K
<1>15. ~IsNowhere(K) /\ Affine(K) = Multiples[key]
  BY <1>2, <1>3, <1>14, JacobianSomewhere, AffineJacobian
<1>16. InOrder(r) /\ InOrder(s) /\ code \in 0..7 /\ (code >= 4) = c
       /\ (overflow => ~IsGtOrEqPrimeMinusOrder(r))
  <2>1. InOrder(r) /\ InOrder(s) /\ code \in 0..7 /\ (code >= 4 <=> c)
    BY <1>1, <1>7, <1>9 DEF InOrder
  <2>2. overflow => ~IsGtOrEqPrimeMinusOrder(r)
    BY <1>1, <1>2, <1>9, <1>11 DEF IsGtOrEqPrimeMinusOrder
  <2> QED BY <2>1, <2>2
<1>17. RecoverCompact(b, h) =
          IF /\ Len(b) = 1 + 2 * Width
             /\ code \in 0..7
             /\ InOrder(r) /\ InOrder(s)
             /\ overflow => ~IsGtOrEqPrimeMinusOrder(r)
             /\ y.ok
             /\ ~IsNowhere(K)
          THEN [ok |-> TRUE, pt |-> Affine(K), wasCompressed |-> code >= 4,
                r |-> r, s |-> s]
          ELSE None
  BY Zenon DEF RecoverCompact, K, w, y, x, overflow, code, r, s
<1>18. RecoverCompact(b, h) = [ok |-> TRUE, pt |-> Affine(K), wasCompressed |-> code >= 4,
                               r |-> r, s |-> s]
  BY <1>8, <1>12, <1>15, <1>16, <1>17, Zenon
<1>19. /\ RecoverCompact(b, h).ok /\ RecoverCompact(b, h).pt = Affine(K)
       /\ RecoverCompact(b, h).wasCompressed = c
  <2>1. RecoverCompact(b, h) = [ok |-> TRUE, pt |-> Affine(K), wasCompressed |-> c,
                                r |-> r, s |-> s]
    BY <1>16, <1>18, Zenon
  <2> QED BY <2>1
<1> QED BY <1>15, <1>19, Zenon DEF b

-----------------------------------------------------------------------------
(* What is read is written as the same bytes again.                        *)

LEMMA DigitBound ==
    ASSUME NEW p \in Nat \ {0}, NEW n \in Nat \ {0}, NEW v \in 0..(p - 1), NEW c \in 0..(n - 1)
    PROVE  v * n + c \in 0..(p * n - 1)
<1>1. p * n \in Int /\ v * n \in Int /\ (p - 1) * n = p * n - n
  OBVIOUS
<1>2. v * n <= (p - 1) * n /\ v * n >= 0
  OBVIOUS
<1> DEFINE pn == p * n
           vn == v * n
           w == (p - 1) * n
<1> HIDE DEF pn, vn, w
<1>3. pn \in Int /\ vn \in Int /\ w = pn - n /\ vn <= w /\ vn >= 0
  BY <1>1, <1>2 DEF pn, vn, w
<1>4. vn + c \in 0..(pn - 1)
  BY <1>3
<1> QED BY <1>4 DEF pn, vn

LEMMA BytesAreIntegers ==
    ASSUME NEW b \in Seq(0..(Byte - 1))
    PROVE  b \in Seq(Int) /\ Len(b) \in Nat /\ \A i \in 1..Len(b) : b[i] \in 0..(Byte - 1)
<1>1. Byte \in Nat
  BY ByteType
<1>2. \A i \in 1..Len(b) : b[i] \in 0..(Byte - 1)
  BY ElementOfSeq
<1>3. \A i \in 1..Len(b) : b[i] \in Int
  BY <1>1, <1>2
<1> QED BY <1>2, <1>3

LEMMA SeqOfBytes ==
    ASSUME NEW b \in Seq(Int), \A i \in 1..Len(b) : b[i] \in 0..(Byte - 1)
    PROVE  b \in Seq(0..(Byte - 1))
<1> DEFINE S == 0..(Byte - 1)
<1>1. b = [i \in 1..Len(b) |-> b[i]] /\ Len(b) \in Nat /\ \A i \in 1..Len(b) : b[i] \in S
  OBVIOUS
<1> HIDE DEF S
<1>2. b \in Seq(S)
  BY <1>1
<1> QED BY <1>2 DEF S

\* The value of the first i bytes is below the i-th power.
LEMMA ValueBound ==
    ASSUME NEW b \in Seq(0..(Byte - 1)), Len(b) <= Width, NEW f, Values(b, f)
    PROVE  \A i \in 0..Len(b) : f[i] \in 0..(Power(i) - 1)
<1> DEFINE n == Len(b)
           S == {i \in 0..n : f[i] \in 0..(Power(i) - 1)}
<1>1. /\ n \in Nat /\ n <= Width /\ Width \in Nat /\ Byte \in Nat \ {0} /\ Power(0) = 1
      /\ \A i \in 1..n : b[i] \in 0..(Byte - 1)
  BY BytesAreIntegers, ByteType, Powers
<1>2. f[0] = 0 /\ \A i \in 1..n : f[i] = f[i - 1] * Byte + b[i]
  BY DEF Values
<1>3. 0 \in S /\ S \subseteq 0..n
  BY <1>1, <1>2
<1>4. ASSUME NEW i \in 0..(n - 1), i \in S PROVE i + 1 \in S
  <2>1. /\ i + 1 \in 0..n /\ i + 1 \in 1..n /\ (i + 1) - 1 = i
        /\ i \in 0..(Width - 1) /\ i \in 0..Width
    BY <1>1
  <2> DEFINE p == Power(i)
             v == f[i]
             c == b[i + 1]
  <2>2. p \in Nat \ {0} /\ v \in 0..(p - 1) /\ c \in 0..(Byte - 1) /\ Power(i + 1) = p * Byte
        /\ f[i + 1] = v * Byte + c
    BY <1>1, <1>2, <1>4, <2>1, Powers
  <2> HIDE DEF p, v, c
  <2>3. v * Byte + c \in 0..(p * Byte - 1)
    BY <1>1, <2>2, DigitBound
  <2> QED BY <2>1, <2>2, <2>3
<1> HIDE DEF S
<1>5. \A i \in 0..n : i \in S
  BY <1>1, <1>3, <1>4, UpTo
<1> QED BY <1>5 DEF S

\* Dividing by a power takes the last bytes away.
LEMMA ValueDivided ==
    ASSUME NEW b \in Seq(0..(Byte - 1)), Len(b) <= Width, NEW f, Values(b, f)
    PROVE  \A j \in 0..Len(b) : f[Len(b)] \div Power(j) = f[Len(b) - j]
<1> DEFINE n == Len(b)
           v == f[n]
           S == {j \in 0..n : v \div Power(j) = f[n - j]}
<1>1. /\ n \in Nat /\ n <= Width /\ Width \in Nat /\ Byte \in Nat \ {0} /\ Power(0) = 1
      /\ \A i \in 1..n : b[i] \in 0..(Byte - 1)
  BY BytesAreIntegers, ByteType, Powers
<1>2. /\ \A i \in 1..n : f[i] = f[i - 1] * Byte + b[i]
      /\ \A i \in 0..n : f[i] \in Int
  BY DEF Values
<1>3. v \in Nat
  <2>1. n \in 0..n /\ n \in 0..Width
    BY <1>1
  <2>2. v \in 0..(Power(n) - 1)
    BY <2>1, ValueBound
  <2> QED BY <2>2
<1> HIDE DEF v
<1>4. 0 \in S /\ S \subseteq 0..n
  <2>1. v \div 1 = v /\ n - 0 = n /\ 0 \in 0..n
    BY <1>1, <1>3
  <2> QED BY <1>1, <2>1 DEF v
<1>5. ASSUME NEW j \in 0..(n - 1), j \in S PROVE j + 1 \in S
  <2>1. /\ j + 1 \in 0..n /\ n - j \in 1..n /\ (n - j) - 1 = n - (j + 1)
        /\ n - (j + 1) \in 0..n /\ j \in 0..(Width - 1) /\ j \in 0..Width
    BY <1>1
  <2> DEFINE p == Power(j)
             u == f[n - (j + 1)]
             c == b[n - j]
  <2>2. p \in Nat \ {0} /\ u \in Int /\ c \in 0..(Byte - 1) /\ Power(j + 1) = p * Byte
        /\ v \div p = f[n - j] /\ f[n - j] = u * Byte + c
    BY <1>1, <1>2, <1>5, <2>1, Powers
  <2> HIDE DEF p, u, c
  <2>3. v \div (p * Byte) = (v \div p) \div Byte
    BY <1>1, <1>3, <2>2, DivDiv
  <2>4. (u * Byte + c) \div Byte = u
    BY <1>1, <2>2, DivIs
  <2>5. v \div Power(j + 1) = u
    BY <2>2, <2>3, <2>4, Zenon
  <2> QED BY <2>1, <2>5 DEF u
<1> HIDE DEF S
<1>6. \A j \in 0..n : j \in S
  BY <1>1, <1>4, <1>5, UpTo
<1> QED BY <1>6 DEF S, v

\* A number that was read from its bytes is written as them.
LEMMA BytesWrittenBack ==
    ASSUME NEW b \in Seq(0..(Byte - 1)), Len(b) = Width
    PROVE  FromBytes(b) \in 0..(Power(Width) - 1) /\ PutBytes(FromBytes(b)) = b
<1>1. /\ b \in Seq(Int) /\ Len(b) \in Nat /\ \A i \in 1..Width : b[i] \in 0..(Byte - 1)
      /\ Width \in Nat \ {0} /\ Byte \in Nat \ {0}
  BY BytesAreIntegers, Powers, ByteType
<1>2. PICK f : Values(b, f)
  BY <1>1, ValuesExist
<1> DEFINE v == FromBytes(b)
<1>3. v = f[Width]
  BY <1>1, <1>2, FromBytesIs
<1> HIDE DEF v
<1>4. \A i \in 0..Width : f[i] \in 0..(Power(i) - 1)
  BY <1>1, <1>2, ValueBound
<1>5. \A j \in 0..Width : v \div Power(j) = f[Width - j]
  <2>1. Len(b) <= Width
    BY <1>1
  <2>2. \A j \in 0..Len(b) : f[Len(b)] \div Power(j) = f[Len(b) - j]
    BY <1>2, <2>1, ValueDivided
  <2> QED BY <1>3, <2>2, Zenon
<1>6. v \in 0..(Power(Width) - 1)
  <2>1. Width \in 0..Width
    BY <1>1
  <2> QED BY <1>3, <1>4, <2>1
<1> DEFINE p == PutBytes(v)
<1>7. p = [i \in 1..Width |-> (v \div Power(Width - i)) % Byte]
  BY Zenon DEF PutBytes, Power
<1>8. p \in Seq(Int) /\ Len(p) = Width
  BY <1>6, BytesReadBack
<1>9. ASSUME NEW i \in 1..Width PROVE p[i] = b[i]
  <2>1. Width - i \in 0..Width /\ Width - (Width - i) = i /\ i - 1 \in 0..Width /\ i \in 1..Len(b)
    BY <1>1
  <2> DEFINE u == f[i - 1]
             c == b[i]
  <2>2. v \div Power(Width - i) = f[i]
    BY <1>5, <2>1
  <2>3. f[i] = u * Byte + c /\ u \in Int /\ c \in 0..(Byte - 1)
    BY <1>1, <1>2, <2>1 DEF Values
  <2> HIDE DEF u, c
  <2>4. (u * Byte + c) % Byte = c
    BY <1>1, <2>3, DivIs
  <2>5. p[i] = (v \div Power(Width - i)) % Byte
    BY <1>7
  <2> QED BY <2>2, <2>3, <2>4, <2>5, Zenon DEF c
<1> HIDE DEF p
<1>10. p = b
  BY <1>1, <1>8, <1>9, SeqEqual
<1> QED BY <1>6, <1>10 DEF p, v

-----------------------------------------------------------------------------
LEMMA ZeroIsLow == ~IsHigh(0)
<1>1. Byte \in Nat /\ Byte > 6
  BY ByteType
<1> HIDE DEF Byte
<1> QED BY <1>1 DEF IsHigh

\* An integer that the parser takes is written as the same bytes again.
LEMMA IntegerWrittenBack ==
    ASSUME NEW b \in Seq(0..(Byte - 1)), IntegerOK(IntegerID, b), IntegerInRange(b)
    PROVE  FromBytes(b) \in 1..(N - 1) /\ Canonical(FromBytes(b)) = b
<1> DEFINE n == Len(b)
           z == (Width + 1) - n
           v == FromBytes(b)
           c == [i \in 1..(Width + 1) |-> IF i <= z THEN 0 ELSE b[i - z]]
           t == SubSeq(c, 2, Width + 1)
<1>1. /\ b \in Seq(Int) /\ n \in Nat /\ \A i \in 1..n : b[i] \in 0..(Byte - 1)
      /\ Width \in Nat \ {0} /\ Byte \in Nat \ {0}
  BY BytesAreIntegers, Powers, ByteType
<1>2. /\ n > 0 /\ ~IsHigh(b[1]) /\ ~(n > 1 /\ b[1] = 0 /\ ~IsHigh(b[2]))
      /\ n - (IF b[1] = 0 THEN 1 ELSE 0) <= Width /\ v \in 1..(N - 1)
  BY DEF IntegerOK, IntegerInRange, InOrder
<1>3. n <= Width + 1 /\ (n = Width + 1 => b[1] = 0)
  BY <1>1, <1>2
<1>4. z \in 0..Width /\ z + n = Width + 1 /\ z \in Nat
  BY <1>1, <1>2, <1>3
<1> HIDE DEF n, z, v
<1>5. /\ c \in Seq(Int) /\ Len(c) = Width + 1
      /\ \A i \in 1..z : c[i] = 0
      /\ \A i \in 1..n : c[i + z] = b[i]
      /\ \A i \in 1..(Width + 1) : c[i] \in 0..(Byte - 1)
  <2>1. ASSUME NEW i \in 1..(Width + 1)
        PROVE  c[i] = (IF i <= z THEN 0 ELSE b[i - z]) /\ c[i] \in 0..(Byte - 1)
    <3>1. c[i] = IF i <= z THEN 0 ELSE b[i - z]
      OBVIOUS
    <3>2. ~(i <= z) => i - z \in 1..n
      BY <1>1, <1>4
    <3> HIDE DEF c
    <3>3. c[i] \in 0..(Byte - 1)
      BY <1>1, <3>1, <3>2
    <3> QED BY <3>1, <3>3
  <2>2. DOMAIN c = 1..(Width + 1) /\ c = [i \in 1..(Width + 1) |-> c[i]]
    OBVIOUS
  <2> HIDE DEF c
  <2>3. \A i \in 1..(Width + 1) : c[i] \in Int
    BY <1>1, <2>1
  <2>4. c \in Seq(Int) /\ Len(c) = Width + 1
    <3>1. c \in [1..(Width + 1) -> Int] /\ Width + 1 \in Nat
      BY <1>1, <2>2, <2>3
    <3> QED BY <3>1
  <2>5. \A i \in 1..z : c[i] = 0
    BY <1>1, <1>4, <2>1
  <2>6. ASSUME NEW i \in 1..n PROVE c[i + z] = b[i]
    <3>1. i + z \in 1..(Width + 1) /\ ~(i + z <= z) /\ (i + z) - z = i
      BY <1>1, <1>4
    <3> QED BY <2>1, <3>1
  <2> QED BY <2>1, <2>4, <2>5, <2>6
<1> HIDE DEF c
<1>6. SubSeq(c, z + 1, Len(c)) = b
  <2>1. z + Len(b) = Len(c)
    BY <1>4, <1>5 DEF n
  <2>2. z + Len(b) <= Len(c) /\ \A i \in 1..Len(b) : c[i + z] = b[i]
    BY <1>1, <1>5, <2>1 DEF n
  <2>3. SubSeq(c, z + 1, z + Len(b)) = b
    BY <1>1, <1>4, <1>5, <2>2, Slice
  <2> QED BY <2>1, <2>3
<1>7. FromBytes(c) = v
  <2>1. z \in 0..Len(c)
    BY <1>1, <1>4, <1>5
  <2>2. FromBytes(SubSeq(c, z + 1, Len(c))) = FromBytes(c)
    BY <1>5, <2>1, LeadingZeros
  <2> QED BY <1>6, <2>2 DEF v
<1>8. c[1] = 0
  <2>1. CASE z = 0
    <3>1. n = Width + 1 /\ 1 \in 1..n /\ 1 + z = 1
      BY <1>1, <1>4, <2>1
    <3>2. c[1 + z] = b[1]
      BY <1>5, <3>1
    <3> QED BY <1>3, <3>1, <3>2
  <2>2. CASE z # 0
    <3>1. 1 \in 1..z
      BY <1>4, <2>2
    <3> QED BY <1>5, <3>1
  <2> QED BY <2>1, <2>2
<1>9. /\ t \in Seq(0..(Byte - 1)) /\ Len(t) = Width /\ FromBytes(t) = v
      /\ \A i \in 1..Width : t[i] = c[i + 1]
  <2>1. Len(t) = Width /\ t \in Seq(Int) /\ \A i \in 1..Width : t[i] = c[i + 1]
    BY <1>1, <1>5
  <2>2. FromBytes(t) = v
    <3>1. 1 \in 0..Len(c) /\ \A i \in 1..1 : c[i] = 0
      BY <1>1, <1>5, <1>8
    <3>2. FromBytes(SubSeq(c, 1 + 1, Len(c))) = FromBytes(c)
      BY <1>5, <3>1, LeadingZeros
    <3>3. SubSeq(c, 1 + 1, Len(c)) = t
      BY <1>5
    <3> QED BY <1>7, <3>2, <3>3
  <2> HIDE DEF t
  <2>3. \A i \in 1..Len(t) : t[i] \in 0..(Byte - 1)
    <3>1. \A i \in 1..Width : i + 1 \in 1..(Width + 1)
      BY <1>1
    <3> QED BY <1>5, <2>1, <3>1
  <2>4. t \in Seq(0..(Byte - 1))
    BY <2>1, <2>3, SeqOfBytes
  <2> QED BY <2>1, <2>2, <2>4
<1> HIDE DEF t
<1>10. PutBytes(v) = t
  BY <1>9, BytesWrittenBack
<1>11. <<0>> \o t = c
  <2> DEFINE h == <<0>>
             e == h \o t
  <2>1. h \in Seq(Int) /\ Len(h) = 1 /\ h[1] = 0
    OBVIOUS
  <2> HIDE DEF h
  <2>2. t \in Seq(Int)
    BY <1>9, BytesAreIntegers
  <2>3. /\ e \in Seq(Int) /\ Len(e) = Len(h) + Len(t)
        /\ \A i \in 1..Len(h) : e[i] = h[i]
        /\ \A i \in 1..Len(t) : e[i + Len(h)] = t[i]
    BY <2>1, <2>2, Joined
  <2> HIDE DEF e
  <2>4. Len(e) = Len(c)
    BY <1>1, <1>5, <1>9, <2>1, <2>3
  <2>5. ASSUME NEW i \in 1..Len(e) PROVE e[i] = c[i]
    <3>1. CASE i = 1
      BY <1>8, <2>1, <2>3, <3>1
    <3>2. CASE i # 1
      <4>1. i - 1 \in 1..Width /\ (i - 1) + 1 = i
        BY <1>1, <1>5, <2>4, <3>2
      <4>2. e[(i - 1) + 1] = t[i - 1] /\ t[i - 1] = c[(i - 1) + 1]
        BY <1>9, <2>1, <2>3, <4>1
      <4> QED BY <4>1, <4>2
    <3> QED BY <3>1, <3>2
  <2>6. e = c
    BY <1>5, <2>3, <2>4, <2>5, SeqEqual
  <2> QED BY <2>6 DEF e, h
<1>12. Canonical(v) = Trimmed(c)
  BY <1>10, <1>11, Zenon DEF Canonical
<1>13. Trims(c, z)
  <2>1. z < Len(c)
    BY <1>1, <1>4, <1>5
  <2>2. ASSUME NEW i \in 1..z PROVE c[i] = 0 /\ ~IsHigh(c[i + 1])
    <3>1. CASE i = z
      <4>1. 1 \in 1..n /\ i + 1 = 1 + z
        BY <1>1, <1>2, <1>4, <3>1
      <4>2. c[i + 1] = b[1]
        BY <1>5, <4>1
      <4> QED BY <1>2, <1>5, <4>2
    <3>2. CASE i # z
      <4>1. i + 1 \in 1..z
        BY <1>4, <3>2
      <4> QED BY <1>5, <4>1, ZeroIsLow
    <3> QED BY <3>1, <3>2
  <2> QED BY <2>1, <2>2 DEF Trims
<1>14. ~Trims(c, z + 1)
  <2>1. CASE n = 1
    <3>1. ~(z + 1 < Len(c))
      BY <1>4, <1>5, <2>1
    <3> QED BY <3>1 DEF Trims
  <2>2. CASE n # 1
    <3>1. 1 \in 1..n /\ 2 \in 1..n /\ n > 1 /\ 1 + z = z + 1 /\ 2 + z = (z + 1) + 1
          /\ z + 1 \in 1..(z + 1)
      BY <1>1, <1>2, <1>4, <2>2
    <3>2. c[z + 1] = b[1] /\ c[(z + 1) + 1] = b[2]
      BY <1>5, <3>1
    <3>3. ~(c[z + 1] = 0 /\ ~IsHigh(c[(z + 1) + 1]))
      BY <1>2, <3>1, <3>2
    <3> QED BY <3>1, <3>3 DEF Trims
  <2> QED BY <2>1, <2>2
<1>15. PICK k \in 0..(Len(c) - 1) :
          Trims(c, k) /\ ~Trims(c, k + 1) /\ Trimmed(c) = SubSeq(c, k + 1, Len(c))
  <2>1. Len(c) > 0
    BY <1>1, <1>5
  <2> QED BY <1>5, <2>1, TrimmedBytes
<1>16. k = z
  <2>1. ASSUME NEW i \in Nat, NEW j \in Nat, i <= j, Trims(c, j) PROVE Trims(c, i)
    <3>1. i < Len(c) /\ \A l \in 1..i : l \in 1..j
      BY <1>1, <1>5, <2>1 DEF Trims
    <3> QED BY <2>1, <3>1 DEF Trims
  <2>2. k \in Nat /\ z \in Nat /\ k + 1 \in Nat /\ z + 1 \in Nat
    BY <1>1, <1>4, <1>5
  <2>3. ~(k < z)
    <3>1. k < z => k + 1 <= z
      BY <2>2
    <3> QED BY <1>13, <1>15, <2>1, <2>2, <3>1
  <2>4. ~(z < k)
    <3>1. z < k => z + 1 <= k
      BY <2>2
    <3> QED BY <1>14, <1>15, <2>1, <2>2, <3>1
  <2> QED BY <2>2, <2>3, <2>4
<1>17. Canonical(v) = b
  BY <1>6, <1>12, <1>15, <1>16
<1> QED BY <1>2, <1>17 DEF v

\* What is read as a DER signature is written as the same bytes again.
LEMMA DERWrittenBack ==
    ASSUME NEW b \in Seq(0..(Byte - 1)), NEW der, der = ParseDERSignature(b), der.ok
    PROVE  der.r \in 1..(N - 1) /\ der.s \in 1..(N - 1) /\ DER(der.r, der.s) = b
<1> DEFINE m == b[4]
           n == b[6 + m]
           r == SubSeq(b, 5, 4 + m)
           s == SubSeq(b, 7 + m, 6 + m + n)
<1>1. ParseDERSignature(b) =
         IF /\ LengthsFit(b)
            /\ IntegerOK(b[3], r) /\ IntegerOK(b[5 + m], s)
            /\ IntegerInRange(r) /\ IntegerInRange(s)
         THEN [ok |-> TRUE, r |-> FromBytes(r), s |-> FromBytes(s)]
         ELSE None
  BY Zenon DEF ParseDERSignature
<1> HIDE DEF r, s
<1>2. ~None.ok
  BY DEF None
<1>3. /\ LengthsFit(b)
      /\ IntegerOK(b[3], r) /\ IntegerOK(b[5 + m], s)
      /\ IntegerInRange(r) /\ IntegerInRange(s)
      /\ der = [ok |-> TRUE, r |-> FromBytes(r), s |-> FromBytes(s)]
  BY <1>1, <1>2, Zenon
<1>4. der.r = FromBytes(r) /\ der.s = FromBytes(s)
  BY <1>3
<1>5. /\ Len(b) >= 8 /\ b[1] = SequenceID /\ b[2] = Len(b) - 2
      /\ 5 + m < Len(b) /\ 6 + m + n = Len(b)
  <2>1. Len(b) \in 8..(6 + 2 * (Width + 1)) /\ b[1] = SequenceID /\ b[2] = Len(b) - 2
        /\ 5 + b[4] < Len(b) /\ 6 + b[4] + b[6 + b[4]] = Len(b)
    BY <1>3 DEF LengthsFit
  <2> QED BY <2>1, Powers
<1>6. b \in Seq(Int) /\ Len(b) \in Nat /\ \A i \in 1..Len(b) : b[i] \in 0..(Byte - 1)
  BY BytesAreIntegers
<1>b. Byte \in Nat \ {0}
  BY ByteType
<1>7. m \in Nat /\ n \in Nat
  <2>1. 4 \in 1..Len(b)
    BY <1>5, <1>6
  <2>2. m \in Nat
    <3>1. b[4] \in 0..(Byte - 1)
      BY <1>6, <2>1
    <3> QED BY <3>1, <1>b
  <2>3. 6 + m \in 1..Len(b)
    <3> HIDE DEF m
    <3> QED BY <1>5, <1>6, <2>2
  <2>4. b[6 + m] \in 0..(Byte - 1)
    BY <1>6, <2>3
  <2> QED BY <1>b, <2>2, <2>4
<1> HIDE DEF m, n
<1>8. /\ r \in Seq(0..(Byte - 1)) /\ r \in Seq(Int) /\ Len(r) = m
      /\ \A i \in 1..m : r[i] = b[i + 4]
  <2>1. Len(r) = m /\ r \in Seq(Int) /\ \A i \in 1..m : r[i] = b[i + 4]
    BY <1>5, <1>6, <1>7 DEF r
  <2>2. r \in Seq(0..(Byte - 1))
    BY <1>5, <1>6, <1>7 DEF r
  <2> QED BY <2>1, <2>2
<1>9. /\ s \in Seq(0..(Byte - 1)) /\ s \in Seq(Int) /\ Len(s) = n
      /\ \A i \in 1..n : s[i] = b[i + (6 + m)]
  <2>1. Len(s) = n /\ s \in Seq(Int) /\ \A i \in 1..n : s[i] = b[i + (6 + m)]
    BY <1>5, <1>6, <1>7 DEF s
  <2>2. s \in Seq(0..(Byte - 1))
    BY <1>5, <1>6, <1>7, SMTT(30) DEF s
  <2> QED BY <2>1, <2>2
<1>10. b[3] = IntegerID /\ b[5 + m] = IntegerID
  BY <1>3 DEF IntegerOK
<1>11. /\ FromBytes(r) \in 1..(N - 1) /\ Canonical(FromBytes(r)) = r
       /\ FromBytes(s) \in 1..(N - 1) /\ Canonical(FromBytes(s)) = s
  <2>1. IntegerOK(IntegerID, r) /\ IntegerOK(IntegerID, s)
    BY <1>3, <1>10
  <2> QED BY <1>3, <1>8, <1>9, <2>1, IntegerWrittenBack
<1> DEFINE e == Sequence(r, s)
<1>12. /\ e \in Seq(Int) /\ Len(e) = 6 + m + n
       /\ e[1] = SequenceID /\ e[2] = 4 + m + n
       /\ e[3] = IntegerID /\ e[4] = m
       /\ \A i \in 1..m : e[i + 4] = r[i]
       /\ e[5 + m] = IntegerID /\ e[6 + m] = n
       /\ \A i \in 1..n : e[i + (6 + m)] = s[i]
  <2>1. HasIntegers(e, r, m, s, n)
    <3>1. r \in Seq(Int) /\ s \in Seq(Int) /\ m = Len(r) /\ n = Len(s)
      BY <1>8, <1>9
    <3> QED BY <3>1, SequenceBytes
  <2> QED BY <2>1 DEF HasIntegers
<1> HIDE DEF e
<1>13. ASSUME NEW i \in 1..Len(b) PROVE e[i] = b[i]
  <2>1. \/ i = 1 \/ i = 2 \/ i = 3 \/ i = 4
        \/ i - 4 \in 1..m /\ (i - 4) + 4 = i
        \/ i = 5 + m \/ i = 6 + m
        \/ i - (6 + m) \in 1..n /\ (i - (6 + m)) + (6 + m) = i
    BY <1>5, <1>6, <1>7
  <2>2. CASE i \in {1, 2, 3}
    <3>1. b[2] = 4 + m + n
      BY <1>5, <1>7
    <3> QED BY <1>5, <1>10, <1>12, <2>2, <3>1
  <2>3. CASE i = 4
    BY <1>12, <2>3 DEF m
  <2>4. CASE i - 4 \in 1..m /\ (i - 4) + 4 = i
    BY <1>8, <1>12, <2>4
  <2>5. CASE i = 5 + m
    BY <1>10, <1>12, <2>5
  <2>6. CASE i = 6 + m
    BY <1>12, <2>6 DEF n
  <2>7. CASE i - (6 + m) \in 1..n /\ (i - (6 + m)) + (6 + m) = i
    BY <1>9, <1>12, <2>7, SMTT(30)
  <2> QED BY <2>1, <2>2, <2>3, <2>4, <2>5, <2>6, <2>7
<1>14. e = b
  <2>1. Len(e) = Len(b)
    BY <1>5, <1>7, <1>12
  <2> QED BY <1>6, <1>12, <1>13, <2>1, SeqEqual
<1>15. DER(der.r, der.s) = b
  BY <1>4, <1>11, <1>14, Zenon DEF DER, e
<1> QED BY <1>4, <1>11, <1>15

-----------------------------------------------------------------------------
\* Two numbers that were read one after the other.
LEMMA FixedWrittenBack ==
    ASSUME NEW b \in Seq(0..(Byte - 1)), Len(b) = 2 * Width
    PROVE  /\ First(b) \in 0..(Power(Width) - 1) /\ Second(b) \in 0..(Power(Width) - 1)
           /\ PutBytes(First(b)) \o PutBytes(Second(b)) = b
<1> DEFINE p == SubSeq(b, 1, Width)
           q == SubSeq(b, Width + 1, 2 * Width)
<1>1. b \in Seq(Int) /\ Len(b) \in Nat /\ Width \in Nat \ {0}
  BY BytesAreIntegers, Powers
<1>2. /\ p \in Seq(0..(Byte - 1)) /\ p \in Seq(Int) /\ Len(p) = Width
      /\ \A i \in 1..Width : p[i] = b[i]
  <2>1. p \in Seq(Int) /\ Len(p) = Width /\ \A i \in 1..Width : p[i] = b[i]
    BY <1>1
  <2>2. p \in Seq(0..(Byte - 1))
    <3>1. \A i \in 1..Width : i \in 1..Len(b)
      BY <1>1
    <3>2. \A i \in 1..Len(p) : p[i] \in 0..(Byte - 1)
      BY <2>1, <3>1, BytesAreIntegers
    <3> HIDE DEF p
    <3> QED BY <2>1, <3>2, SeqOfBytes
  <2> QED BY <2>1, <2>2
<1>3. /\ q \in Seq(0..(Byte - 1)) /\ q \in Seq(Int) /\ Len(q) = Width
      /\ \A i \in 1..Width : q[i] = b[i + Width]
  <2>1. q \in Seq(Int) /\ Len(q) = Width /\ \A i \in 1..Width : q[i] = b[i + Width]
    BY <1>1
  <2>2. q \in Seq(0..(Byte - 1))
    <3>1. \A i \in 1..Width : i + Width \in 1..Len(b)
      BY <1>1
    <3>2. \A i \in 1..Len(q) : q[i] \in 0..(Byte - 1)
      BY <2>1, <3>1, BytesAreIntegers
    <3> HIDE DEF q
    <3> QED BY <2>1, <3>2, SeqOfBytes
  <2> QED BY <2>1, <2>2
<1>4. First(b) = FromBytes(p) /\ Second(b) = FromBytes(q)
  BY DEF First, Second
<1> HIDE DEF p, q
<1>5. /\ FromBytes(p) \in 0..(Power(Width) - 1) /\ PutBytes(FromBytes(p)) = p
      /\ FromBytes(q) \in 0..(Power(Width) - 1) /\ PutBytes(FromBytes(q)) = q
  BY <1>2, <1>3, BytesWrittenBack
<1> DEFINE e == p \o q
<1>6. /\ e \in Seq(Int) /\ Len(e) = Width + Width
      /\ \A i \in 1..Width : e[i] = p[i]
      /\ \A i \in 1..Width : e[i + Width] = q[i]
  <2>1. p \in Seq(Int) /\ q \in Seq(Int) /\ Len(p) = Width /\ Len(q) = Width
    BY <1>2, <1>3
  <2>2. /\ e \in Seq(Int) /\ Len(e) = Len(p) + Len(q)
        /\ \A i \in 1..Len(p) : e[i] = p[i]
        /\ \A i \in 1..Len(q) : e[i + Len(p)] = q[i]
    BY <2>1, Joined
  <2> HIDE DEF e
  <2> QED BY <2>1, <2>2
<1> HIDE DEF e
<1>7. ASSUME NEW i \in 1..Len(b) PROVE e[i] = b[i]
  <2>1. i \in 1..Width \/ (i - Width \in 1..Width /\ (i - Width) + Width = i)
    BY <1>1
  <2>2. CASE i \in 1..Width
    BY <1>2, <1>6, <2>2
  <2>3. CASE i - Width \in 1..Width /\ (i - Width) + Width = i
    BY <1>3, <1>6, <2>3, SMTT(30)
  <2> QED BY <2>1, <2>2, <2>3
<1>8. e = b
  <2>1. Len(e) = Len(b)
    BY <1>1, <1>6
  <2> QED BY <1>1, <1>6, <1>7, <2>1, SeqEqual
<1> QED BY <1>4, <1>5, <1>8 DEF e

\* The bytes after the first, and the first.
LEMMA Headed ==
    ASSUME NEW b \in Seq(0..(Byte - 1)), Len(b) > 0
    PROVE  /\ Tail(b) \in Seq(0..(Byte - 1)) /\ Len(Tail(b)) = Len(b) - 1
           /\ b[1] \in 0..(Byte - 1) /\ b = <<b[1]>> \o Tail(b)
<1> DEFINE t == Tail(b)
           h == <<b[1]>>
           e == h \o t
<1>1. b \in Seq(Int) /\ Len(b) \in Nat /\ b[1] \in 0..(Byte - 1) /\ b[1] \in Int
  <2>1. b \in Seq(Int) /\ Len(b) \in Nat /\ 1 \in 1..Len(b)
    BY BytesAreIntegers
  <2> QED BY <2>1, BytesAreIntegers, ByteType
<1>2. /\ t \in Seq(0..(Byte - 1)) /\ t \in Seq(Int) /\ Len(t) = Len(b) - 1
      /\ \A i \in 1..Len(t) : t[i] = b[i + 1]
  <2>1. b # <<>>
    BY <1>1
  <2>2. t \in Seq(0..(Byte - 1)) /\ Len(t) = Len(b) - 1
    BY <2>1
  <2>3. t \in Seq(Int) /\ \A i \in 1..Len(t) : t[i] = b[i + 1]
    BY <1>1, <2>1
  <2> QED BY <2>2, <2>3
<1>3. h \in Seq(Int) /\ Len(h) = 1 /\ h[1] = b[1]
  BY <1>1
<1> HIDE DEF t, h
<1>4. /\ e \in Seq(Int) /\ Len(e) = 1 + Len(t) /\ e[1] = b[1]
      /\ \A i \in 1..Len(t) : e[i + 1] = t[i]
  <2>1. /\ e \in Seq(Int) /\ Len(e) = Len(h) + Len(t)
        /\ \A i \in 1..Len(h) : e[i] = h[i]
        /\ \A i \in 1..Len(t) : e[i + Len(h)] = t[i]
    BY <1>2, <1>3, Joined
  <2> HIDE DEF e
  <2> QED BY <1>3, <2>1
<1> HIDE DEF e
<1>5. ASSUME NEW i \in 1..Len(b) PROVE e[i] = b[i]
  <2>1. i = 1 \/ (i - 1 \in 1..Len(t) /\ (i - 1) + 1 = i)
    BY <1>1, <1>2
  <2>2. CASE i - 1 \in 1..Len(t) /\ (i - 1) + 1 = i
    BY <1>2, <1>4, <2>2
  <2> QED BY <1>4, <2>1, <2>2
<1>6. e = b
  <2>1. Len(e) = Len(b)
    BY <1>1, <1>2, <1>4
  <2> QED BY <1>1, <1>4, <1>5, <2>1, SeqEqual
<1> QED BY <1>1, <1>2, <1>6 DEF e, h, t

-----------------------------------------------------------------------------
(* Keys.                                                                   *)

\* What is decompressed is a point of the curve, and of the oddness asked for.
LEMMA Decompressed ==
    ASSUME NEW x \in 0..(P - 1), NEW odd \in BOOLEAN, DecompressY(x, odd).ok
    PROVE  /\ <<x, DecompressY(x, odd).y>> \in OnCurve
           /\ IsOdd(DecompressY(x, odd).y) <=> odd
<1> DEFINE c == x * x * x + 7
           a == Mod(c)
           s == SquareRootVal(a)
           z == s.root
           y == DecompressY(x, odd).y
           pt == <<x, z>>
<1>1. P \in Nat /\ P > 7 /\ x \in Int
  BY CurveNumbers
<1>2. c \in Int
  <2>1. x * x \in Int
    BY <1>1, Ring
  <2> DEFINE xx == x * x
  <2> HIDE DEF xx
  <2>2. xx * x \in Int
    BY <1>1, <2>1, Ring DEF xx
  <2> QED BY <2>2 DEF xx
<1> HIDE DEF c
<1>3. a \in Int
  BY <1>2, ModFacts
<1> HIDE DEF a
<1>4. z \in 0..(P - 1) /\ (s.ok <=> Mod(z * z) = a)
  BY <1>3, RootInField
<1>5. DecompressY(x, odd) = WithOddness(s, odd)
  BY Zenon DEF DecompressY, s, a, c
<1> HIDE DEF s, z
<1>6. WithOddness(s, odd) =
         [ok |-> s.ok, y |-> IF ~s.ok \/ (z % 2 = 1) = odd THEN z ELSE Mod(P - z)]
  BY Zenon DEF WithOddness, z
<1>7. s.ok /\ y = (IF (z % 2 = 1) = odd THEN z ELSE Mod(P - z))
  <2>1. s.ok
    BY <1>5, <1>6
  <2> QED BY <1>5, <1>6, <2>1
<1>8. pt \in OnCurve
  <2>1. Mod(z * z) = Mod(x * x * x + 7)
    BY <1>4, <1>7 DEF a, c
  <2> QED BY <1>4, <2>1 DEF OnCurve
<1> HIDE DEF y
<1>9. CASE (z % 2 = 1) = odd
  BY <1>7, <1>8, <1>9 DEF IsOdd, y
<1>10. CASE (z % 2 = 1) # odd
  <2> DEFINE k == Log[pt]
  <2>1. k \in 0..(N - 1) /\ Multiples[k] = pt /\ pt # Infinity
    BY <1>8, CurvePoint, PointIsMultiple
  <2> HIDE DEF k, pt
  <2>2. k \in 1..(N - 1)
    <3>1. k # 0
      BY <2>1, MultiplesPoints
    <3> QED BY <2>1, <3>1, CurveNumbers
  <2>3. /\ N - k \in 0..(N - 1) /\ N - k # 0
        /\ Multiples[N - k][1] = pt[1] /\ Multiples[N - k][2] = Mod(P - pt[2])
        /\ IsOdd(Multiples[N - k][2]) <=> ~IsOdd(pt[2])
    <3>1. N - k \in 1..(N - 1)
      BY <2>2, NegMultiple
    <3> QED BY <2>1, <2>2, <3>1, NegMultiple, NegOddness, CurveNumbers
  <2>4. Multiples[N - k] \in OnCurve
    BY <2>3, MultiplesPoints
  <2>5. Multiples[N - k] = <<Multiples[N - k][1], Multiples[N - k][2]>>
    BY <2>4, CurvePoint
  <2>6. pt[1] = x /\ pt[2] = z
    BY DEF pt
  <2>7. Multiples[N - k] = <<x, y>>
    BY <1>7, <1>10, <2>3, <2>5, <2>6, Zenon
  <2>8. IsOdd(y) <=> ~IsOdd(z)
    BY <1>7, <1>10, <2>3, <2>6, Zenon
  <2> QED BY <1>10, <2>4, <2>7, <2>8, Zenon DEF IsOdd, y
<1> QED BY <1>9, <1>10

LEMMA IntsJoined ==
    ASSUME NEW s \in Seq(Int), NEW t \in Seq(Int), NEW u \in Seq(Int)
    PROVE  (s \o t) \o u = s \o (t \o u)
BY ConcatAssociative, SMTT(30)

\* The forms a key may have been read from.
FormOfKey(b, pt) ==
    \/ b \in {SerializeCompressed(pt), SerializeUncompressed(pt)}
    \/ /\ Tail(b) = Tail(SerializeUncompressed(pt))
       /\ b[1] = (IF IsOdd(pt[2]) THEN 7 ELSE 6)

\* What is read as a key is on the curve and has one of its forms.
LEMMA KeyWrittenBack ==
    ASSUME NEW b \in Seq(0..(Byte - 1)), ParsePubKey(b).ok
    PROVE  ParsePubKey(b).pt \in OnCurve /\ FormOfKey(b, ParsePubKey(b).pt)
<1> DEFINE body == Tail(b)
           y == DecompressY(First(body), b[1] = 3)
           Long == /\ Len(b) = 1 + 2 * Width
                   /\ First(body) < P /\ Second(body) < P
                   /\ FormatFits(b[1], Second(body))
                   /\ isOnCurve(First(body), Second(body))
           Single == Len(b) = 1 + Width /\ b[1] \in {2, 3} /\ First(body) < P /\ y.ok
           key == ParsePubKey(b)
<1>1. key = CASE Long -> [ok |-> TRUE, pt |-> <<First(body), Second(body)>>]
              [] Single -> [ok |-> TRUE, pt |-> <<First(body), y.y>>]
              [] OTHER -> None
  BY Zenon DEF ParsePubKey
<1>2. Width \in Nat \ {0} /\ Len(b) \in Nat
  BY Powers, BytesAreIntegers
<1>3. ~(Long /\ Single)
  BY <1>2
<1>4. ~None.ok
  BY DEF None
<1> HIDE DEF Long, Single, y, key
<1>5. \/ Long /\ key = [ok |-> TRUE, pt |-> <<First(body), Second(body)>>]
      \/ Single /\ key = [ok |-> TRUE, pt |-> <<First(body), y.y>>]
  <2>1. key.ok
    BY DEF key
  <2> QED BY <1>1, <1>3, <1>4, <2>1
<1>6. CASE Long /\ key = [ok |-> TRUE, pt |-> <<First(body), Second(body)>>]
  <2> DEFINE u == First(body)
             v == Second(body)
             p == PutBytes(u)
             q == PutBytes(v)
  <2>1. /\ Len(b) = 1 + 2 * Width /\ u < P /\ v < P
        /\ FormatFits(b[1], v) /\ isOnCurve(u, v)
    BY <1>6, Zenon DEF Long
  <2>2. /\ body \in Seq(0..(Byte - 1)) /\ Len(body) = 2 * Width
        /\ b[1] \in 0..(Byte - 1) /\ b[1] \in Int /\ b = <<b[1]>> \o body
    <3>1. Len(b) > 0
      BY <1>2, <2>1
    <3>2. Len(b) - 1 = 2 * Width
      BY <1>2, <2>1
    <3> HIDE DEF body
    <3> QED BY <3>1, <3>2, Headed, ByteType DEF body
  <2> HIDE DEF body
  <2>3. u \in 0..(Power(Width) - 1) /\ v \in 0..(Power(Width) - 1) /\ p \o q = body
    BY <2>2, FixedWrittenBack
  <2> HIDE DEF u, v
  <2>4. u \in 0..(P - 1) /\ v \in 0..(P - 1)
    <3>1. Power(Width) \in Nat /\ P \in Nat
      BY <1>2, Powers, CurveNumbers
    <3> QED BY <2>1, <2>3, <3>1
  <2>5. <<u, v>> \in OnCurve
    BY <2>1, <2>4 DEF isOnCurve, OnCurve
  <2> DEFINE pt == <<u, v>>
  <2>6. pt[1] = u /\ pt[2] = v /\ key.pt = pt
    BY <1>6 DEF u, v
  <2> HIDE DEF pt
  <2>7. SerializeUncompressed(pt) = <<4>> \o body
    <3> DEFINE h == <<4>>
    <3>1. p \in Seq(Int) /\ q \in Seq(Int) /\ h \in Seq(Int)
      BY <2>3, BytesReadBack
    <3>2. SerializeUncompressed(pt) = (h \o p) \o q
      BY <2>6 DEF SerializeUncompressed
    <3> HIDE DEF h, p, q
    <3>3. (h \o p) \o q = h \o (p \o q)
      BY <3>1, IntsJoined
    <3> QED BY <2>3, <3>2, <3>3 DEF h, p, q
  <2> HIDE DEF p, q
  <2>8. Tail(SerializeUncompressed(pt)) = body
    <3>1. body \in Seq(Int) /\ 4 \in Int
      BY <2>2, BytesAreIntegers
    <3> QED BY <2>7, <3>1, TailOf
  <2>9. b[1] = 4 \/ b[1] = (IF IsOdd(v) THEN 7 ELSE 6)
    BY <2>1 DEF FormatFits
  <2>10. FormOfKey(b, pt)
    <3>1. b[1] = 4 => b = SerializeUncompressed(pt)
      BY <2>2, <2>7
    <3> QED BY <2>6, <2>8, <2>9, <3>1, Zenon DEF FormOfKey, body
  <2> QED BY <2>5, <2>6, <2>10 DEF key, pt
<1>7. CASE Single /\ key = [ok |-> TRUE, pt |-> <<First(body), y.y>>]
  <2> DEFINE u == First(body)
             odd == b[1] = 3
  <2>1. Len(b) = 1 + Width /\ b[1] \in {2, 3} /\ u < P /\ y.ok
    BY <1>7, Zenon DEF Single
  <2>2. /\ body \in Seq(0..(Byte - 1)) /\ Len(body) = Width
        /\ b = <<b[1]>> \o body
    <3>1. Len(b) > 0
      BY <1>2, <2>1
    <3>2. Len(b) - 1 = Width
      BY <1>2, <2>1
    <3> HIDE DEF body
    <3> QED BY <3>1, <3>2, Headed DEF body
  <2> HIDE DEF body
  <2>3. u = FromBytes(body) /\ u \in 0..(Power(Width) - 1) /\ PutBytes(u) = body
    <3>1. body \in Seq(Int)
      BY <2>2, BytesAreIntegers
    <3>2. u = FromBytes(body)
      BY <2>2, <3>1, WholeFirst
    <3> HIDE DEF u
    <3> QED BY <2>2, <3>2, BytesWrittenBack
  <2>4. y = DecompressY(u, odd)
    BY Zenon DEF y
  <2> HIDE DEF u
  <2>5. u \in 0..(P - 1)
    <3>1. Power(Width) \in Nat /\ P \in Nat
      BY <1>2, Powers, CurveNumbers
    <3> QED BY <2>1, <2>3, <3>1
  <2>6. odd \in BOOLEAN /\ (odd <=> b[1] = 3)
    OBVIOUS
  <2> HIDE DEF odd
  <2>7. <<u, y.y>> \in OnCurve /\ (IsOdd(y.y) <=> odd)
    BY <2>1, <2>4, <2>5, <2>6, Decompressed
  <2> DEFINE pt == <<u, y.y>>
  <2>8. pt[1] = u /\ pt[2] = y.y /\ key.pt = pt
    BY <1>7 DEF u
  <2> HIDE DEF pt
  <2>9. SerializeCompressed(pt) = <<IF IsOdd(y.y) THEN 3 ELSE 2>> \o body
    BY <2>3, <2>8 DEF SerializeCompressed
  <2>10. (IF IsOdd(y.y) THEN 3 ELSE 2) = b[1]
    BY <2>1, <2>6, <2>7
  <2>11. FormOfKey(b, pt)
    BY <2>2, <2>9, <2>10 DEF FormOfKey
  <2> QED BY <2>7, <2>8, <2>11 DEF key, pt
<1> QED BY <1>5, <1>6, <1>7

\* The key that is recovered is the one the signature was made with.
LEMMA RecoveredTerms ==
    ASSUME NEW h \in Int, NEW r \in Int, NEW s \in Int, NEW k \in Int, NEW w \in Int,
           NEW key \in Int, Cong(N, r * w, 1), Cong(N, key, -(h * w) + (s * w) * k)
    PROVE  Cong(N, s * k, h + r * key)
<1> DEFINE rw == r * w
           hw == h * w
           sw == s * w
           sk == s * k
           swk == sw * k
           rk == r * key
<1>1. /\ N \in Nat \ {0} /\ 1 \in Int /\ rw \in Int /\ hw \in Int /\ sw \in Int /\ sk \in Int
      /\ rk \in Int
  BY CurveNumbers, Ring
<1>2. swk \in Int /\ swk = sk * w
  <2>1. (s * w) * k = (s * k) * w
    BY Ring
  <2>2. sk * w \in Int
    <3> HIDE DEF sk
    <3> QED BY <1>1, Ring
  <2> QED BY <2>1, <2>2
<1>3. Cong(N, rw, 1) /\ Cong(N, key, (-hw) + swk)
  OBVIOUS
<1>4. r * hw = rw * h /\ r * (sk * w) = rw * sk
  <2>1. r * (h * w) = rw * h
    <3>1. h * w = w * h /\ r * (w * h) = (r * w) * h
      BY Ring
    <3> QED BY <3>1, Zenon
  <2> HIDE DEF sk
  <2>2. r * (sk * w) = rw * sk
    <3>1. sk * w = w * sk /\ r * (w * sk) = (r * w) * sk
      BY <1>1, Ring
    <3> QED BY <3>1, Zenon
  <2> QED BY <2>1, <2>2
<1> HIDE DEF rw, hw, sw, sk, swk
<1> DEFINE t == (-hw) + swk
<1>5. t \in Int /\ -hw \in Int /\ Cong(N, r * key, r * t) /\ r * t \in Int
  <2>1. t \in Int /\ -hw \in Int
    BY <1>1, <1>2
  <2>2. Cong(N, key, t)
    BY <1>3
  <2> HIDE DEF t
  <2> QED BY <1>1, <2>1, <2>2, CongScale, Ring
<1> DEFINE a == rw * h
           b == rw * sk
<1>6. /\ a \in Int /\ b \in Int /\ -a \in Int /\ -h \in Int
      /\ Cong(N, a, h) /\ Cong(N, b, sk)
  <2>1. Cong(N, a, 1 * h) /\ Cong(N, b, 1 * sk) /\ 1 * h = h /\ 1 * sk = sk /\ a \in Int /\ b \in Int
    BY <1>1, <1>3, CongScale, Ring
  <2> QED BY <2>1
<1>7. r * t = (-a) + b
  <2>1. r * ((-hw) + swk) = r * (-hw) + r * swk
    BY <1>1, <1>2, <1>5, Ring
  <2>2. r * (-hw) = -(r * hw)
    <3>1. r * (-hw) = (-hw) * r /\ (-hw) * r = -(hw * r) /\ hw * r = r * hw
      BY <1>1, <1>5, Ring
    <3> QED BY <3>1, Zenon
  <2>3. r * hw = a /\ r * swk = b
    BY <1>2, <1>4, Zenon DEF a, b
  <2> QED BY <2>1, <2>2, <2>3, Zenon
<1> HIDE DEF a, b, t, rk
<1>8. Cong(N, (-a) + b, (-h) + sk)
  BY <1>1, <1>6, CongNeg, CongPlus
<1>9. rk \in Int /\ Cong(N, rk, (-a) + b)
  BY <1>1, <1>5, <1>7 DEF rk
<1>10. Cong(N, rk, (-h) + sk) /\ (-h) + sk \in Int
  <2>1. (-h) + sk \in Int /\ (-a) + b \in Int
    BY <1>1, <1>6
  <2> QED BY <1>1, <1>8, <1>9, <2>1, CongTrans
<1>11. Cong(N, h + rk, h + ((-h) + sk)) /\ h + ((-h) + sk) = sk /\ h + rk \in Int
  <2> DEFINE c == (-h) + sk
  <2>1. c \in Int /\ Cong(N, rk, c) /\ h + c = sk
    BY <1>1, <1>10
  <2> HIDE DEF c
  <2>2. Cong(N, h, h)
    BY <1>1, CongRefl
  <2>3. Cong(N, h + rk, h + c) /\ h + rk \in Int
    BY <1>1, <1>9, <2>1, <2>2, CongPlus
  <2> QED BY <2>1, <2>3 DEF c
<1>12. Cong(N, sk, h + rk)
  BY <1>1, <1>11, CongSym
<1> QED BY <1>12 DEF sk, rk

\* What is recovered from a compact signature is a point of the curve for which
\* the signature holds, and the signature is written as the same bytes again.
LEMMA CompactWrittenBack ==
    ASSUME NEW b \in Seq(0..(Byte - 1)), NEW h \in Int, NEW rec, rec = RecoverCompact(b, h),
           rec.ok
    PROVE  Fixed(rec) = Tail(b) /\ rec.pt \in OnCurve /\ Verify(rec, h, rec.pt)
<1> DEFINE code == b[1] - MagicOffset
           body == Tail(b)
           r == First(body)
           s == Second(body)
           overflow == (code \div 2) % 2 = 1
           x == IF overflow THEN r + N ELSE r
           odd == IsOdd(code)
           y == DecompressY(x, odd)
           w == InvN(r)
           K == MulAdd((N - ((h * w) % N)) % N, (s * w) % N, <<x, y.y>>)
           Good == /\ Len(b) = 1 + 2 * Width
                   /\ code \in 0..7
                   /\ InOrder(r) /\ InOrder(s)
                   /\ overflow => ~IsGtOrEqPrimeMinusOrder(r)
                   /\ y.ok
                   /\ ~IsNowhere(K)
<1>1. RecoverCompact(b, h) =
         IF Good
         THEN [ok |-> TRUE, pt |-> Affine(K), wasCompressed |-> code >= 4, r |-> r, s |-> s]
         ELSE None
  BY Zenon DEF RecoverCompact
<1>2. ~None.ok
  BY DEF None
<1>3. Good
  <2> HIDE DEF Good, K, code, r, s
  <2> QED BY <1>1, <1>2, Zenon
<1>4. rec.pt = Affine(K) /\ rec.r = r /\ rec.s = s
  <2> DEFINE big == code >= 4
  <2>1. rec = [ok |-> TRUE, pt |-> Affine(K), wasCompressed |-> big, r |-> r, s |-> s]
    BY <1>1, <1>3, Zenon
  <2> HIDE DEF big, K, r, s
  <2> QED BY <2>1
<1>5. /\ Len(b) = 1 + 2 * Width /\ InOrder(r) /\ InOrder(s) /\ y.ok /\ ~IsNowhere(K)
      /\ overflow => ~IsGtOrEqPrimeMinusOrder(r)
  BY <1>3, Zenon
<1> HIDE DEF Good, K, y
<1>6. /\ Width \in Nat \ {0} /\ Len(b) \in Nat /\ N \in Nat \ {0} /\ P \in Nat /\ N < P
      /\ AnyZ \in 1..(P - 1)
  BY Powers, BytesAreIntegers, CurveNumbers, WireAssumption
<1>7. body \in Seq(0..(Byte - 1)) /\ Len(body) = 2 * Width
  <2>1. Len(b) > 0
    BY <1>5, <1>6
  <2>2. Len(b) - 1 = 2 * Width
    BY <1>5, <1>6
  <2> HIDE DEF body
  <2> QED BY <2>1, <2>2, Headed DEF body
<1>8. Fixed(rec) = body
  <2> HIDE DEF body
  <2>1. PutBytes(First(body)) \o PutBytes(Second(body)) = body
    BY <1>7, FixedWrittenBack
  <2> QED BY <1>4, <2>1, Zenon DEF Fixed
<1> HIDE DEF body
<1>9. r \in 1..(N - 1) /\ s \in 1..(N - 1) /\ r \in Int /\ s \in Int
  BY <1>5, <1>6 DEF InOrder
<1> HIDE DEF r, s
<1>10. x \in 0..(P - 1) /\ x % N = r
  <2>1. x = r \/ (r < P - N /\ x = r + N)
    BY <1>5, <1>6, <1>9 DEF IsGtOrEqPrimeMinusOrder
  <2> HIDE DEF x
  <2>2. x \in 0..(P - 1) /\ r \in 0..(N - 1)
    BY <1>6, <1>9, <2>1
  <2> QED BY <2>1, <2>2, RemainderOf
<1> HIDE DEF x
<1> DEFINE pt == <<x, y.y>>
<1>11. pt \in OnCurve
  <2>1. odd \in BOOLEAN
    BY DEF IsOdd
  <2> HIDE DEF odd
  <2>2. DecompressY(x, odd).ok
    BY <1>5 DEF y
  <2>3. <<x, DecompressY(x, odd).y>> \in OnCurve
    BY <1>10, <2>1, <2>2, Decompressed
  <2> QED BY <2>3 DEF y
<1>12. pt[1] = x
  OBVIOUS
<1> DEFINE k == Log[pt]
<1>13. k \in 1..(N - 1) /\ k \in 0..(N - 1) /\ k \in Int /\ Multiples[k] = pt
  <2>1. pt # Infinity /\ pt \in Group
    BY <1>11, CurvePoint
  <2> HIDE DEF pt
  <2>2. k \in 0..(N - 1) /\ Multiples[k] = pt
    BY <2>1, PointIsMultiple
  <2> HIDE DEF k
  <2>3. k # 0
    BY <2>1, <2>2, MultiplesPoints
  <2> QED BY <1>6, <2>2, <2>3
<1> HIDE DEF k, pt
<1>14. w \in Int /\ Cong(N, r * w, 1)
  BY <1>9, OrderInverse
<1> HIDE DEF w
<1> DEFINE key == RecoverSum(h, s, k, w)
<1>15. key \in 0..(N - 1) /\ key \in Int /\ Cong(N, key, -(h * w) + (s * w) * k)
  <2>1. key \in 0..(N - 1) /\ Cong(N, key, -(h * w) + (s * w) * k)
    BY <1>9, <1>13, <1>14, RecoverTerms
  <2> HIDE DEF key
  <2> QED BY <1>6, <2>1
<1>16. K = Jacobian(Multiples[key], AnyZ)
  <2> DEFINE p == (N - ((h * w) % N)) % N
             q == (s * w) % N
  <2>1. p \in Int /\ q \in Int
    <3> DEFINE hw == h * w
               sw == s * w
    <3>1. hw \in Int /\ sw \in Int
      BY <1>9, <1>14, Ring
    <3> HIDE DEF hw, sw
    <3>2. sw % N \in Int /\ hw % N \in Int
      BY <1>6, <3>1, DivMod
    <3> DEFINE f == N - (hw % N)
    <3>3. f \in Int
      BY <1>6, <3>2
    <3> HIDE DEF f
    <3>4. f % N \in Int
      BY <1>6, <3>3, DivMod
    <3> QED BY <3>2, <3>4 DEF f, hw, sw
  <2>2. K = MulAdd(p, q, pt) /\ key = (p + q * k) % N
    BY Zenon DEF K, pt, RecoverSum
  <2> HIDE DEF p, q, key
  <2>3. MulAdd(p, q, Multiples[k]) = Jacobian(Multiples[(p + q * k) % N], AnyZ)
    BY <1>13, <2>1, MulAddMultiple
  <2> QED BY <1>13, <2>2, <2>3, Zenon
<1> HIDE DEF key
<1>17. rec.pt = Multiples[key] /\ rec.pt \in OnCurve
  <2>1. Multiples[key] # Infinity
    BY <1>5, <1>16, JacobianNowhere
  <2>2. Multiples[key] \in OnCurve
    BY <1>15, <2>1, MultiplesPoints
  <2>3. Affine(K) = Multiples[key]
    BY <1>6, <1>16, <2>2, AffineJacobian
  <2> QED BY <1>4, <2>2, <2>3
<1>18. Signed(rec, k, key, h)
  <2>1. Cong(N, s * k, h + r * key)
    BY <1>9, <1>13, <1>14, <1>15, RecoveredTerms
  <2> QED BY <1>4, <1>9, <1>10, <1>12, <1>13, <2>1, Zenon DEF Signed
<1>19. Verify(rec, h, Multiples[key])
  BY <1>15, <1>18, SignedVerifies
<1> QED BY <1>8, <1>17, <1>19 DEF body

\* The point by the chord and tangent rule that a signature is checked with.
SumOf(a, b, pt) == Plus(Times(a, G), Times(b, pt))

\* A DER signature holds if and only if its point has the x it says.
LEMMA EcdsaExact ==
    ASSUME NEW sig, NEW h \in Int, NEW l \in 0..(N - 1),
           sig.r \in 1..(N - 1), sig.s \in 1..(N - 1)
    PROVE  LET X == SumOf(h * InvN(sig.s), sig.r * InvN(sig.s), Multiples[l])
           IN  Verify(sig, h % N, Multiples[l]) <=> X # Infinity /\ X[1] % N = sig.r
<1> DEFINE r == sig.r
           w == InvN(sig.s)
           g == h % N
           hw == h * w
           gw == g * w
           rw == r * w
           rwl == rw * l
           X == SumOf(hw, rw, Multiples[l])
<1>1. r \in Int /\ w \in Int /\ N \in Nat \ {0} /\ l \in Int
  BY OrderInverse, CurveNumbers
<1>2. g \in Int /\ Cong(N, g, h)
  BY <1>1, DivMod, CongMod
<1> HIDE DEF r, w, g
<1>3. hw \in Int /\ gw \in Int /\ rw \in Int /\ Cong(N, gw, hw)
  BY <1>1, <1>2, CongScale, Ring
<1> HIDE DEF hw, gw, rw
<1>4. rwl \in Int
  BY <1>1, <1>3, Ring
<1>5. X = Multiples[(hw + rwl) % N]
  BY <1>3, MulAddMultiple, Zenon DEF SumOf
<1> HIDE DEF rwl, X
<1>6. (gw + rwl) % N = (hw + rwl) % N
  <2> DEFINE a == gw + rwl
             c == hw + rwl
  <2>1. a \in Int /\ c \in Int /\ Cong(N, a, c)
    <3>1. Cong(N, rwl, rwl)
      BY <1>1, <1>4, CongRefl
    <3> QED BY <1>1, <1>3, <1>4, <3>1, CongPlus
  <2> HIDE DEF a, c
  <2>2. a % N = c % N
    BY <1>1, <2>1, CongIff
  <2> QED BY <2>2 DEF a, c
<1>7. X = VerifyPoint(g, sig.r, InvN(sig.s), l)
  BY <1>5, <1>6, Zenon DEF VerifyPoint, r, w, gw, rw, rwl
<1>8. Verify(sig, g, Multiples[l]) <=> X # Infinity /\ X[1] % N = sig.r
  BY <1>2, <1>7, VerifyExact
<1> QED BY <1>8, Zenon DEF X, hw, rw, g, r, w

\* Minus one or one: what the key is multiplied with to be of even y.
EvenFactor(pt) == IF IsOdd(pt[2]) THEN N - 1 ELSE 1

LEMMA EvenKeyFactor ==
    ASSUME NEW k \in 1..(N - 1)
    PROVE  EvenFactor(Multiples[k]) \in Int /\ Cong(N, EvenKey(k), EvenFactor(Multiples[k]) * k)
<1>1. N \in Nat \ {0} /\ k \in 0..(N - 1) /\ k \in Int /\ N \in Int
  BY CurveNumbers
<1>2. PubKey(k) = Multiples[k]
  BY <1>1, PubKeyMultiple
<1>3. CASE IsOdd(Multiples[k][2])
  <2>1. EvenKey(k) = N - k /\ EvenFactor(Multiples[k]) = N - 1
    BY <1>2, <1>3 DEF EvenKey, EvenFactor
  <2>2. Cong(N, N - k, (N - 1) * k)
    <3>1. (N - 1) * k = N * k - k /\ (1 - k) * N = N - k * N /\ N * k = k * N /\ N * k \in Int
      BY <1>1, Ring
    <3> DEFINE nk == N * k
    <3> HIDE DEF nk
    <3>2. N - k = (nk - k) + (N - nk)
      BY <1>1, <3>1 DEF nk
    <3>3. N - k = (N - 1) * k + (1 - k) * N /\ 1 - k \in Int
      BY <1>1, <3>1, <3>2 DEF nk
    <3> QED BY <3>3 DEF Cong
  <2> QED BY <1>1, <2>1, <2>2
<1>4. CASE ~IsOdd(Multiples[k][2])
  <2>1. EvenKey(k) = k /\ EvenFactor(Multiples[k]) = 1 /\ 1 * k = k /\ Cong(N, k, k)
    BY <1>1, <1>2, <1>4, CongRefl DEF EvenKey, EvenFactor
  <2> QED BY <1>1, <2>1
<1> QED BY <1>3, <1>4

\* A Schnorr signature holds if and only if its point is of even y and has the
\* x it says.
LEMMA SchnorrExact ==
    ASSUME NEW sig, NEW h, NEW l \in 1..(N - 1), sig.s \in 0..(N - 1), sig.r \in 0..(P - 1),
           ChallengeHash(sig.r, Multiples[l][1], h) \in Nat
    PROVE  LET e == ChallengeHash(sig.r, Multiples[l][1], h) % N
               R == SumOf(sig.s, EvenFactor(Multiples[l]) * (N - e), Multiples[l])
           IN  schnorrVerify(sig, h, Multiples[l][1]) <=>
                  R # Infinity /\ R[1] = sig.r /\ ~IsOdd(R[2])
<1> DEFINE x == Multiples[l][1]
           e == ChallengeHash(sig.r, x, h) % N
           s == sig.s
           f == N - e
           g == f % N
           even == EvenFactor(Multiples[l])
           m == EvenKey(l)
           ef == even * f
           efl == ef * l
           gm == g * m
           R == SumOf(s, ef, Multiples[l])
           lifted == Lift(x)
           J == MulAdd(s, g, lifted.pt)
<1>1. /\ N \in Nat \ {0} /\ N \in Int /\ l \in Int /\ l \in 0..(N - 1) /\ s \in Int
      /\ m \in 0..(N - 1) /\ m \in Int /\ lifted.ok /\ lifted.pt = Multiples[m]
      /\ AnyZ \in 1..(P - 1)
  BY CurveNumbers, EvenPoint, LiftPoint, WireAssumption
<1>2. e \in Int
  BY <1>1, DivMod
<1> HIDE DEF e
<1>3. f \in Int
  BY <1>1, <1>2
<1> HIDE DEF f
<1>4. g \in Int /\ Cong(N, g, f)
  BY <1>1, <1>3, DivMod, CongMod
<1> HIDE DEF g
<1>5. even \in Int /\ Cong(N, m, even * l) /\ even * l \in Int
  BY <1>1, EvenKeyFactor, Ring
<1> HIDE DEF even, m, s, lifted
<1>6. ef \in Int /\ efl \in Int /\ gm \in Int
  <2>1. ef \in Int /\ gm \in Int
    BY <1>1, <1>3, <1>4, <1>5, Ring
  <2> HIDE DEF ef
  <2> QED BY <1>1, <2>1, Ring
<1>7. Cong(N, gm, efl)
  <2> DEFINE el == even * l
  <2>1. el \in Int /\ Cong(N, m, el)
    BY <1>5
  <2> HIDE DEF el
  <2>2. Cong(N, g * m, f * el)
    BY <1>1, <1>3, <1>4, <2>1, CongTimes
  <2>3. f * el = efl
    <3>1. f * (even * l) = (f * even) * l /\ f * even = even * f
      BY <1>1, <1>3, <1>5, Ring
    <3> QED BY <3>1, Zenon DEF el
  <2> QED BY <2>2, <2>3, Zenon
<1> HIDE DEF ef
<1>8. R = Multiples[(s + efl) % N]
  <2>1. Plus(Times(s, G), Times(ef, Multiples[l])) = Multiples[(s + ef * l) % N]
    <3>1. s \in Int /\ ef \in Int /\ l \in 0..(N - 1)
      BY <1>1, <1>6
    <3> QED BY <3>1, MulAddMultiple, Zenon
  <2> QED BY <2>1, Zenon DEF SumOf
<1>9. J = Jacobian(Multiples[(s + gm) % N], AnyZ)
  <2>1. MulAdd(s, g, Multiples[m]) = Jacobian(Multiples[(s + g * m) % N], AnyZ)
    <3>1. s \in Int /\ g \in Int /\ m \in 0..(N - 1)
      BY <1>1, <1>4
    <3> QED BY <3>1, MulAddMultiple, Zenon
  <2> QED BY <1>1, <2>1, Zenon
<1> HIDE DEF R, J, efl, gm
<1>10. (s + gm) % N = (s + efl) % N /\ (s + efl) % N \in 0..(N - 1)
  <2> DEFINE a == s + gm
             c == s + efl
  <2>1. a \in Int /\ c \in Int /\ Cong(N, a, c)
    <3>1. Cong(N, s, s)
      BY <1>1, CongRefl
    <3> QED BY <1>1, <1>6, <1>7, <3>1, CongPlus, SMTT(30)
  <2> HIDE DEF a, c
  <2>2. a % N = c % N /\ c % N \in 0..(N - 1)
    BY <1>1, <2>1, CongIff, DivMod
  <2> QED BY <2>2 DEF a, c
<1>11. J = Jacobian(R, AnyZ) /\ (R = Infinity \/ R \in OnCurve)
  BY <1>8, <1>9, <1>10, MultiplesPoints
<1>12. schnorrVerify(sig, h, x) <=>
          /\ lifted.ok /\ ~IsNowhere(J) /\ ~IsOdd(Affine(J)[2]) /\ Affine(J)[1] = sig.r
  BY Zenon DEF schnorrVerify, J, g, f, e, s, lifted
<1> HIDE DEF x
<1>13. schnorrVerify(sig, h, x) <=> R # Infinity /\ R[1] = sig.r /\ ~IsOdd(R[2])
  <2>1. CASE R = Infinity
    BY <1>11, <1>12, <2>1, JacobianNowhere
  <2>2. CASE R \in OnCurve
    <3>1. R # Infinity /\ ~IsNowhere(J) /\ Affine(J) = R
      BY <1>1, <1>11, <2>2, CurvePoint, JacobianSomewhere, AffineJacobian
    <3> QED BY <1>1, <1>12, <3>1
  <2> QED BY <1>11, <2>1, <2>2
<1> QED BY <1>13, Zenon DEF R, ef, f, e, s, even, x

-----------------------------------------------------------------------------
(* What is on the wire are bytes.                                          *)

Bytes == Seq(0..(Byte - 1))

LEMMA BytesJoined ==
    ASSUME NEW s \in Bytes, NEW t \in Bytes
    PROVE  s \o t \in Bytes
<1> DEFINE S == 0..(Byte - 1)
<1>1. s \in Seq(S) /\ t \in Seq(S)
  BY DEF Bytes
<1> HIDE DEF S
<1>2. s \o t \in Seq(S)
  BY <1>1
<1> QED BY <1>2 DEF S, Bytes

LEMMA BytesCut ==
    ASSUME NEW s \in Bytes, NEW m \in 1..(Len(s) + 1), NEW n \in 0..Len(s)
    PROVE  SubSeq(s, m, n) \in Bytes
<1> DEFINE S == 0..(Byte - 1)
<1>1. s \in Seq(S) /\ Len(s) \in Nat
  BY DEF Bytes
<1> HIDE DEF S
<1>2. \A i \in m..n : i \in 1..Len(s)
  BY <1>1
<1>3. \A i \in m..n : s[i] \in S
  BY <1>1, <1>2
<1>4. SubSeq(s, m, n) \in Seq(S)
  BY <1>1, <1>2, <1>3
<1> QED BY <1>4 DEF S, Bytes

LEMMA ByteAlone ==
    ASSUME NEW a \in 0..(Byte - 1)
    PROVE  <<a>> \in Bytes /\ Len(<<a>>) = 1
BY DEF Bytes

LEMMA PairOfBytes ==
    ASSUME NEW a \in 0..(Byte - 1), NEW c \in 0..(Byte - 1)
    PROVE  <<a, c>> \in Bytes /\ Len(<<a, c>>) = 2
BY DEF Bytes

LEMMA NumberBytes ==
    ASSUME NEW a \in 0..(P - 1)
    PROVE  PutBytes(a) \in Bytes /\ Len(PutBytes(a)) = Width
BY FieldFits, BytesReadBack DEF Bytes

LEMMA LengthJoined ==
    ASSUME NEW s \in Bytes, NEW t \in Bytes
    PROVE  Len(s \o t) = Len(s) + Len(t) /\ Len(s) \in Nat /\ Len(t) \in Nat
<1> DEFINE S == 0..(Byte - 1)
<1>1. s \in Seq(S) /\ t \in Seq(S)
  BY DEF Bytes
<1> HIDE DEF S
<1> QED BY <1>1

LEMMA ByteNumbers ==
    /\ Byte \in Nat /\ Width \in Nat \ {0} /\ 4 + 2 * (Width + 3) < Byte
    /\ {0, 2, 3, 4, SequenceID, IntegerID, MagicOffset} \subseteq 0..(Byte - 1)
    /\ \A c \in 0..7 : MagicOffset + c \in 0..(Byte - 1)
    /\ \A n \in 0..(4 + 2 * (Width + 3)) : n \in 0..(Byte - 1)
    /\ Altered \subseteq 0..(Byte - 1)
<1>1. /\ Byte \in Nat /\ Byte > 6 /\ Width \in Nat \ {0} /\ 4 + 2 * (Width + 3) < Byte
      /\ {SequenceID, IntegerID, MagicOffset, MagicOffset + 7} \subseteq 0..(Byte - 1)
      /\ Altered \subseteq 0..(Byte - 1)
  BY ByteType, WireAssumption
<1> HIDE DEF Byte
<1> QED BY <1>1

LEMMA CanonicalBytes ==
    ASSUME NEW a \in 1..(N - 1)
    PROVE  Canonical(a) \in Bytes /\ Len(Canonical(a)) \in 1..(Width + 1)
<1> DEFINE p == PutBytes(a)
           z == <<0>>
           b == z \o p
<1>1. a \in 0..(P - 1)
  BY CurveNumbers
<1>2. p \in Bytes /\ z \in Bytes
  BY <1>1, NumberBytes, ByteAlone, ByteNumbers
<1>3. Canonical(a) = Trimmed(b)
  BY Zenon DEF Canonical
<1> HIDE DEF p, z
<1>4. b \in Bytes /\ Len(b) = Len(z) + Len(p) /\ Len(z) \in Nat /\ Len(p) \in Nat
  BY <1>2, BytesJoined, LengthJoined
<1>5. Len(b) > 0 /\ b \in Seq(Int) /\ Len(b) \in Nat
  <2>1. Len(z) = 1
    BY DEF z
  <2> HIDE DEF b
  <2> QED BY <1>4, <2>1, BytesAreIntegers DEF Bytes
<1> HIDE DEF b
<1>6. PICK n \in 0..(Len(b) - 1) : Trimmed(b) = SubSeq(b, n + 1, Len(b))
  BY <1>5, TrimmedBytes
<1>7. SubSeq(b, n + 1, Len(b)) \in Bytes
  <2>1. n + 1 \in 1..(Len(b) + 1) /\ Len(b) \in 0..Len(b)
    BY <1>5
  <2> QED BY <1>4, <2>1, BytesCut
<1> QED BY <1>3, <1>6, <1>7, CanonicalInteger

\* However another program writes an integer.
LEMMA WritingBytes ==
    ASSUME NEW a \in 1..(N - 1), NEW c \in Writings(a)
    PROVE  c \in Bytes /\ Len(c) <= Width + 3
<1> DEFINE d0 == Canonical(a)
           z == <<0>>
           zz == <<0, 0>>
<1>1. d0 \in Bytes /\ Len(d0) \in 1..(Width + 1)
  BY CanonicalBytes
<1>2. c \in {d0, z \o d0, zz \o d0, IF d0[1] = 0 THEN Tail(d0) ELSE d0}
  BY Zenon DEF Writings
<1>3. z \in Bytes /\ Len(z) = 1 /\ zz \in Bytes /\ Len(zz) = 2
  BY ByteAlone, PairOfBytes, ByteNumbers
<1>4. Width \in Nat
  BY ByteNumbers
<1> HIDE DEF d0, z, zz
<1>5. /\ z \o d0 \in Bytes /\ Len(z \o d0) = 1 + Len(d0)
      /\ zz \o d0 \in Bytes /\ Len(zz \o d0) = 2 + Len(d0)
  BY <1>1, <1>3, BytesJoined, LengthJoined
<1>6. Tail(d0) \in Bytes /\ Len(Tail(d0)) = Len(d0) - 1
  <2>1. Len(d0) > 0
    BY <1>1
  <2> QED BY <1>1, <2>1, Headed DEF Bytes
<1>7. CASE c = d0
  BY <1>1, <1>4, <1>7
<1>8. CASE c = z \o d0
  BY <1>1, <1>4, <1>5, <1>8
<1>9. CASE c = zz \o d0
  BY <1>1, <1>4, <1>5, <1>9
<1>10. CASE c = Tail(d0)
  BY <1>1, <1>4, <1>6, <1>10
<1> QED BY <1>2, <1>7, <1>8, <1>9, <1>10

LEMMA SequenceInBytes ==
    ASSUME NEW r \in Bytes, NEW s \in Bytes, Len(r) <= Width + 3, Len(s) <= Width + 3
    PROVE  Sequence(r, s) \in Bytes
<1> DEFINE g == <<IntegerID, Len(r)>>
           h == <<IntegerID, Len(s)>>
           body == ((g \o r) \o h) \o s
           top == <<SequenceID, Len(body)>>
<1>1. /\ Width \in Nat /\ Len(r) \in Nat /\ Len(s) \in Nat
      /\ IntegerID \in 0..(Byte - 1) /\ SequenceID \in 0..(Byte - 1)
      /\ \A n \in 0..(4 + 2 * (Width + 3)) : n \in 0..(Byte - 1)
  BY ByteNumbers, LengthJoined
<1>2. Len(r) \in 0..(Byte - 1) /\ Len(s) \in 0..(Byte - 1)
  <2>1. Len(r) \in 0..(4 + 2 * (Width + 3)) /\ Len(s) \in 0..(4 + 2 * (Width + 3))
    BY <1>1
  <2> QED BY <1>1, <2>1
<1>3. g \in Bytes /\ Len(g) = 2 /\ h \in Bytes /\ Len(h) = 2
  BY <1>1, <1>2, PairOfBytes
<1>4. Sequence(r, s) = top \o body
  BY DEF Sequence
<1> HIDE DEF g, h
<1>5. g \o r \in Bytes /\ Len(g \o r) = 2 + Len(r)
  BY <1>3, BytesJoined, LengthJoined, ZenonT(30)
<1>6. (g \o r) \o h \in Bytes /\ Len((g \o r) \o h) = (2 + Len(r)) + 2
  <2> DEFINE gr == g \o r
  <2> HIDE DEF gr
  <2>1. gr \in Bytes /\ Len(gr) = 2 + Len(r)
    BY <1>5 DEF gr
  <2>2. gr \o h \in Bytes /\ Len(gr \o h) = (2 + Len(r)) + 2
    BY <1>3, <2>1, BytesJoined, LengthJoined
  <2> QED BY <2>2 DEF gr
<1>7. body \in Bytes /\ Len(body) = ((2 + Len(r)) + 2) + Len(s)
  <2> DEFINE grh == (g \o r) \o h
  <2> HIDE DEF grh
  <2>1. grh \in Bytes /\ Len(grh) = (2 + Len(r)) + 2
    BY <1>6 DEF grh
  <2>2. grh \o s \in Bytes /\ Len(grh \o s) = ((2 + Len(r)) + 2) + Len(s)
    BY <2>1, BytesJoined, LengthJoined
  <2> QED BY <2>2 DEF grh
<1> HIDE DEF body
<1>8. Len(body) \in 0..(Byte - 1)
  <2>1. Len(body) \in 0..(4 + 2 * (Width + 3))
    BY <1>1, <1>7
  <2> QED BY <1>1, <2>1
<1>9. top \in Bytes
  BY <1>1, <1>8, PairOfBytes
<1> QED BY <1>4, <1>7, <1>9, BytesJoined

-----------------------------------------------------------------------------
(* What every state keeps, and what follows from it.                       *)

\* The key and the nonces are scalars, each nonce that was passed over gives no
\* signature, and what was made is what the key and a nonce give.
SignInvariant ==
    /\ hash \in Hashes /\ d \in 0..(N - 1)
    /\ nonces \in Seq(1..(N - 1)) /\ iteration \in 0..Len(nonces)
    /\ d = 0 => nonces = <<>> /\ made = NotMade
    /\ scheme = "ecdsa" => \A i \in 1..iteration : ~sign(d, nonces[i], hash % N).ok
    /\ \/ made \in {NotMade, Failed}
       \/ /\ scheme = "ecdsa" /\ HasNonce
          /\ made = sign(d, nonces[iteration + 1], hash % N) /\ made.ok
       \/ \E k \in 1..(N - 1), fastSign \in BOOLEAN :
             d # 0 /\ made = schnorrSign(d, k, hash, fastSign) /\ made.ok

LEMMA SignInvariantInit == SigInit => SignInvariant
<1> SUFFICES ASSUME SigInit PROVE SignInvariant
  OBVIOUS
<1>1. hash \in Hashes /\ d = 0 /\ nonces = <<>> /\ iteration = 0 /\ made = NotMade
  BY DEF SigInit
<1>2. N \in Nat \ {0}
  BY CurveNumbers
<1> QED BY <1>1, <1>2 DEF SignInvariant

LEMMA SignInvariantNext == SignInvariant /\ [SigNext]_sigVars => SignInvariant'
<1> SUFFICES ASSUME SignInvariant, [SigNext]_sigVars PROVE SignInvariant'
  OBVIOUS
<1>n. N \in Nat \ {0}
  BY CurveNumbers
<1>t. /\ hash \in Hashes /\ d \in 0..(N - 1)
      /\ nonces \in Seq(1..(N - 1)) /\ iteration \in 0..Len(nonces) /\ Len(nonces) \in Nat
      /\ d = 0 => nonces = <<>> /\ made = NotMade
  BY DEF SignInvariant
<1>1. CASE GenerateSecretKey
  <2>1. /\ d = 0 /\ \E b \in Keys : d' = IF InOrder(b) THEN b ELSE 0
        /\ UNCHANGED <<scheme, hash, drawn, nonces, iteration, made, wire>>
    BY <1>1, Zenon DEF GenerateSecretKey
  <2>2. d' \in 0..(N - 1)
    BY <1>n, <2>1 DEF InOrder
  <2>3. nonces = <<>> /\ made = NotMade /\ iteration = 0
    BY <1>t, <2>1
  <2> QED BY <1>t, <2>1, <2>2, <2>3 DEF SignInvariant
<1>2. CASE Hmac
  <2>1. /\ d # 0 /\ made = NotMade /\ ~HasNonce
        /\ \E c \in Candidates : nonces' = IF InOrder(c) THEN Append(nonces, c) ELSE nonces
        /\ UNCHANGED <<scheme, d, hash, iteration, made, wire>>
    BY <1>2, Zenon DEF Hmac
  <2>2. PICK c \in Candidates : nonces' = IF InOrder(c) THEN Append(nonces, c) ELSE nonces
    BY <2>1
  <2>3. CASE ~InOrder(c)
    <3>1. nonces' = nonces
      BY <2>2, <2>3
    <3> QED BY <1>t, <2>1, <3>1, Zenon DEF SignInvariant
  <2>4. CASE InOrder(c)
    <3>1. nonces' = Append(nonces, c) /\ c \in 1..(N - 1)
      BY <2>2, <2>4 DEF InOrder
    <3>2. /\ nonces' \in Seq(1..(N - 1)) /\ Len(nonces') = Len(nonces) + 1
          /\ \A i \in 1..Len(nonces) : nonces'[i] = nonces[i]
      BY <1>t, <3>1
    <3>3. iteration \in 0..Len(nonces')
      BY <1>t, <3>2
    <3>4. scheme = "ecdsa" => \A i \in 1..iteration : ~sign(d, nonces'[i], hash % N).ok
      <4>1. \A i \in 1..iteration : i \in 1..Len(nonces)
        BY <1>t
      <4>2. scheme = "ecdsa" => \A i \in 1..iteration : ~sign(d, nonces[i], hash % N).ok
        BY Zenon DEF SignInvariant
      <4> QED BY <3>2, <4>1, <4>2, Zenon
    <3> QED BY <1>t, <2>1, <3>2, <3>3, <3>4, Zenon DEF SignInvariant
  <2> QED BY <2>3, <2>4
<1>3. CASE signRFC6979
  <2> DEFINE sg == sign(d, nonces[iteration + 1], hash % N)
  <2>1. /\ made = NotMade /\ scheme = "ecdsa" /\ HasNonce
        /\ IF sg.ok THEN made' = sg /\ UNCHANGED iteration
                    ELSE iteration' = iteration + 1 /\ UNCHANGED made
        /\ UNCHANGED <<scheme, d, hash, drawn, nonces, wire>>
    BY <1>3, Zenon DEF signRFC6979, Try, NonceRFC6979
  <2>2. Len(nonces) > iteration /\ d # 0
    <3>1. Len(nonces) > iteration
      BY <2>1 DEF HasNonce
    <3>2. d = 0 => Len(nonces) = 0
      BY <1>t
    <3> QED BY <1>t, <3>1, <3>2
  <2>3. \A i \in 1..iteration : ~sign(d, nonces[i], hash % N).ok
    BY <2>1, Zenon DEF SignInvariant
  <2>4. CASE sg.ok
    <3>1. made' = sg /\ iteration' = iteration
      BY <2>1, <2>4
    <3>2. /\ scheme' = "ecdsa" /\ HasNonce'
          /\ made' = sign(d', nonces'[iteration' + 1], hash' % N) /\ made'.ok
      BY <2>1, <2>4, <3>1, Zenon DEF HasNonce
    <3> HIDE DEF sg
    <3> QED BY <1>t, <2>1, <2>2, <2>3, <3>1, <3>2, Zenon DEF SignInvariant
  <2>5. CASE ~sg.ok
    <3>1. made' = made /\ iteration' = iteration + 1
      BY <2>1, <2>5
    <3>2. iteration' \in 0..Len(nonces)
      BY <1>t, <2>2, <3>1
    <3>3. \A i \in 1..(iteration + 1) : ~sign(d, nonces[i], hash % N).ok
      <4> SUFFICES ASSUME NEW i \in 1..(iteration + 1)
                   PROVE  ~sign(d, nonces[i], hash % N).ok
        OBVIOUS
      <4>1. i \in 1..iteration \/ i = iteration + 1
        BY <1>t
      <4> QED BY <2>3, <2>5, <4>1, Zenon
    <3> HIDE DEF sg
    <3> QED BY <1>t, <2>1, <2>2, <3>1, <3>2, <3>3, Zenon DEF SignInvariant
  <2> QED BY <2>4, <2>5
<1>4. CASE SignSchnorr
  <2>1. PICK fastSign \in BOOLEAN :
          LET sig == schnorrSign(d, nonces[iteration + 1], hash, fastSign)
          IN  IF sig.ok THEN made' = sig /\ UNCHANGED iteration
                        ELSE iteration' = iteration + 1 /\ UNCHANGED made
    BY <1>4, Zenon DEF SignSchnorr, Try, NonceRFC6979
  <2> DEFINE k == nonces[iteration + 1]
             sg == schnorrSign(d, k, hash, fastSign)
  <2>2. /\ made = NotMade /\ scheme = "schnorr" /\ HasNonce
        /\ IF sg.ok THEN made' = sg /\ UNCHANGED iteration
                    ELSE iteration' = iteration + 1 /\ UNCHANGED made
        /\ UNCHANGED <<scheme, d, hash, drawn, nonces, wire>>
    BY <1>4, <2>1, Zenon DEF SignSchnorr
  <2>3. Len(nonces) > iteration /\ d # 0
    <3>1. Len(nonces) > iteration
      BY <2>2 DEF HasNonce
    <3>2. d = 0 => Len(nonces) = 0
      BY <1>t
    <3> QED BY <1>t, <3>1, <3>2
  <2>4. k \in 1..(N - 1) /\ scheme' # "ecdsa"
    <3>1. iteration + 1 \in 1..Len(nonces) /\ nonces \in Seq(1..(N - 1))
      BY <1>t, <2>3
    <3>2. k \in 1..(N - 1)
      BY <3>1, ElementOfSeq
    <3>3. scheme' = "schnorr"
      BY <2>2
    <3> HIDE DEF k
    <3> QED BY <3>2, <3>3
  <2>5. CASE sg.ok
    <3>1. made' = sg /\ iteration' = iteration
      BY <2>2, <2>5
    <3>2. \E kk \in 1..(N - 1), fast \in BOOLEAN :
             d' # 0 /\ made' = schnorrSign(d', kk, hash', fast) /\ made'.ok
      <4>1. d' # 0 /\ made' = schnorrSign(d', k, hash', fastSign) /\ made'.ok
        BY <2>2, <2>3, <2>5, <3>1, Zenon
      <4> HIDE DEF k, sg
      <4> QED BY <2>4, <4>1, Zenon
    <3> HIDE DEF k, sg
    <3> QED BY <1>t, <2>2, <2>3, <2>4, <3>1, <3>2, Zenon DEF SignInvariant
  <2>6. CASE ~sg.ok
    <3>1. made' = made /\ iteration' = iteration + 1
      BY <2>2, <2>6
    <3>2. iteration' \in 0..Len(nonces)
      BY <1>t, <2>3, <3>1
    <3> HIDE DEF k, sg
    <3> QED BY <1>t, <2>2, <2>3, <2>4, <3>1, <3>2, Zenon DEF SignInvariant
  <2> QED BY <2>5, <2>6
<1>5. CASE SignAux
  <2>1. PICK c \in Candidates, fastSign \in BOOLEAN :
           made' = IF c % N # 0 /\ schnorrSign(d, c % N, hash, fastSign).ok
                   THEN schnorrSign(d, c % N, hash, fastSign) ELSE Failed
    BY <1>5, Zenon DEF SignAux
  <2>2. /\ d # 0 /\ scheme = "aux"
        /\ UNCHANGED <<scheme, d, hash, drawn, nonces, iteration, wire>>
    BY <1>5, Zenon DEF SignAux
  <2> DEFINE k == c % N
             sg == schnorrSign(d, k, hash, fastSign)
  <2>3. made' = IF k # 0 /\ sg.ok THEN sg ELSE Failed
    BY <2>1, Zenon
  <2>4. k \in 0..(N - 1)
    <3>1. c \in 0..(Power(Width) - 1)
      BY WireAssumption, Zenon DEF Power
    <3>2. c \in Int
      BY <3>1
    <3> QED BY <1>n, <3>2, DivMod
  <2> HIDE DEF k
  <2>5. CASE k # 0 /\ sg.ok
    <3>1. made' = sg
      BY <2>3, <2>5
    <3>2. k \in 1..(N - 1)
      BY <1>n, <2>4, <2>5
    <3>3. \E kk \in 1..(N - 1), fast \in BOOLEAN :
             d' # 0 /\ made' = schnorrSign(d', kk, hash', fast) /\ made'.ok
      <4>1. d' # 0 /\ made' = schnorrSign(d', k, hash', fastSign) /\ made'.ok
        BY <2>2, <2>5, <3>1, Zenon
      <4> HIDE DEF sg
      <4> QED BY <3>2, <4>1, Zenon
    <3>4. scheme' # "ecdsa"
      BY <2>2
    <3> HIDE DEF sg
    <3> QED BY <1>t, <2>2, <3>3, <3>4, Zenon DEF SignInvariant
  <2>6. CASE ~(k # 0 /\ sg.ok)
    <3>1. made' = Failed
      BY <2>3, <2>6, Zenon
    <3>2. scheme' # "ecdsa" /\ d' # 0
      BY <2>2
    <3> HIDE DEF sg
    <3> QED BY <1>t, <2>2, <3>1, <3>2, Zenon DEF SignInvariant
  <2> QED BY <2>5, <2>6
<1>6. CASE UNCHANGED <<scheme, d, hash, nonces, iteration, made>>
  BY <1>6, Zenon DEF SignInvariant, HasNonce
<1>7. Send \/ Alter \/ AlterLength \/ UNCHANGED sigVars
         => UNCHANGED <<scheme, d, hash, nonces, iteration, made>>
  BY Zenon DEF Send, Alter, AlterLength, sigVars
<1> QED BY <1>1, <1>2, <1>3, <1>4, <1>5, <1>6, <1>7, Zenon DEF SigNext

LEMMA HashReduced ==
    ASSUME hash \in Hashes
    PROVE  hash % N \in 0..(N - 1) /\ hash % N \in Int
<1>1. hash \in 0..(Power(Width) - 1)
  BY WireAssumption, Zenon DEF Power
<1>2. hash \in Int /\ N \in Nat \ {0}
  BY <1>1, CurveNumbers
<1> QED BY <1>2, DivMod

\* What SignaturesHold says of an ECDSA signature.
LEMMA EcdsaHolds ==
    ASSUME NEW made0, NEW key \in 1..(N - 1), NEW k \in 1..(N - 1), NEW h \in 0..(N - 1),
           made0 = sign(key, k, h), made0.ok
    PROVE  /\ Verify(made0, h, Multiples[key])
           /\ Verify([made0 EXCEPT !.s = N - @], h, Multiples[key])
           /\ ParseDERSignature(Serialize(made0)).ok
           /\ ParseDERSignature(Serialize(made0)).r = made0.r
           /\ ParseDERSignature(Serialize(made0)).s = made0.s
           /\ \A c \in BOOLEAN :
                 LET rec == RecoverCompact(SignCompact(made0, c), h)
                 IN  rec.ok /\ rec.pt = Multiples[key] /\ rec.wasCompressed = c
<1>1. PICK r \in 1..(N - 1), s \in 1..(N - 1), kk \in 1..(N - 1) :
         LET sig == EcdsaSignature(r, s, CodeOf(Multiples[kk]))
         IN  sign(key, k, h) = sig /\ Signed(sig, kk, key, h) /\ ~IsOverHalfOrder(s)
  BY SignGives
<1> DEFINE sig == EcdsaSignature(r, s, CodeOf(Multiples[kk]))
<1>2. made0 = sig /\ Signed(sig, kk, key, h) /\ ~IsOverHalfOrder(s)
  BY <1>1
<1>3. h \in Int /\ key \in 0..(N - 1)
  BY CurveNumbers
<1>4. Verify(sig, h, Multiples[key])
  <2> HIDE DEF sig
  <2> QED BY <1>2, <1>3, SignedVerifies
<1>5. Verify([sig EXCEPT !.s = N - @], h, Multiples[key])
  <2> DEFINE neg == [sig EXCEPT !.s = N - @]
  <2>1. neg.r = sig.r /\ neg.s = N - sig.s
    BY DEF EcdsaSignature
  <2> HIDE DEF neg, sig
  <2>2. Signed(neg, N - kk, key, h)
    BY <1>2, <1>3, <2>1, NegatedSigned
  <2>3. Verify(neg, h, Multiples[key])
    BY <1>3, <2>2, SignedVerifies
  <2> QED BY <2>3 DEF neg
<1>6. ParseDERSignature(Serialize(sig)) = [ok |-> TRUE, r |-> r, s |-> s]
  <2>1. sig.r = r /\ sig.s = s
    BY DEF EcdsaSignature
  <2> HIDE DEF sig
  <2>2. Serialize(sig) = DER(r, s)
    BY <1>2, <2>1 DEF Serialize
  <2> QED BY <2>2, DERReadBack
<1>7. ASSUME NEW c \in BOOLEAN
      PROVE  LET rec == RecoverCompact(SignCompact(sig, c), h)
             IN  rec.ok /\ rec.pt = Multiples[key] /\ rec.wasCompressed = c
  <2>1. sig.code = CodeOf(Multiples[kk])
    BY DEF EcdsaSignature
  <2> HIDE DEF sig
  <2> QED BY <1>2, <1>3, <2>1, CompactReadBack
<1>8. sig.r = r /\ sig.s = s
  BY DEF EcdsaSignature
<1> HIDE DEF sig
<1>9. /\ ParseDERSignature(Serialize(sig)).ok
      /\ ParseDERSignature(Serialize(sig)).r = sig.r
      /\ ParseDERSignature(Serialize(sig)).s = sig.s
  BY <1>6, <1>8
<1> QED BY <1>2, <1>4, <1>5, <1>7, <1>9

\* Two parties reach the same secret.
LEMMA SecretShared ==
    ASSUME NEW a \in 0..(N - 1), NEW b \in 0..(N - 1)
    PROVE  GenerateSharedSecret(a, PubKey(b)) = GenerateSharedSecret(b, PubKey(a))
<1>1. a \in Int /\ b \in Int
  BY CurveNumbers
<1>2. Times(a, Multiples[b]) = Multiples[(a * b) % N]
  BY <1>1, TimesMultiple
<1>3. Times(b, Multiples[a]) = Multiples[(b * a) % N]
  BY <1>1, TimesMultiple
<1>4. a * b = b * a
  BY <1>1, Ring
<1>5. Times(a, Multiples[b]) = Times(b, Multiples[a])
  BY <1>2, <1>3, <1>4, Zenon
<1> QED BY <1>5, PubKeyMultiple, Zenon DEF GenerateSharedSecret

LEMMA KeyFormsReadBack ==
    ASSUME NEW pt \in OnCurve, NEW form \in KeyForms(pt)
    PROVE  ParsePubKey(form.bytes).pt = pt
<1>1. PICK b \in {SerializeCompressed(pt), SerializeUncompressed(pt)} : form = Sent("key", b)
  BY Zenon DEF KeyForms
<1>2. form.bytes = b
  BY <1>1 DEF Sent
<1>3. CASE b = SerializeUncompressed(pt)
  BY <1>2, <1>3, UncompressedReadBack
<1>4. CASE b = SerializeCompressed(pt)
  <2> DEFINE format == IF IsOdd(pt[2]) THEN 3 ELSE 2
  <2>1. format \in {2, 3} /\ (format = 3 <=> IsOdd(pt[2]))
    OBVIOUS
  <2>2. b = <<format>> \o PutBytes(pt[1])
    BY <1>4 DEF SerializeCompressed
  <2> HIDE DEF format
  <2> QED BY <1>2, <2>1, <2>2, CompressedReadBack
<1> QED BY <1>1, <1>3, <1>4

LEMMA SignInvariantHolds == SignInvariant => SignaturesHold
<1> SUFFICES ASSUME SignInvariant PROVE SignaturesHold
  OBVIOUS
<1>1. /\ hash \in Hashes /\ d \in 0..(N - 1) /\ N \in Nat \ {0}
      /\ nonces \in Seq(1..(N - 1)) /\ iteration \in 0..Len(nonces) /\ Len(nonces) \in Nat
      /\ d = 0 => nonces = <<>> /\ made = NotMade
  BY CurveNumbers DEF SignInvariant
<1>2. /\ scheme = "ecdsa" => \A i \in 1..iteration : ~sign(d, nonces[i], hash % N).ok
      /\ \/ made \in {NotMade, Failed}
         \/ /\ scheme = "ecdsa" /\ HasNonce
            /\ made = sign(d, nonces[iteration + 1], hash % N) /\ made.ok
         \/ \E k \in 1..(N - 1), fastSign \in BOOLEAN :
               d # 0 /\ made = schnorrSign(d, k, hash, fastSign) /\ made.ok
  BY Zenon DEF SignInvariant
<1>3. Q = Multiples[d]
  BY <1>1, PubKeyMultiple DEF Q
<1>4. d # 0 => d \in 1..(N - 1) /\ Q \in OnCurve
  BY <1>1, <1>3, MultiplesPoints
<1> DEFINE h == hash % N
<1>5. h \in 0..(N - 1)
  BY <1>1, HashReduced
<1>6. NotMade.kind = "none" /\ Failed.kind = "failed"
  BY DEF NotMade, Failed
<1> DEFINE k0 == nonces[iteration + 1]
<1>7. ASSUME scheme = "ecdsa", HasNonce, made = sign(d, k0, h), made.ok
      PROVE  d # 0 /\ k0 \in 1..(N - 1) /\ made.kind = "ecdsa"
  <2>1. Len(nonces) > iteration
    BY <1>7 DEF HasNonce
  <2>2. d # 0
    <3>1. d = 0 => Len(nonces) = 0
      BY <1>1
    <3> QED BY <1>1, <2>1, <3>1
  <2>3. k0 \in 1..(N - 1)
    <3>1. iteration + 1 \in 1..Len(nonces) /\ nonces \in Seq(1..(N - 1))
      BY <1>1, <2>1
    <3> QED BY <3>1, ElementOfSeq
  <2> HIDE DEF k0, h
  <2>4. PICK r \in 1..(N - 1), s \in 1..(N - 1), kk \in 1..(N - 1) :
           made = EcdsaSignature(r, s, CodeOf(Multiples[kk]))
    BY <1>4, <1>5, <1>7, <2>2, <2>3, SignGives
  <2>5. made.kind = "ecdsa"
    BY <2>4 DEF EcdsaSignature
  <2> QED BY <2>2, <2>3, <2>5
<1>8. ASSUME NEW k \in 1..(N - 1), NEW fastSign \in BOOLEAN,
             d # 0, made = schnorrSign(d, k, hash, fastSign), made.ok
      PROVE  /\ made.kind = "schnorr" /\ made.r \in 0..(P - 1) /\ made.s \in 0..(N - 1)
             /\ schnorrVerify(made, hash, Multiples[d][1])
  BY <1>1, <1>4, <1>8, SchnorrGives
<1> HIDE DEF k0, h
<1>9. ASSUME made.kind = "ecdsa"
      PROVE  LET read == ParseDERSignature(Serialize(made)) IN
             /\ sign(d, nonces[iteration + 1], hash % N).s = made.s
             /\ \A i \in 1..iteration : ~sign(d, nonces[i], hash % N).ok
             /\ Verify(made, hash % N, Q)
             /\ Verify([made EXCEPT !.s = N - @], hash % N, Q)
             /\ read.ok /\ read.r = made.r /\ read.s = made.s
             /\ \A compressed \in BOOLEAN :
                   LET rec == RecoverCompact(SignCompact(made, compressed), hash % N)
                   IN  rec.ok /\ rec.pt = Q /\ rec.wasCompressed = compressed
  <2>1. scheme = "ecdsa" /\ HasNonce /\ made = sign(d, k0, h) /\ made.ok
    <3>1. made \notin {NotMade, Failed}
      BY <1>6, <1>9
    <3>2. ~\E k \in 1..(N - 1), fastSign \in BOOLEAN :
             d # 0 /\ made = schnorrSign(d, k, hash, fastSign) /\ made.ok
      BY <1>8, <1>9
    <3> QED BY <1>2, <3>1, <3>2, Zenon DEF k0, h
  <2>2. d \in 1..(N - 1) /\ k0 \in 1..(N - 1)
    BY <1>4, <1>7, <2>1
  <2>3. /\ Verify(made, h, Multiples[d])
        /\ Verify([made EXCEPT !.s = N - @], h, Multiples[d])
        /\ ParseDERSignature(Serialize(made)).ok
        /\ ParseDERSignature(Serialize(made)).r = made.r
        /\ ParseDERSignature(Serialize(made)).s = made.s
        /\ \A c \in BOOLEAN :
              LET rec == RecoverCompact(SignCompact(made, c), h)
              IN  rec.ok /\ rec.pt = Multiples[d] /\ rec.wasCompressed = c
    BY <1>5, <2>1, <2>2, EcdsaHolds
  <2>4. /\ sign(d, nonces[iteration + 1], hash % N).s = made.s
        /\ \A i \in 1..iteration : ~sign(d, nonces[i], hash % N).ok
    BY <1>2, <2>1, Zenon DEF k0, h
  <2> QED BY <1>3, <2>3, <2>4, Zenon DEF h
<1>10. ASSUME made.kind = "schnorr"
       PROVE  LET read == ParseSignature(Fixed(made)) IN
              /\ read.ok /\ read.r = made.r /\ read.s = made.s
              /\ schnorrVerify(made, hash, Q[1])
  <2>1. PICK k \in 1..(N - 1), fastSign \in BOOLEAN :
           d # 0 /\ made = schnorrSign(d, k, hash, fastSign) /\ made.ok
    <3>1. made \notin {NotMade, Failed}
      BY <1>6, <1>10
    <3>2. ~(scheme = "ecdsa" /\ HasNonce /\ made = sign(d, k0, h) /\ made.ok)
      BY <1>7, <1>10
    <3> QED BY <1>2, <3>1, <3>2, Zenon DEF k0, h
  <2>2. /\ made.r \in 0..(P - 1) /\ made.s \in 0..(N - 1)
        /\ schnorrVerify(made, hash, Multiples[d][1])
    BY <1>8, <2>1
  <2>3. ParseSignature(Fixed(made)) = [ok |-> TRUE, r |-> made.r, s |-> made.s]
    BY <2>2, SchnorrReadBack
  <2> QED BY <1>3, <2>2, <2>3
<1>11. ASSUME d # 0
       PROVE  /\ \A form \in KeyForms(Q) : ParsePubKey(form.bytes).pt = Q
              /\ \A k \in 1..(N - 1) :
                    GenerateSharedSecret(d, PubKey(k)) = GenerateSharedSecret(k, Q)
  <2>1. Q \in OnCurve /\ Q = PubKey(d)
    BY <1>4, <1>11 DEF Q
  <2>2. \A k \in 1..(N - 1) : k \in 0..(N - 1)
    BY <1>1
  <2> QED BY <1>1, <2>1, <2>2, KeyFormsReadBack, SecretShared
<1> QED BY <1>9, <1>10, <1>11, Zenon DEF SignaturesHold

\* Every signature that is made verifies, is read back from each of its forms,
\* and gives the key back if it is an ECDSA signature; keys are read back from
\* their forms, and both parties compute the same secret (nonce.go 211-263,
\* ecdsa/signature.go 68-994, schnorr/signature.go 113-543, ecdh.go 14-21).
THEOREM SignedIsAccepted == SigSpec => []SignaturesHold
<1>1. SigInit => SignInvariant
  BY SignInvariantInit
<1>2. SignInvariant /\ [SigNext]_sigVars => SignInvariant'
  BY SignInvariantNext
<1>3. SignInvariant => SignaturesHold
  BY SignInvariantHolds
<1> QED BY <1>1, <1>2, <1>3, PTL DEF SigSpec

\* The numbers of a signature that was made.
LEMMA MadeNumbers ==
    ASSUME SignInvariant
    PROVE  /\ made.kind = "ecdsa" =>
                made.r \in 1..(N - 1) /\ made.s \in 1..(N - 1) /\ made.code \in 0..3
           /\ made.kind = "schnorr" => made.r \in 0..(P - 1) /\ made.s \in 0..(N - 1)
           /\ made.kind \in {"ecdsa", "schnorr", "none", "failed"}
<1>1. /\ hash \in Hashes /\ d \in 0..(N - 1) /\ N \in Nat \ {0}
      /\ nonces \in Seq(1..(N - 1)) /\ iteration \in 0..Len(nonces) /\ Len(nonces) \in Nat
      /\ d = 0 => nonces = <<>> /\ made = NotMade
  BY CurveNumbers DEF SignInvariant
<1>2. \/ made \in {NotMade, Failed}
      \/ /\ scheme = "ecdsa" /\ HasNonce
         /\ made = sign(d, nonces[iteration + 1], hash % N) /\ made.ok
      \/ \E k \in 1..(N - 1), fastSign \in BOOLEAN :
            d # 0 /\ made = schnorrSign(d, k, hash, fastSign) /\ made.ok
  BY Zenon DEF SignInvariant
<1>3. CASE made \in {NotMade, Failed}
  BY <1>3 DEF NotMade, Failed
<1>4. ASSUME NEW k \in 1..(N - 1), NEW fastSign \in BOOLEAN,
             d # 0, made = schnorrSign(d, k, hash, fastSign), made.ok
      PROVE  made.kind = "schnorr" /\ made.r \in 0..(P - 1) /\ made.s \in 0..(N - 1)
  <2>1. d \in 1..(N - 1)
    BY <1>1, <1>4
  <2> QED BY <1>1, <1>4, <2>1, SchnorrGives
<1>5. CASE HasNonce /\ made = sign(d, nonces[iteration + 1], hash % N) /\ made.ok
  <2> DEFINE k == nonces[iteration + 1]
             h == hash % N
  <2>1. Len(nonces) > iteration
    BY <1>5 DEF HasNonce
  <2>2. d \in 1..(N - 1)
    <3>1. d = 0 => Len(nonces) = 0
      BY <1>1
    <3> QED BY <1>1, <2>1, <3>1
  <2>3. k \in 1..(N - 1)
    <3>1. iteration + 1 \in 1..Len(nonces) /\ nonces \in Seq(1..(N - 1))
      BY <1>1, <2>1
    <3> QED BY <3>1, ElementOfSeq
  <2>4. h \in 0..(N - 1)
    BY <1>1, HashReduced
  <2>5. made = sign(d, k, h) /\ made.ok
    BY <1>5
  <2> HIDE DEF k, h
  <2>6. PICK r \in 1..(N - 1), s \in 1..(N - 1), kk \in 1..(N - 1) :
           made = EcdsaSignature(r, s, CodeOf(Multiples[kk]))
    BY <2>2, <2>3, <2>4, <2>5, SignGives
  <2>7. CodeOf(Multiples[kk]) \in 0..3
    BY DEF CodeOf
  <2>8. /\ made.kind = "ecdsa" /\ made.r = r /\ made.s = s
        /\ made.code = CodeOf(Multiples[kk])
    BY <2>6 DEF EcdsaSignature
  <2> QED BY <2>7, <2>8
<1> QED BY <1>2, <1>3, <1>4, <1>5

LEMMA FixedBytes ==
    ASSUME NEW sig, sig.r \in 0..(P - 1), sig.s \in 0..(P - 1)
    PROVE  Fixed(sig) \in Bytes
BY NumberBytes, BytesJoined DEF Fixed

LEMMA CompactBytes ==
    ASSUME NEW sig, NEW c \in BOOLEAN, sig.r \in 0..(P - 1), sig.s \in 0..(P - 1),
           sig.code \in 0..3
    PROVE  SignCompact(sig, c) \in Bytes
<1> DEFINE first == MagicOffset + sig.code + (IF c THEN 4 ELSE 0)
           bits == sig.code + (IF c THEN 4 ELSE 0)
<1>1. MagicOffset \in Int
  BY ByteNumbers
<1>2. bits \in 0..7 /\ first = MagicOffset + bits
  BY <1>1
<1> HIDE DEF bits, first
<1>3. <<first>> \in Bytes
  BY <1>2, ByteNumbers, ByteAlone
<1>4. SignCompact(sig, c) = <<first>> \o Fixed(sig)
  BY Zenon DEF SignCompact, first
<1> QED BY <1>3, <1>4, FixedBytes, BytesJoined

LEMMA KeyFormBytes ==
    ASSUME NEW pt \in OnCurve, NEW form \in KeyForms(pt)
    PROVE  \E b \in Bytes : form = Sent("key", b)
<1>1. PICK b \in {SerializeCompressed(pt), SerializeUncompressed(pt)} : form = Sent("key", b)
  BY Zenon DEF KeyForms
<1>2. PutBytes(pt[1]) \in Bytes /\ PutBytes(pt[2]) \in Bytes
  BY CurvePoint, NumberBytes
<1>3. SerializeCompressed(pt) \in Bytes
  <2> DEFINE first == IF IsOdd(pt[2]) THEN 3 ELSE 2
  <2>1. <<first>> \in Bytes
    <3>1. first \in {2, 3}
      OBVIOUS
    <3> HIDE DEF first
    <3>2. first \in 0..(Byte - 1)
      BY <3>1, ByteNumbers
    <3> QED BY <3>2, ByteAlone
  <2>2. SerializeCompressed(pt) = <<first>> \o PutBytes(pt[1])
    BY Zenon DEF SerializeCompressed
  <2> QED BY <1>2, <2>1, <2>2, BytesJoined
<1>4. SerializeUncompressed(pt) \in Bytes
  <2>1. <<4>> \in Bytes
    BY ByteNumbers, ByteAlone
  <2>2. SerializeUncompressed(pt) = (<<4>> \o PutBytes(pt[1])) \o PutBytes(pt[2])
    BY DEF SerializeUncompressed
  <2> QED BY <1>2, <2>1, <2>2, BytesJoined
<1> QED BY <1>1, <1>3, <1>4

FormNames == {"none", "compact", "der", "schnorr", "key"}

\* Whatever is sent is in bytes.
LEMMA FormBytes ==
    ASSUME SignInvariant, d # 0, NEW form \in Forms \cup KeyForms(PubKey(d))
    PROVE  \E f \in FormNames, b \in Bytes : form = Sent(f, b)
<1>n. N \in Nat \ {0} /\ P \in Nat /\ N < P
  BY CurveNumbers
<1>1. CASE form \in KeyForms(PubKey(d))
  <2>1. d \in 0..(N - 1)
    BY DEF SignInvariant
  <2>2. PubKey(d) \in OnCurve
    BY <2>1, PubKeyMultiple, MultiplesPoints
  <2>3. \E b \in Bytes : form = Sent("key", b)
    BY <1>1, <2>2, KeyFormBytes
  <2> QED BY <2>3 DEF FormNames
<1>2. CASE form \in Forms /\ made.kind = "ecdsa"
  <2>1. made.r \in 1..(N - 1) /\ made.s \in 1..(N - 1) /\ made.code \in 0..3
    BY <1>2, MadeNumbers
  <2>2. \/ form = Sent("compact", SignCompact(made, TRUE))
        \/ \E r \in Writings(made.r), s \in Writings(made.s) \cup {Canonical(N - made.s)} :
              form = Sent("der", Sequence(r, s))
    <3> DEFINE S == {Sent("compact", SignCompact(made, TRUE))}
               R == Writings(made.r)
               T == Writings(made.s) \cup {Canonical(N - made.s)}
               U == {Sent("der", Sequence(r, s)) : r \in R, s \in T}
    <3>1. Forms = S \cup U
      BY <1>2 DEF Forms
    <3> HIDE DEF S, R, T, U
    <3>2. form \in S \/ form \in U
      BY <1>2, <3>1
    <3>3. form \in U => \E r \in R, s \in T : form = Sent("der", Sequence(r, s))
      BY SMT DEF U
    <3>4. form \in S => form = Sent("compact", SignCompact(made, TRUE))
      BY Zenon DEF S
    <3> QED BY <3>2, <3>3, <3>4, Zenon DEF R, T
  <2>3. CASE form = Sent("compact", SignCompact(made, TRUE))
    <3>1. made.r \in 0..(P - 1) /\ made.s \in 0..(P - 1)
      BY <1>n, <2>1
    <3>2. SignCompact(made, TRUE) \in Bytes
      BY <2>1, <3>1, CompactBytes
    <3> QED BY <2>3, <3>2 DEF FormNames
  <2>4. ASSUME NEW r \in Writings(made.r),
               NEW s \in Writings(made.s) \cup {Canonical(N - made.s)},
               form = Sent("der", Sequence(r, s))
        PROVE  \E f \in FormNames, b \in Bytes : form = Sent(f, b)
    <3>1. r \in Bytes /\ Len(r) <= Width + 3
      BY <2>1, WritingBytes
    <3>2. s \in Bytes /\ Len(s) <= Width + 3
      <4>1. CASE s \in Writings(made.s)
        BY <2>1, <4>1, WritingBytes
      <4>2. CASE s = Canonical(N - made.s)
        <5> DEFINE a == N - made.s
        <5>1. a \in 1..(N - 1)
          BY <1>n, <2>1
        <5> HIDE DEF a
        <5>2. Canonical(a) \in Bytes /\ Len(Canonical(a)) \in 1..(Width + 1) /\ Width \in Nat
          BY <5>1, CanonicalBytes, ByteNumbers
        <5>3. s = Canonical(a)
          BY <4>2 DEF a
        <5> QED BY <5>2, <5>3
      <4> QED BY <4>1, <4>2
    <3>3. Sequence(r, s) \in Bytes
      BY <3>1, <3>2, SequenceInBytes
    <3> QED BY <2>4, <3>3 DEF FormNames
  <2> QED BY <2>2, <2>3, <2>4
<1>3. CASE form \in Forms /\ made.kind = "schnorr"
  <2>1. made.r \in 0..(P - 1) /\ made.s \in 0..(P - 1)
    BY <1>n, <1>3, MadeNumbers
  <2>2. form = Sent("schnorr", Fixed(made))
    BY <1>3 DEF Forms
  <2>3. Fixed(made) \in Bytes
    BY <2>1, FixedBytes
  <2> QED BY <2>2, <2>3 DEF FormNames
<1>4. CASE form \in Forms /\ made.kind \in {"none", "failed"}
  <2>1. Forms = {}
    BY <1>4 DEF Forms
  <2> QED BY <1>4, <2>1
<1> QED BY <1>1, <1>2, <1>3, <1>4, MadeNumbers

\* What is on the wire, and that nothing is before there is a key.
WireInvariant ==
    /\ wire \in [form: FormNames, bytes: Bytes, altered: Nat]
    /\ d = 0 => wire = NotSent

LEMMA SentIsWire ==
    ASSUME NEW form \in FormNames, NEW b \in Bytes
    PROVE  Sent(form, b) \in [form: FormNames, bytes: Bytes, altered: Nat]
BY DEF Sent

\* A byte may become another, go, or come.
LEMMA ByteChanged ==
    ASSUME NEW b \in Bytes, NEW i \in 1..Len(b), NEW a \in Altered
    PROVE  [b EXCEPT ![i] = a] \in Bytes /\ RemoveAt(b, i) \in Bytes /\ InsertAt(b, i, a) \in Bytes
<1>1. a \in 0..(Byte - 1) /\ Len(b) \in Nat
  BY ByteNumbers DEF Bytes
<1>2. [b EXCEPT ![i] = a] \in Bytes
  <2> DEFINE S == 0..(Byte - 1)
  <2>1. b \in Seq(S) /\ a \in S
    BY <1>1 DEF Bytes
  <2> HIDE DEF S
  <2>2. [b EXCEPT ![i] = a] \in Seq(S)
    BY <2>1, ExceptSeq
  <2> QED BY <2>2 DEF S, Bytes
<1> DEFINE u == SubSeq(b, 1, i - 1)
           v == SubSeq(b, i + 1, Len(b))
           w == SubSeq(b, i, Len(b))
<1>3. u \in Bytes /\ v \in Bytes /\ w \in Bytes
  <2>1. /\ 1 \in 1..(Len(b) + 1) /\ i \in 1..(Len(b) + 1) /\ i + 1 \in 1..(Len(b) + 1)
        /\ i - 1 \in 0..Len(b) /\ Len(b) \in 0..Len(b)
    BY <1>1
  <2> QED BY <2>1, BytesCut
<1>4. RemoveAt(b, i) = u \o v /\ InsertAt(b, i, a) = (u \o <<a>>) \o w
  BY DEF RemoveAt, InsertAt
<1> HIDE DEF u, v, w
<1>5. u \o v \in Bytes
  BY <1>3, BytesJoined
<1>6. <<a>> \in Bytes
  BY <1>1, ByteAlone
<1>7. (u \o <<a>>) \o w \in Bytes
  BY <1>3, <1>6, BytesJoined
<1> QED BY <1>2, <1>4, <1>5, <1>7

LEMMA WireInit == SigInit => WireInvariant
<1> SUFFICES ASSUME SigInit PROVE WireInvariant
  OBVIOUS
<1>1. wire = NotSent
  BY DEF SigInit
<1>2. <<>> \in Bytes
  BY DEF Bytes
<1>3. NotSent = Sent("none", <<>>) /\ "none" \in FormNames
  BY DEF NotSent, Sent, FormNames
<1>4. NotSent \in [form: FormNames, bytes: Bytes, altered: Nat]
  BY <1>2, <1>3, SentIsWire
<1> QED BY <1>1, <1>4, Zenon DEF WireInvariant

LEMMA WireNext == SignInvariant /\ WireInvariant /\ [SigNext]_sigVars => WireInvariant'
<1> SUFFICES ASSUME SignInvariant, WireInvariant, [SigNext]_sigVars PROVE WireInvariant'
  OBVIOUS
<1>1. wire \in [form: FormNames, bytes: Bytes, altered: Nat] /\ (d = 0 => wire = NotSent)
  BY DEF WireInvariant
<1>2. CASE wire' = wire /\ (d' = 0 => d = 0)
  BY <1>1, <1>2 DEF WireInvariant
<1>3. CASE GenerateSecretKey
  <2>1. wire = NotSent /\ wire' = wire
    BY <1>1, <1>3 DEF GenerateSecretKey
  <2> QED BY <1>1, <2>1 DEF WireInvariant, NotSent
<1>4. CASE Send
  <2>1. d # 0 /\ d' = d /\ wire' \in Forms \cup KeyForms(PubKey(d))
    BY <1>4, Zenon DEF Send
  <2>2. PICK f \in FormNames, b \in Bytes : wire' = Sent(f, b)
    BY <2>1, FormBytes
  <2> QED BY <2>1, <2>2, SentIsWire DEF WireInvariant
<1>5. CASE Alter
  <2>1. PICK i \in 1..Len(wire.bytes), a \in Altered :
           wire' = [wire EXCEPT !.altered = @ + 1, !.bytes[i] = a]
    BY <1>5, Zenon DEF Alter
  <2>2. wire # NotSent /\ d' = d
    BY <1>5 DEF Alter
  <2> DEFINE c == [wire.bytes EXCEPT ![i] = a]
  <2>3. c \in Bytes
    BY <1>1, ByteChanged
  <2>4. wire' = [form |-> wire.form, bytes |-> c, altered |-> wire.altered + 1]
    BY <1>1, <2>1
  <2> HIDE DEF c
  <2>5. wire' \in [form: FormNames, bytes: Bytes, altered: Nat]
    BY <1>1, <2>3, <2>4
  <2> QED BY <1>1, <2>2, <2>5 DEF WireInvariant
<1>6. CASE AlterLength
  <2>1. PICK i \in 1..Len(wire.bytes), a \in Altered :
           wire' = [wire EXCEPT !.altered = @ + 1,
                       !.bytes = IF a = 0 THEN RemoveAt(@, i) ELSE InsertAt(@, i, a)]
    BY <1>6, Zenon DEF AlterLength
  <2>2. wire # NotSent /\ d' = d
    BY <1>6 DEF AlterLength
  <2> DEFINE c == IF a = 0 THEN RemoveAt(wire.bytes, i) ELSE InsertAt(wire.bytes, i, a)
  <2>3. c \in Bytes
    BY <1>1, ByteChanged
  <2>4. wire' = [form |-> wire.form, bytes |-> c, altered |-> wire.altered + 1]
    <3>1. wire' = [wire EXCEPT !.altered = @ + 1, !.bytes = c]
      BY <2>1, Zenon
    <3> HIDE DEF c
    <3> QED BY <1>1, <3>1
  <2> HIDE DEF c
  <2>5. wire' \in [form: FormNames, bytes: Bytes, altered: Nat]
    BY <1>1, <2>3, <2>4
  <2> QED BY <1>1, <2>2, <2>5 DEF WireInvariant
<1>7. CASE Hmac \/ signRFC6979 \/ SignSchnorr \/ SignAux \/ UNCHANGED sigVars
  <2>1. wire' = wire /\ d' = d
    BY <1>7, Zenon DEF Hmac, signRFC6979, SignSchnorr, SignAux, sigVars
  <2> QED BY <1>2, <2>1
<1> QED BY <1>3, <1>4, <1>5, <1>6, <1>7, Zenon DEF SigNext

-----------------------------------------------------------------------------
LEMMA WireIsRead == SignInvariant /\ WireInvariant => ReadExactly
<1> SUFFICES ASSUME SignInvariant, WireInvariant PROVE ReadExactly
  OBVIOUS
<1> DEFINE b == wire.bytes
           der == ParseDERSignature(b)
           rec == RecoverCompact(b, hash % N)
           key == ParsePubKey(b)
           sch == ParseSignature(b)
<1>1. /\ hash \in Hashes /\ d \in 0..(N - 1) /\ N \in Nat \ {0}
      /\ hash % N \in Int /\ hash \in Int
  <2>1. hash \in Hashes /\ d \in 0..(N - 1) /\ N \in Nat \ {0}
    BY CurveNumbers DEF SignInvariant
  <2>2. hash \in 0..(Power(Width) - 1)
    BY <2>1, WireAssumption, Zenon DEF Power
  <2>3. hash \in Int
    BY <2>2
  <2> QED BY <2>1, <2>3, HashReduced
<1>2. b \in Seq(0..(Byte - 1)) /\ (wire.form = "schnorr" => d # 0)
  <2>1. b \in Bytes /\ (d = 0 => wire.form = "none")
    BY DEF WireInvariant, NotSent
  <2> QED BY <2>1 DEF Bytes
<1>3. Q = Multiples[d]
  BY <1>1, PubKeyMultiple DEF Q
<1> HIDE DEF b
<1>4. ASSUME der.ok
      PROVE  LET w == InvN(der.s)
                 X == Exact(hash * w, der.r * w)
             IN  /\ DER(der.r, der.s) = b
                 /\ Verify(der, hash % N, Q) = (X # Infinity /\ X[1] % N = der.r)
  <2>1. der.r \in 1..(N - 1) /\ der.s \in 1..(N - 1) /\ DER(der.r, der.s) = b
    BY <1>2, <1>4, DERWrittenBack
  <2> HIDE DEF der
  <2> DEFINE X == Exact(hash * InvN(der.s), der.r * InvN(der.s))
             holds == Verify(der, hash % N, Q)
             right == X # Infinity /\ X[1] % N = der.r
  <2>2. X = SumOf(hash * InvN(der.s), der.r * InvN(der.s), Multiples[d])
    BY <1>3, Zenon DEF Exact, SumOf
  <2>3. holds <=> right
    <3> HIDE DEF X
    <3> QED BY <1>1, <1>3, <2>1, <2>2, EcdsaExact
  <2>4. holds \in BOOLEAN /\ right \in BOOLEAN
    BY Zenon DEF Verify
  <2> HIDE DEF holds, right
  <2>5. holds = right
    BY <2>3, <2>4
  <2> QED BY <2>1, <2>5, Zenon DEF holds, right
<1>5. ASSUME rec.ok
      PROVE  Fixed(rec) = Tail(b) /\ rec.pt \in OnCurve /\ Verify(rec, hash % N, rec.pt)
  <2> DEFINE h == hash % N
  <2>1. h \in Int /\ rec = RecoverCompact(b, h)
    BY <1>1
  <2> HIDE DEF h, rec
  <2>2. Fixed(rec) = Tail(b) /\ rec.pt \in OnCurve /\ Verify(rec, h, rec.pt)
    BY <1>2, <1>5, <2>1, CompactWrittenBack
  <2> QED BY <2>2 DEF h
<1>6. ASSUME key.ok
      PROVE  key.pt \in OnCurve /\ FormOfKey(b, key.pt)
  BY <1>2, <1>6, KeyWrittenBack
<1>7. ASSUME wire.form = "schnorr", sch.ok
      PROVE  LET even == IF IsOdd(Q[2]) THEN N - 1 ELSE 1
                 R == Exact(sch.s, even * (N - (ChallengeHash(sch.r, Q[1], hash) % N)))
             IN  /\ (Fixed(sch) = b) = (Second(b) < N)
                 /\ schnorrVerify(sch, hash, Q[1]) =
                        (R # Infinity /\ R[1] = sch.r /\ ~IsOdd(R[2]))
  <2>1. /\ sch.r \in 0..(P - 1) /\ sch.s \in 0..(N - 1)
        /\ (Fixed(sch) = b) = (Second(b) < N)
    <3> DEFINE u == First(b)
               v == Second(b)
    <3>1. Len(b) = 2 * Width /\ u < P /\ sch = [ok |-> TRUE, r |-> u, s |-> v % N]
      <4>1. ParseSignature(b) = IF Len(b) = 2 * Width /\ u < P
                                THEN [ok |-> TRUE, r |-> u, s |-> v % N] ELSE None
        BY Zenon DEF ParseSignature
      <4>2. ~None.ok
        BY DEF None
      <4> QED BY <1>7, <4>1, <4>2, Zenon
    <3>2. u \in 0..(Power(Width) - 1) /\ v \in 0..(Power(Width) - 1)
      BY <1>2, <3>1, FixedWrittenBack
    <3> HIDE DEF u, v
    <3>3. v \in Int /\ u \in 0..(P - 1)
      BY <3>1, <3>2, CurveNumbers
    <3>4. v % N \in 0..(N - 1)
      BY <1>1, <3>3, DivMod
    <3>5. sch.r = u /\ sch.s = v % N
      BY <3>1
    <3>6. Fixed(sch) = PutBytes(u) \o PutBytes(v % N)
      BY <3>5, Zenon DEF Fixed
    <3>7. PutBytes(u) \o PutBytes(v) = b
      BY <1>2, <3>1, FixedWrittenBack, Zenon DEF u, v
    <3>8. ASSUME v < N PROVE Fixed(sch) = b
      <4>1. v % N = v
        BY <1>1, <3>2, <3>8, ModSmall
      <4> QED BY <3>6, <3>7, <4>1
    <3>9. ASSUME Fixed(sch) = b PROVE v < N
      <4>1. v % N \in 0..(Power(Width) - 1)
        <5> DEFINE m == v % N
        <5>1. m \in 0..(N - 1)
          BY <3>4
        <5>2. N <= Power(Width) /\ Power(Width) \in Nat
          BY Powers, CurveNumbers
        <5> HIDE DEF m
        <5>3. m \in 0..(Power(Width) - 1)
          BY <1>1, <5>1, <5>2
        <5> QED BY <5>3 DEF m
      <4>2. Second(Fixed(sch)) = v % N
        <5> HIDE DEF sch
        <5> QED BY <3>2, <3>5, <4>1, FixedReadBack
      <4>3. v = v % N
        BY <3>9, <4>2, Zenon DEF v
      <4> QED BY <1>1, <3>4, <4>3
    <3>10. (Fixed(sch) = b) = (v < N)
      BY <3>8, <3>9
    <3>11. (Fixed(sch) = b) = (Second(b) < N)
      BY <3>10 DEF v
    <3> QED BY <3>1, <3>3, <3>4, <3>5, <3>11
  <2> HIDE DEF sch
  <2>2. d \in 1..(N - 1) /\ Q \in OnCurve /\ Q[1] \in 0..(P - 1)
    <3>1. d \in 1..(N - 1)
      BY <1>1, <1>2, <1>7
    <3> QED BY <1>1, <1>3, <3>1, MultiplesPoints, CurvePoint
  <2>3. ChallengeHash(sch.r, Q[1], hash) \in Nat
    BY <1>1, <2>1, <2>2, HashAssumption
  <2> DEFINE e == ChallengeHash(sch.r, Q[1], hash) % N
             R == Exact(sch.s, EvenFactor(Q) * (N - e))
             holds == schnorrVerify(sch, hash, Q[1])
             right == R # Infinity /\ R[1] = sch.r /\ ~IsOdd(R[2])
  <2>4. R = SumOf(sch.s, EvenFactor(Multiples[d]) * (N - e), Multiples[d])
    BY <1>3, Zenon DEF Exact, SumOf
  <2>5. holds <=> right
    <3>1. e = ChallengeHash(sch.r, Multiples[d][1], hash) % N
      BY <1>3, Zenon
    <3> HIDE DEF R
    <3> QED BY <1>3, <2>1, <2>2, <2>3, <2>4, <3>1, SchnorrExact, Zenon
  <2>6. holds \in BOOLEAN /\ right \in BOOLEAN
    BY Zenon DEF schnorrVerify
  <2> HIDE DEF holds, right
  <2>7. holds = right
    BY <2>5, <2>6
  <2> QED BY <2>1, <2>7, Zenon DEF holds, right, EvenFactor
<1> QED BY <1>4, <1>5, <1>6, <1>7, Zenon DEF ReadExactly, FormOfKey, b

\* However bytes were altered, what is read as a signature or a key is written as
\* the same bytes again, except that s may be written low, a hybrid key without its
\* oddness, and the s of a Schnorr signature without the order if it is not below
\* it; is accepted if and only if the chord and tangent rule says so; and a key is
\* only recovered from a signature that holds for it (ecdsa/signature.go 163-535 and
\* 786-994, pubkey.go 109-189, schnorr/signature.go 69-95 and 113-224).
THEOREM ReadsExactly == SigSpec => []ReadExactly
<1> DEFINE Inv0 == SignInvariant /\ WireInvariant
<1>1. SigInit => Inv0
  BY SignInvariantInit, WireInit
<1>2. Inv0 /\ [SigNext]_sigVars => Inv0'
  BY SignInvariantNext, WireNext
<1>3. Inv0 => ReadExactly
  BY WireIsRead
<1> QED BY <1>1, <1>2, <1>3, PTL DEF SigSpec

-----------------------------------------------------------------------------
(* Recursive functions.                                                    *)

Recursion(n, A, base, step, f) ==
    /\ f \in [0..n -> A] /\ f[0] = base
    /\ \A k \in 1..n : f[k] = step[k][f[k - 1]]

\* A function is defined by its first value and by what each makes of the last.
LEMMA RecursionExists ==
    ASSUME NEW n \in Nat, NEW A, NEW base \in A, NEW step \in [1..n -> [A -> A]]
    PROVE  \E f : Recursion(n, A, base, step, f)
<1> DEFINE S == {m \in 0..n : \E f : Recursion(m, A, base, step, f)}
<1>1. 0 \in S
  <2> DEFINE f == [i \in 0..0 |-> base]
  <2>1. Recursion(0, A, base, step, f)
    BY DEF Recursion
  <2> HIDE DEF f
  <2>2. \E g : Recursion(0, A, base, step, g)
    BY <2>1, Zenon
  <2>3. 0 \in 0..n
    OBVIOUS
  <2> QED BY <2>2, <2>3
<1>2. ASSUME NEW m \in 0..(n - 1), m \in S PROVE m + 1 \in S
  <2>1. PICK f : Recursion(m, A, base, step, f)
    BY <1>2
  <2>2. f \in [0..m -> A] /\ f[0] = base /\ \A k \in 1..m : f[k] = step[k][f[k - 1]]
    BY <2>1 DEF Recursion
  <2> DEFINE last == step[m + 1][f[m]]
             g == [i \in 0..(m + 1) |-> IF i = m + 1 THEN last ELSE f[i]]
  <2>3. last \in A /\ last = step[m + 1][f[m]]
    <3>1. m + 1 \in 1..n /\ m \in 0..m
      OBVIOUS
    <3>2. step[m + 1] \in [A -> A] /\ f[m] \in A
      BY <2>2, <3>1
    <3> QED BY <3>2
  <2> HIDE DEF last
  <2>4. g \in [0..(m + 1) -> A] /\ g[0] = base
    BY <2>2, <2>3
  <2>5. ASSUME NEW i \in 1..(m + 1) PROVE g[i] = step[i][g[i - 1]]
    <3>1. CASE i = m + 1
      <4>1. g[i] = last /\ g[i - 1] = f[m]
        BY <3>1
      <4> HIDE DEF g
      <4> QED BY <2>3, <3>1, <4>1, Zenon
    <3>2. CASE i # m + 1
      <4>1. g[i] = f[i] /\ g[i - 1] = f[i - 1] /\ i \in 1..m
        BY <3>2
      <4> HIDE DEF g
      <4> QED BY <2>2, <4>1
    <3> QED BY <3>1, <3>2
  <2> HIDE DEF g
  <2>6. \E h : Recursion(m + 1, A, base, step, h)
    BY <2>4, <2>5, Zenon DEF Recursion
  <2>7. m + 1 \in 0..n
    OBVIOUS
  <2> QED BY <2>6, <2>7
<1>3. n \in S
  <2>1. S \subseteq 0..n /\ n \in 0..n
    OBVIOUS
  <2> HIDE DEF S
  <2>2. \A m \in 0..n : m \in S
    BY <1>1, <1>2, <2>1, UpTo
  <2> QED BY <2>1, <2>2
<1> QED BY <1>3

-----------------------------------------------------------------------------
(* Sums.                                                                   *)

LEMMA PlusInGroup ==
    ASSUME NEW a \in Group, NEW b \in Group
    PROVE  Plus(a, b) \in Group
<1>1. Log[a] \in 0..(N - 1) /\ Multiples[Log[a]] = a /\ Log[b] \in 0..(N - 1) /\ Multiples[Log[b]] = b
  BY PointIsMultiple
<1>2. Plus(a, b) = Multiples[(Log[a] + Log[b]) % N]
  BY <1>1, GroupAssumption
<1>3. (Log[a] + Log[b]) % N \in 0..(N - 1)
  <2> DEFINE t == Log[a] + Log[b]
  <2>1. t \in Int /\ N \in Nat \ {0}
    BY <1>1, CurveNumbers
  <2> HIDE DEF t
  <2>2. t % N \in 0..(N - 1)
    BY <2>1, DivMod
  <2> QED BY <2>2 DEF t
<1> QED BY <1>2, <1>3, MultiplesPoints

\* Each sum is the one before it and an element.
LEMMA PointSumsAre ==
    ASSUME NEW n \in Nat, NEW pts \in [1..n -> Group]
    PROVE  /\ PointSums(pts)[0] = Infinity
           /\ \A k \in 1..n : PointSums(pts)[k] = Plus(PointSums(pts)[k - 1], pts[k])
<1> DEFINE Rec(v) == v = [k \in 0..Len(pts) |-> IF k = 0 THEN Infinity ELSE Plus(v[k - 1], pts[k])]
           v == CHOOSE v : Rec(v)
           step == [k \in 1..n |-> [a \in Group |-> Plus(a, pts[k])]]
<1>1. Len(pts) = n
  OBVIOUS
<1>2. PointSums(pts) = v
  BY Zenon DEF PointSums
<1>3. step \in [1..n -> [Group -> Group]]
  BY PlusInGroup
<1>4. Infinity \in Group
  BY DEF Group
<1>s. \A k \in 1..n : \A a \in Group : step[k][a] = Plus(a, pts[k])
  OBVIOUS
<1> HIDE DEF step
<1>5. PICK f : Recursion(n, Group, Infinity, step, f)
  BY <1>3, <1>4, RecursionExists
<1>6. /\ f \in [0..n -> Group] /\ f[0] = Infinity
      /\ \A k \in 1..n : f[k] = Plus(f[k - 1], pts[k])
  <2>1. /\ f \in [0..n -> Group] /\ f[0] = Infinity
        /\ \A k \in 1..n : f[k] = step[k][f[k - 1]]
    BY <1>5 DEF Recursion
  <2>2. \A k \in 1..n : f[k - 1] \in Group
    BY <2>1
  <2> QED BY <1>s, <2>1, <2>2
<1>7. Rec(f)
  <2> DEFINE g == [k \in 0..n |-> IF k = 0 THEN Infinity ELSE Plus(f[k - 1], pts[k])]
  <2>1. ASSUME NEW k \in 0..n PROVE f[k] = g[k]
    <3>1. CASE k = 0
      BY <1>6, <3>1
    <3>2. CASE k # 0
      <4>1. k \in 1..n
        BY <3>2
      <4> QED BY <1>6, <3>2, <4>1
    <3> QED BY <3>1, <3>2
  <2>2. DOMAIN f = 0..n /\ DOMAIN g = 0..n /\ f = [k \in 0..n |-> f[k]]
    BY <1>6
  <2>3. f = g
    <3>1. g = [k \in 0..n |-> g[k]]
      BY Zenon
    <3> HIDE DEF g
    <3> QED BY <2>1, <2>2, <3>1
  <2> QED BY <1>1, <2>3
<1>8. Rec(v)
  BY <1>7, Zenon
<1>9. ASSUME NEW k \in 0..n
      PROVE v[k] = IF k = 0 THEN Infinity ELSE Plus(v[k - 1], pts[k])
  <2> HIDE DEF v
  <2> QED BY <1>1, <1>8, Zenon
<1> HIDE DEF v
<1>10. 0 \in 0..n /\ \A k \in 1..n : k \in 0..n /\ k # 0
  OBVIOUS
<1> QED BY <1>2, <1>9, <1>10

LEMMA TotalsAre ==
    ASSUME NEW n \in Nat, NEW ns \in [1..n -> Int]
    PROVE  /\ Totals(ns)[0] = 0
           /\ \A k \in 1..n : Totals(ns)[k] = Totals(ns)[k - 1] + ns[k]
           /\ \A k \in 0..n : Totals(ns)[k] \in Int
<1> DEFINE Rec(v) == v = [k \in 0..Len(ns) |-> IF k = 0 THEN 0 ELSE v[k - 1] + ns[k]]
           v == CHOOSE v : Rec(v)
           step == [k \in 1..n |-> [a \in Int |-> a + ns[k]]]
<1>1. Len(ns) = n
  OBVIOUS
<1>2. Totals(ns) = v
  BY Zenon DEF Totals
<1>3. step \in [1..n -> [Int -> Int]]
  OBVIOUS
<1>s. \A k \in 1..n : \A a \in Int : step[k][a] = a + ns[k]
  OBVIOUS
<1> HIDE DEF step
<1>5. PICK f : Recursion(n, Int, 0, step, f)
  <2>1. 0 \in Int
    OBVIOUS
  <2> QED BY <1>3, <2>1, RecursionExists, Zenon
<1>6. /\ f \in [0..n -> Int] /\ f[0] = 0
      /\ \A k \in 1..n : f[k] = f[k - 1] + ns[k]
  <2>1. /\ f \in [0..n -> Int] /\ f[0] = 0
        /\ \A k \in 1..n : f[k] = step[k][f[k - 1]]
    BY <1>5 DEF Recursion
  <2>2. \A k \in 1..n : f[k - 1] \in Int
    BY <2>1
  <2> QED BY <1>s, <2>1, <2>2
<1>7. Rec(f)
  <2> DEFINE g == [k \in 0..n |-> IF k = 0 THEN 0 ELSE f[k - 1] + ns[k]]
  <2>1. ASSUME NEW k \in 0..n PROVE f[k] = g[k]
    <3>1. CASE k = 0
      BY <1>6, <3>1
    <3>2. CASE k # 0
      <4>1. k \in 1..n
        BY <3>2
      <4> QED BY <1>6, <3>2, <4>1
    <3> QED BY <3>1, <3>2
  <2>2. DOMAIN f = 0..n /\ DOMAIN g = 0..n /\ f = [k \in 0..n |-> f[k]]
    BY <1>6
  <2>3. f = g
    <3>1. g = [k \in 0..n |-> g[k]]
      BY Zenon
    <3> HIDE DEF g
    <3> QED BY <2>1, <2>2, <3>1
  <2> QED BY <1>1, <2>3
<1>8. Rec(v)
  BY <1>7, Zenon
<1>9. ASSUME NEW k \in 0..n PROVE v[k] = IF k = 0 THEN 0 ELSE v[k - 1] + ns[k]
  <2> HIDE DEF v
  <2> QED BY <1>1, <1>8, Zenon
<1> HIDE DEF v
<1>10. 0 \in 0..n /\ \A k \in 1..n : k \in 0..n /\ k # 0
  OBVIOUS
<1>11. v[0] = 0 /\ \A k \in 1..n : v[k] = v[k - 1] + ns[k]
  BY <1>9, <1>10
<1>12. ASSUME NEW k \in 0..n PROVE v[k] \in Int
  <2> DEFINE S == {m \in 0..n : v[m] \in Int}
  <2>1. S \subseteq 0..n /\ 0 \in S
    BY <1>11
  <2>2. ASSUME NEW m \in 0..(n - 1), m \in S PROVE m + 1 \in S
    <3>1. m + 1 \in 1..n /\ (m + 1) - 1 = m /\ v[m] \in Int /\ ns[m + 1] \in Int /\ m + 1 \in 0..n
      BY <2>2
    <3>2. v[m + 1] = v[m] + ns[m + 1]
      BY <1>11, <3>1
    <3> QED BY <3>1, <3>2
  <2> HIDE DEF S
  <2>3. \A m \in 0..n : m \in S
    BY <2>1, <2>2, UpTo
  <2> QED BY <2>3 DEF S
<1> QED BY <1>2, <1>11, <1>12

\* The sum of multiples of the generator is the multiple by the sum.
LEMMA SumOfMultiples ==
    ASSUME NEW n \in Nat, NEW ks \in [1..n -> Int], NEW pts,
           pts = [i \in 1..n |-> Multiples[ks[i] % N]]
    PROVE  PointSums(pts)[n] = Multiples[Totals(ks)[n] % N]
<1>1. pts \in [1..n -> Group]
  <2>1. ASSUME NEW i \in 1..n PROVE Multiples[ks[i] % N] \in Group
    <3>1. ks[i] % N \in 0..(N - 1)
      BY CurveNumbers, DivMod
    <3> QED BY <3>1, MultiplesPoints
  <2> QED BY <2>1
<1>2. /\ PointSums(pts)[0] = Infinity
      /\ \A k \in 1..n : PointSums(pts)[k] = Plus(PointSums(pts)[k - 1], pts[k])
  BY <1>1, PointSumsAre
<1>3. /\ Totals(ks)[0] = 0
      /\ \A k \in 1..n : Totals(ks)[k] = Totals(ks)[k - 1] + ks[k]
      /\ \A k \in 0..n : Totals(ks)[k] \in Int
  BY TotalsAre
<1> DEFINE S == {m \in 0..n : PointSums(pts)[m] = Multiples[Totals(ks)[m] % N]}
<1>4. 0 \in S
  <2>1. 0 % N = 0 /\ 0 \in 0..n
    BY CurveNumbers, ModSmall
  <2>2. Multiples[0] = Infinity
    BY GroupAssumption
  <2> QED BY <1>2, <1>3, <2>1, <2>2
<1>5. ASSUME NEW m \in 0..(n - 1), m \in S PROVE m + 1 \in S
  <2>1. m + 1 \in 1..n /\ (m + 1) - 1 = m /\ m \in 0..n /\ m + 1 \in 0..n
    OBVIOUS
  <2> DEFINE t == Totals(ks)[m]
             k == ks[m + 1]
  <2>2. t \in Int /\ k \in Int /\ Totals(ks)[m + 1] = t + k
    BY <1>3, <2>1
  <2>3. PointSums(pts)[m + 1] = Plus(PointSums(pts)[m], pts[m + 1])
    BY <1>2, <2>1
  <2>4. PointSums(pts)[m] = Multiples[t % N] /\ pts[m + 1] = Multiples[k % N]
    BY <1>5, <2>1
  <2>5. Plus(Multiples[t % N], Multiples[k % N]) = Multiples[(t + k) % N]
    BY <2>2, PlusMultiples
  <2> QED BY <2>1, <2>2, <2>3, <2>4, <2>5
<1>6. n \in S
  <2>1. S \subseteq 0..n /\ n \in 0..n
    OBVIOUS
  <2> HIDE DEF S
  <2>2. \A m \in 0..n : m \in S
    BY <1>4, <1>5, <2>1, UpTo
  <2> QED BY <2>1, <2>2
<1> QED BY <1>6

\* What is a combination term by term is one in sum, up to multiples of N.
LEMMA SumOfCombinations ==
    ASSUME NEW n \in Nat, NEW h \in [1..n -> Int], NEW f \in [1..n -> Int],
           NEW g \in [1..n -> Int], NEW u \in Int, NEW v \in Int,
           \A i \in 1..n : Cong(N, h[i], u * f[i] + v * g[i])
    PROVE  Cong(N, Totals(h)[n], u * Totals(f)[n] + v * Totals(g)[n])
<1> DEFINE H == Totals(h)
           F == Totals(f)
           K == Totals(g)
           S == {m \in 0..n : Cong(N, H[m], u * F[m] + v * K[m])}
<1>1. /\ H[0] = 0 /\ \A k \in 1..n : H[k] = H[k - 1] + h[k]
      /\ \A k \in 0..n : H[k] \in Int
      /\ F[0] = 0 /\ \A k \in 1..n : F[k] = F[k - 1] + f[k]
      /\ \A k \in 0..n : F[k] \in Int
      /\ K[0] = 0 /\ \A k \in 1..n : K[k] = K[k - 1] + g[k]
      /\ \A k \in 0..n : K[k] \in Int
  BY TotalsAre
<1> HIDE DEF H, F, K
<1>2. 0 \in S
  <2>1. u * 0 + v * 0 = 0 /\ 0 \in 0..n
    OBVIOUS
  <2>2. Cong(N, 0, 0)
    BY CurveNumbers, CongRefl
  <2> QED BY <1>1, <2>1, <2>2
<1>3. ASSUME NEW m \in 0..(n - 1), m \in S PROVE m + 1 \in S
  <2>1. m + 1 \in 1..n /\ (m + 1) - 1 = m /\ m \in 0..n /\ m + 1 \in 0..n
    OBVIOUS
  <2> DEFINE a == F[m]
             b == f[m + 1]
             c == K[m]
             e == g[m + 1]
             x == H[m]
             y == h[m + 1]
  <2>2. /\ a \in Int /\ b \in Int /\ c \in Int /\ e \in Int /\ x \in Int /\ y \in Int
        /\ F[m + 1] = a + b /\ K[m + 1] = c + e /\ H[m + 1] = x + y
    BY <1>1, <2>1
  <2>3. Cong(N, x, u * a + v * c) /\ Cong(N, y, u * b + v * e)
    BY <1>3, <2>1
  <2> HIDE DEF a, b, c, e, x, y
  <2>4. /\ u * a \in Int /\ u * b \in Int /\ v * c \in Int /\ v * e \in Int
        /\ u * (a + b) = u * a + u * b /\ v * (c + e) = v * c + v * e
    BY <2>2, Ring
  <2> DEFINE p == u * a + v * c
             q == u * b + v * e
  <2>5. p \in Int /\ q \in Int /\ Cong(N, x, p) /\ Cong(N, y, q) /\ N \in Nat \ {0}
    BY <2>3, <2>4, CurveNumbers
  <2>6. p + q = u * (a + b) + v * (c + e)
    BY <2>4
  <2> HIDE DEF p, q
  <2>7. Cong(N, x + y, p + q)
    BY <2>2, <2>5, CongPlus
  <2> QED BY <2>1, <2>2, <2>6, <2>7
<1>4. n \in S
  <2>1. S \subseteq 0..n /\ n \in 0..n
    OBVIOUS
  <2> HIDE DEF S
  <2>2. \A m \in 0..n : m \in S
    BY <1>2, <1>3, <2>1, UpTo
  <2> QED BY <2>1, <2>2
<1> QED BY <1>4 DEF H, F, K

\* What is 0 outside of T.
Only(f, T) == [i \in DOMAIN f |-> IF i \in T THEN f[i] ELSE 0]

\* One more element adds its value.
LEMMA OneMore ==
    ASSUME NEW n \in Nat, NEW f \in [1..n -> Int], NEW T \in SUBSET (1..n),
           NEW j \in (1..n) \ T
    PROVE  Totals(Only(f, T \cup {j}))[n] = Totals(Only(f, T))[n] + f[j]
<1> DEFINE a == Only(f, T)
           b == Only(f, T \cup {j})
           A == Totals(a)
           B == Totals(b)
           S == {m \in 0..n : B[m] = A[m] + (IF j <= m THEN f[j] ELSE 0)}
<1>1. a \in [1..n -> Int] /\ b \in [1..n -> Int] /\ a[j] = 0 /\ b[j] = f[j]
      /\ \A i \in 1..n : i # j => a[i] = b[i]
  BY DEF Only
<1> HIDE DEF a, b
<1>2. /\ A[0] = 0 /\ \A k \in 1..n : A[k] = A[k - 1] + a[k]
      /\ \A k \in 0..n : A[k] \in Int
      /\ B[0] = 0 /\ \A k \in 1..n : B[k] = B[k - 1] + b[k]
      /\ \A k \in 0..n : B[k] \in Int
  BY <1>1, TotalsAre
<1> HIDE DEF A, B
<1>3. 0 \in S
  BY <1>2
<1>4. ASSUME NEW m \in 0..(n - 1), m \in S PROVE m + 1 \in S
  <2>1. m + 1 \in 1..n /\ (m + 1) - 1 = m /\ m \in 0..n /\ m + 1 \in 0..n
    OBVIOUS
  <2>2. /\ A[m + 1] = A[m] + a[m + 1] /\ B[m + 1] = B[m] + b[m + 1]
        /\ A[m] \in Int /\ B[m] \in Int /\ a[m + 1] \in Int /\ b[m + 1] \in Int /\ f[j] \in Int
    BY <1>1, <1>2, <2>1
  <2>3. CASE j = m + 1
    BY <1>1, <1>4, <2>1, <2>2, <2>3
  <2>4. CASE j <= m
    <3>1. a[m + 1] = b[m + 1] /\ B[m] = A[m] + f[j] /\ j <= m + 1
      BY <1>1, <1>4, <2>1, <2>4
    <3> QED BY <2>1, <2>2, <3>1
  <2>5. CASE j > m + 1
    <3>1. ~(j <= m) /\ ~(j <= m + 1) /\ m + 1 # j
      BY <2>1, <2>5
    <3>2. a[m + 1] = b[m + 1]
      BY <1>1, <2>1, <3>1
    <3>3. B[m] = A[m]
      <4>1. B[m] = A[m] + (IF j <= m THEN f[j] ELSE 0)
        BY <1>4
      <4> QED BY <2>2, <3>1, <4>1
    <3> QED BY <2>1, <2>2, <3>1, <3>2, <3>3
  <2> QED BY <2>3, <2>4, <2>5
<1>5. n \in S
  <2>1. S \subseteq 0..n /\ n \in 0..n
    OBVIOUS
  <2> HIDE DEF S
  <2>2. \A m \in 0..n : m \in S
    BY <1>3, <1>4, <2>1, UpTo
  <2> QED BY <2>1, <2>2
<1> QED BY <1>5 DEF A, B, a, b

\* A sum does not depend on the order.
LEMMA SumInAnyOrder ==
    ASSUME NEW n \in Nat, NEW f \in [1..n -> Int], NEW p \in Bijection(1..n, 1..n)
    PROVE  Totals([i \in 1..n |-> f[p[i]]])[n] = Totals(f)[n]
<1> DEFINE g == [i \in 1..n |-> f[p[i]]]
           T(m) == {p[i] : i \in 1..m}
           S == {m \in 0..n : Totals(g)[m] = Totals(Only(f, T(m)))[n]}
<1>1. /\ p \in [1..n -> 1..n]
      /\ \A i, j \in 1..n : p[i] = p[j] => i = j
      /\ \A j \in 1..n : \E i \in 1..n : p[i] = j
  BY DEF Bijection, Injection, Surjection, IsInjective
<1>2. g \in [1..n -> Int] /\ \A i \in 1..n : g[i] = f[p[i]]
  BY <1>1
<1>3. /\ Totals(g)[0] = 0 /\ \A k \in 1..n : Totals(g)[k] = Totals(g)[k - 1] + g[k]
  BY <1>2, TotalsAre
<1> HIDE DEF g
<1>4. 0 \in S
  <2> DEFINE z == Only(f, {})
             Z == Totals(z)
             R == {m \in 0..n : Z[m] = 0}
  <2>1. z \in [1..n -> Int] /\ \A i \in 1..n : z[i] = 0
    BY DEF Only
  <2> HIDE DEF z
  <2>2. Z[0] = 0 /\ \A k \in 1..n : Z[k] = Z[k - 1] + z[k]
    BY <2>1, TotalsAre
  <2> HIDE DEF Z
  <2>3. 0 \in R
    BY <2>2
  <2>4. ASSUME NEW m \in 0..(n - 1), m \in R PROVE m + 1 \in R
    <3>1. m + 1 \in 1..n /\ (m + 1) - 1 = m /\ m + 1 \in 0..n
      OBVIOUS
    <3> QED BY <2>1, <2>2, <2>4, <3>1
  <2>5. n \in R
    <3>1. R \subseteq 0..n /\ n \in 0..n
      OBVIOUS
    <3> HIDE DEF R
    <3>2. \A m \in 0..n : m \in R
      BY <2>3, <2>4, <3>1, UpTo
    <3> QED BY <3>1, <3>2
  <2>6. T(0) = {}
    OBVIOUS
  <2>7. Totals(Only(f, T(0)))[n] = 0
    <3> HIDE DEF R, T
    <3>1. Totals(Only(f, {}))[n] = 0
      BY <2>5 DEF R, Z, z
    <3> QED BY <2>6, <3>1
  <2>8. 0 \in 0..n
    OBVIOUS
  <2> HIDE DEF T
  <2> QED BY <1>3, <2>7, <2>8
<1>5. ASSUME NEW m \in 0..(n - 1), m \in S PROVE m + 1 \in S
  <2>1. m + 1 \in 1..n /\ (m + 1) - 1 = m /\ m + 1 \in 0..n /\ m \in 0..n
    OBVIOUS
  <2> DEFINE j == p[m + 1]
  <2>2. j \in (1..n) \ T(m) /\ T(m) \in SUBSET (1..n)
    BY <1>1, <2>1
  <2>3. T(m + 1) = T(m) \cup {j}
    <3>1. \A i : i \in 1..(m + 1) <=> (i \in 1..m \/ i = m + 1)
      BY <2>1
    <3>2. \A x : x \in T(m + 1) <=> (x \in T(m) \/ x = j)
      <4> HIDE DEF S
      <4> QED BY <3>1, Zenon
    <3> HIDE DEF T, j
    <3> QED BY <3>2
  <2> HIDE DEF j, T
  <2>4. Totals(Only(f, T(m) \cup {j}))[n] = Totals(Only(f, T(m)))[n] + f[j]
    BY <2>2, OneMore
  <2>5. Totals(g)[m + 1] = Totals(g)[m] + f[j]
    BY <1>2, <1>3, <2>1 DEF j
  <2> QED BY <1>5, <2>1, <2>3, <2>4, <2>5
<1>6. n \in S
  <2>1. S \subseteq 0..n /\ n \in 0..n
    OBVIOUS
  <2> HIDE DEF S
  <2>2. \A m \in 0..n : m \in S
    BY <1>4, <1>5, <2>1, UpTo
  <2> QED BY <2>1, <2>2
<1>7. Only(f, T(n)) = f
  <2>1. T(n) = 1..n
    BY <1>1
  <2> HIDE DEF T
  <2> QED BY <2>1 DEF Only
<1> QED BY <1>6, <1>7 DEF g

-----------------------------------------------------------------------------
(* The combined key.                                                       *)

SecretKeys(s) == 1..Len(s.keys)
Coefficient(s, keys, j) == aggregationCoefficient(keys, Times(s.keys[j], G))

\* The number that the combined key is the multiple of, before tweaks.
Weighted(s, keys) == Totals([j \in SecretKeys(s) |-> Coefficient(s, keys, j) * s.keys[j]])[Len(s.keys)]

LEMMA ScenarioTypes ==
    ASSUME NEW s \in Scenarios
    PROVE  /\ Len(s.keys) \in Nat \ {0} /\ SecretKeys(s) = 1..Len(s.keys)
           /\ \A j \in SecretKeys(s) : /\ s.keys[j] \in 1..(N - 1) /\ s.keys[j] \in 0..(N - 1)
                                       /\ s.keys[j] \in Int
                                       /\ Times(s.keys[j], G) = Multiples[s.keys[j]]
<1>1. s.keys \in Seq(1..(N - 1)) /\ Len(s.keys) > 0
  BY ScenariosAssumption
<1>2. Len(s.keys) \in Nat \ {0} /\ SecretKeys(s) = 1..Len(s.keys)
  BY <1>1 DEF SecretKeys
<1>3. ASSUME NEW j \in SecretKeys(s)
      PROVE  /\ s.keys[j] \in 1..(N - 1) /\ s.keys[j] \in 0..(N - 1) /\ s.keys[j] \in Int
             /\ Times(s.keys[j], G) = Multiples[s.keys[j]]
  <2> DEFINE S == 1..(N - 1)
             keys == s.keys
  <2>a. keys \in Seq(S) /\ j \in 1..Len(keys)
    BY <1>1, <1>2
  <2> HIDE DEF S, keys
  <2>b. keys[j] \in S
    BY <2>a
  <2>1. s.keys[j] \in 1..(N - 1)
    BY <2>b DEF S, keys
  <2>2. s.keys[j] \in 0..(N - 1) /\ s.keys[j] \in Int
    BY <2>1, CurveNumbers
  <2>3. s.keys[j] % N = s.keys[j]
    BY <2>2, CurveNumbers, ModSmall
  <2> QED BY <2>1, <2>2, <2>3, TimesGenerator
<1> QED BY <1>2, <1>3

\* The keys in an order are those of the parties, one by one.
LEMMA OrderOfKeys ==
    ASSUME NEW s \in Scenarios, NEW keys \in Orders(s)
    PROVE  /\ Len(keys) = Len(s.keys)
           /\ \E p \in Bijection(SecretKeys(s), SecretKeys(s)) :
                 keys = [n \in SecretKeys(s) |-> Times(s.keys[p[n]], G)]
<1>1. PICK p \in Bijection(SecretKeys(s), SecretKeys(s)) :
         keys = [n \in SecretKeys(s) |-> Times(s.keys[p[n]], G)]
  BY DEF Orders, SecretKeys
<1>2. Len(keys) = Len(s.keys)
  BY <1>1, ScenarioTypes
<1> QED BY <1>1, <1>2

LEMMA CoefficientType ==
    ASSUME NEW s \in Scenarios, NEW keys \in Orders(s), NEW j \in SecretKeys(s)
    PROVE  Coefficient(s, keys, j) \in Int
<1>1. PICK p \in Bijection(SecretKeys(s), SecretKeys(s)) :
         keys = [n \in SecretKeys(s) |-> Times(s.keys[p[n]], G)]
  BY OrderOfKeys
<1>2. PICK n \in SecretKeys(s) : p[n] = j
  BY <1>1 DEF Bijection, Surjection
<1>3. keys[n] = Times(s.keys[j], G) /\ n \in 1..Len(keys)
  <2>1. n \in 1..Len(keys)
    BY OrderOfKeys DEF SecretKeys
  <2> QED BY <1>1, <1>2, <2>1
<1>4. CoefHash(keys, Times(s.keys[j], G)) \in Nat
  BY <1>3, TaggedHashes
<1> DEFINE c == CoefHash(keys, Times(s.keys[j], G))
<1>5. c % N \in Int /\ 1 \in Int
  <2>1. c \in Int
    BY <1>4
  <2> HIDE DEF c
  <2> QED BY <2>1, CurveNumbers, DivMod
<1>6. Coefficient(s, keys, j) \in {1, c % N}
  BY Zenon DEF Coefficient, aggregationCoefficient
<1> HIDE DEF c
<1> QED BY <1>5, <1>6

\* The sum of the weighted keys is the multiple by the sum of their factors,
\* in whatever order the keys are listed.
LEMMA CombinedKey ==
    ASSUME NEW s \in Scenarios, NEW keys \in Orders(s)
    PROVE  Weighted(s, keys) \in Int /\ Combined(keys) = Multiples[Weighted(s, keys) % N]
<1> DEFINE n == Len(s.keys)
           f == [j \in 1..n |-> Coefficient(s, keys, j) * s.keys[j]]
<1>1. n \in Nat /\ SecretKeys(s) = 1..n /\ Len(keys) = n
  BY ScenarioTypes, OrderOfKeys
<1>2. PICK p \in Bijection(1..n, 1..n) : keys = [i \in 1..n |-> Times(s.keys[p[i]], G)]
  BY <1>1, OrderOfKeys
<1>3. p \in [1..n -> 1..n]
  BY <1>2 DEF Bijection, Injection
<1> DEFINE ks == [i \in 1..n |-> f[p[i]]]
           pts == [i \in 1..n |-> Times(aggregationCoefficient(keys, keys[i]), keys[i])]
<1>4. \A j \in 1..n : Coefficient(s, keys, j) \in Int /\ s.keys[j] \in 0..(N - 1)
                      /\ s.keys[j] \in Int /\ Times(s.keys[j], G) = Multiples[s.keys[j]]
  BY <1>1, CoefficientType, ScenarioTypes
<1>5. f \in [1..n -> Int] /\ \A j \in 1..n : f[j] = Coefficient(s, keys, j) * s.keys[j]
  <2>1. \A j \in 1..n : Coefficient(s, keys, j) * s.keys[j] \in Int
    BY <1>4, Ring
  <2> QED BY <2>1
<1>6. Weighted(s, keys) = Totals(f)[n]
  BY <1>1 DEF Weighted
<1>7. Combined(keys) = PointSums(pts)[n]
  BY <1>1 DEF Combined
<1>8. ks \in [1..n -> Int] /\ \A i \in 1..n : ks[i] = f[p[i]]
  <2> HIDE DEF f
  <2> QED BY <1>3, <1>5
<1>9. ASSUME NEW i \in 1..n
      PROVE  Times(aggregationCoefficient(keys, keys[i]), keys[i]) = Multiples[ks[i] % N]
  <2> DEFINE j == p[i]
             a == Coefficient(s, keys, j)
  <2>1. j \in 1..n
    BY <1>3
  <2>2. keys[i] = Times(s.keys[j], G)
    BY <1>2
  <2>3. aggregationCoefficient(keys, keys[i]) = a
    BY <2>2 DEF Coefficient
  <2> HIDE DEF j, a, f
  <2>4. a \in Int /\ s.keys[j] \in 0..(N - 1) /\ keys[i] = Multiples[s.keys[j]]
    BY <1>4, <2>1, <2>2 DEF a
  <2>5. Times(a, Multiples[s.keys[j]]) = Multiples[(a * s.keys[j]) % N]
    BY <2>4, TimesMultiple
  <2>6. ks[i] = a * s.keys[j]
    BY <1>5, <1>8, <2>1 DEF a, j
  <2> QED BY <2>3, <2>4, <2>5, <2>6
<1>10. pts = [i \in 1..n |-> Multiples[ks[i] % N]]
  <2> HIDE DEF ks
  <2> QED BY <1>9
<1> HIDE DEF pts, ks, f
<1>11. PointSums(pts)[n] = Multiples[Totals(ks)[n] % N]
  BY <1>1, <1>8, <1>10, SumOfMultiples
<1>12. Totals(ks)[n] = Totals(f)[n]
  BY <1>1, <1>2, <1>5, SumInAnyOrder DEF ks
<1>13. Totals(f)[n] \in Int
  <2>1. n \in 0..n
    BY <1>1
  <2> QED BY <1>1, <1>5, <2>1, TotalsAre
<1> QED BY <1>6, <1>7, <1>11, <1>12, <1>13

-----------------------------------------------------------------------------
(* Tweaks.                                                                 *)

Accumulated == [key : Group, parityAcc : Int, tweakAcc : Int, ok : BOOLEAN]
TweakSet == [t : Nat, xOnly : BOOLEAN]

\* The key is that of the number w, tweaked as the accumulators say.
KeyOf(w, acc) == acc.key = Multiples[(acc.parityAcc * w + acc.tweakAcc) % N]

LEMMA FactorType ==
    ASSUME NEW pt
    PROVE  Sign1(pt) \in {1, N - 1} /\ Sign1(pt) \in Int
BY CurveNumbers DEF Sign1

\* A tweak keeps what the accumulators say of the key.
LEMMA TweakOnce ==
    ASSUME NEW w \in Int, NEW acc \in Accumulated, NEW tweak \in TweakSet
    PROVE  /\ tweakKey(acc, tweak) \in Accumulated
           /\ KeyOf(w, acc) => KeyOf(w, tweakKey(acc, tweak))
           /\ tweakKey(acc, tweak).ok => tweakKey(acc, tweak).key # Infinity
<1> DEFINE g == IF tweak.xOnly THEN Sign1(acc.key) ELSE 1
           t == tweak.t
           p == acc.parityAcc
           v == acc.tweakAcc
           key == Plus(Times(t, G), Times(g, acc.key))
           pg == p * g
           vg == v * g + t
           ok == acc.ok /\ t < N /\ key # Infinity
           new == tweakKey(acc, tweak)
<1>1. /\ t \in Int /\ p \in Int /\ v \in Int /\ acc.key \in Group /\ N \in Nat \ {0}
      /\ acc.ok \in BOOLEAN
  BY CurveNumbers DEF Accumulated, TweakSet
<1>2. g \in Int
  BY FactorType
<1>3. new = [key |-> key, parityAcc |-> pg % N, tweakAcc |-> vg % N, ok |-> ok]
  BY Zenon DEF tweakKey
<1> HIDE DEF g
<1>4. pg \in Int /\ v * g \in Int /\ vg \in Int
  <2>1. pg \in Int /\ v * g \in Int
    BY <1>1, <1>2, Ring
  <2> QED BY <1>1, <2>1
<1> DEFINE x == pg % N
           y == vg % N
<1>5. x \in Int /\ y \in Int /\ Cong(N, x, pg) /\ Cong(N, y, vg)
  <2> HIDE DEF pg, vg
  <2> QED BY <1>1, <1>4, DivMod, CongMod
<1>6. key \in Group
  <2>1. Times(t, G) \in Group /\ Times(g, acc.key) \in Group
    <3>1. ASSUME NEW a \in Int PROVE a % N \in 0..(N - 1)
      BY <1>1, DivMod
    <3> DEFINE l == Log[acc.key]
    <3>2. l \in 0..(N - 1) /\ l \in Int
      BY <1>1, PointIsMultiple
    <3> HIDE DEF l
    <3>3. g * l \in Int
      BY <1>2, <3>2, Ring
    <3>4. Multiples[t % N] \in Group /\ Multiples[(g * l) % N] \in Group
      BY <1>1, <3>1, <3>3, MultiplesPoints
    <3>5. Times(t, G) = Multiples[t % N]
      BY <1>1, TimesGenerator
    <3>6. Times(g, acc.key) = Multiples[(g * l) % N]
      BY DEF Times, l
    <3> QED BY <3>4, <3>5, <3>6
  <2> QED BY <2>1, PlusInGroup
<1>7. ok \in BOOLEAN /\ (ok => key # Infinity)
  OBVIOUS
<1> HIDE DEF ok, new
<1>8. new.key = key /\ new.parityAcc = x /\ new.tweakAcc = y /\ new.ok = ok
  BY <1>3, Zenon
<1>9. new \in Accumulated
  <2> HIDE DEF key, x, y
  <2>1. new = [key |-> key, parityAcc |-> x, tweakAcc |-> y, ok |-> ok]
    BY <1>3, Zenon DEF x, y
  <2> QED BY <1>5, <1>6, <1>7, <2>1 DEF Accumulated
<1>10. ASSUME KeyOf(w, acc) PROVE key = Multiples[(x * w + y) % N]
  <2> DEFINE m == p * w + v
             l == m % N
  <2>1. p * w \in Int
    BY <1>1, Ring
  <2>2. m \in Int
    BY <1>1, <2>1
  <2>3. acc.key = Multiples[l]
    BY <1>10 DEF KeyOf
  <2>4. l \in 0..(N - 1) /\ l \in Int /\ Cong(N, l, m)
    <3> HIDE DEF m
    <3> QED BY <1>1, <2>2, DivMod, CongMod
  <2> HIDE DEF l
  <2>5. key = Multiples[(t + g * l) % N]
    <3>1. Plus(Times(t, G), Times(g, Multiples[l])) = Multiples[(t + g * l) % N]
      <4>1. t \in Int /\ g \in Int /\ l \in 0..(N - 1)
        BY <1>1, <1>2, <2>4
      <4> QED BY <4>1, MulAddMultiple, Zenon
    <3> QED BY <2>3, <3>1, Zenon
  <2>6. Cong(N, t + g * l, x * w + y) /\ t + g * l \in Int /\ x * w + y \in Int
    <3>1. g * l \in Int /\ g * m \in Int /\ Cong(N, g * l, g * m)
      <4> HIDE DEF m
      <4> QED BY <1>1, <1>2, <2>2, <2>4, CongScale, Ring
    <3> DEFINE pw == p * w
    <3>2. g * m = g * pw + g * v /\ g * pw \in Int /\ g * v \in Int
      <4>1. pw \in Int /\ m = pw + v
        BY <2>1
      <4> HIDE DEF pw, m
      <4>2. g * (pw + v) = g * pw + g * v /\ g * pw \in Int /\ g * v \in Int
        BY <1>1, <1>2, <4>1, Ring
      <4> QED BY <4>1, <4>2
    <3>3. x * w \in Int /\ pg * w \in Int /\ Cong(N, x * w, pg * w)
      <4> HIDE DEF pg
      <4> QED BY <1>1, <1>4, <1>5, CongScale, Ring
    <3>4. pg * w = g * pw /\ g * v = v * g
      <4>1. (p * g) * w = (p * w) * g /\ (p * w) * g = g * (p * w) /\ g * v = v * g
        BY <1>1, <1>2, <2>1, Ring
      <4> QED BY <4>1, Zenon DEF pg, pw
    <3> DEFINE A == g * l
               B == g * m
               C == x * w
               D0 == pg * w
               E0 == v * g
    <3>5. /\ A \in Int /\ C \in Int /\ D0 \in Int /\ E0 \in Int /\ B = D0 + E0
          /\ Cong(N, A, B) /\ Cong(N, C, D0) /\ vg = E0 + t
      BY <1>4, <3>1, <3>2, <3>3, <3>4
    <3> HIDE DEF A, B, C, D0, E0
    <3>6. B \in Int /\ t + A \in Int /\ C + y \in Int /\ B + t \in Int
      BY <1>1, <1>5, <3>5
    <3>7. Cong(N, A + t, B + t)
      <4>1. Cong(N, t, t)
        BY <1>1, CongRefl
      <4> QED BY <1>1, <3>5, <3>6, <4>1, CongPlus
    <3>8. Cong(N, C + y, D0 + vg)
      BY <1>1, <1>4, <1>5, <3>5, CongPlus
    <3>9. D0 + vg = B + t /\ A + t = t + A
      BY <1>1, <3>5
    <3>10. Cong(N, t + A, C + y)
      <4>1. Cong(N, B + t, C + y)
        BY <1>1, <3>6, <3>8, <3>9, CongSym
      <4> QED BY <1>1, <3>6, <3>7, <3>9, <4>1, CongTrans
    <3> QED BY <3>6, <3>10 DEF A, C
  <2> DEFINE a == t + g * l
             b == x * w + y
  <2>7. a \in Int /\ b \in Int /\ Cong(N, a, b)
    BY <2>6
  <2> HIDE DEF a, b
  <2>8. a % N = b % N
    BY <1>1, <2>7, CongIff
  <2> QED BY <2>5, <2>8 DEF a, b
<1> HIDE DEF key, x, y
<1> QED BY <1>7, <1>8, <1>9, <1>10 DEF new, KeyOf

\* Tweaks one after the other.
LEMMA TweakedKey ==
    ASSUME NEW w \in Int, NEW combined \in Group, combined = Multiples[w % N],
           combined # Infinity, NEW tweaks, NEW n \in Nat, n = Len(tweaks),
           \A m \in 1..n : tweaks[m] \in TweakSet
    PROVE  LET acc == Tweaked(combined, tweaks)[n]
           IN  acc \in Accumulated /\ KeyOf(w, acc) /\ (acc.ok => acc.key # Infinity)
<1> DEFINE start == [key |-> combined, parityAcc |-> 1, tweakAcc |-> 0, ok |-> TRUE]
           Next1(k, a) == IF a.ok THEN tweakKey(a, tweaks[k]) ELSE a
           Rec(v) == v = [k \in 0..Len(tweaks) |-> IF k = 0 THEN start ELSE Next1(k, v[k - 1])]
           v == CHOOSE v : Rec(v)
           step == [k \in 1..n |-> [a \in Accumulated |-> Next1(k, a)]]
<1>1. Tweaked(combined, tweaks) = v
  BY Zenon DEF Tweaked
<1>2. ASSUME NEW k \in 1..n, NEW a \in Accumulated
      PROVE  /\ Next1(k, a) \in Accumulated
             /\ KeyOf(w, a) => KeyOf(w, Next1(k, a))
             /\ (a.ok => a.key # Infinity) => (Next1(k, a).ok => Next1(k, a).key # Infinity)
  <2>1. /\ tweakKey(a, tweaks[k]) \in Accumulated
        /\ KeyOf(w, a) => KeyOf(w, tweakKey(a, tweaks[k]))
        /\ tweakKey(a, tweaks[k]).ok => tweakKey(a, tweaks[k]).key # Infinity
    BY TweakOnce
  <2>2. CASE a.ok
    BY <2>1, <2>2, Zenon
  <2>3. CASE ~a.ok
    BY <2>3, Zenon
  <2> QED BY <2>2, <2>3
<1> HIDE DEF Next1
<1>3. step \in [1..n -> [Accumulated -> Accumulated]]
  BY <1>2
<1>4. start \in Accumulated
  BY DEF Accumulated
<1>5. KeyOf(w, start)
  <2>1. start.key = combined /\ start.parityAcc = 1 /\ start.tweakAcc = 0
    OBVIOUS
  <2>2. 1 * w + 0 = w
    OBVIOUS
  <2> HIDE DEF start
  <2> QED BY <2>1, <2>2 DEF KeyOf
<1>6. start.key # Infinity
  OBVIOUS
<1>s. \A k \in 1..n : \A a \in Accumulated : step[k][a] = Next1(k, a)
  OBVIOUS
<1> HIDE DEF start, step
<1>7. PICK f : Recursion(n, Accumulated, start, step, f)
  BY <1>3, <1>4, RecursionExists
<1>8. /\ f \in [0..n -> Accumulated] /\ f[0] = start
      /\ \A k \in 1..n : f[k] = Next1(k, f[k - 1])
  <2>1. /\ f \in [0..n -> Accumulated] /\ f[0] = start
        /\ \A k \in 1..n : f[k] = step[k][f[k - 1]]
    BY <1>7 DEF Recursion
  <2>2. \A k \in 1..n : f[k - 1] \in Accumulated
    BY <2>1
  <2> QED BY <1>s, <2>1, <2>2
<1>9. Rec(f)
  <2> DEFINE g == [k \in 0..n |-> IF k = 0 THEN start ELSE Next1(k, f[k - 1])]
  <2>1. ASSUME NEW k \in 0..n PROVE f[k] = g[k]
    <3>1. CASE k = 0
      BY <1>8, <3>1
    <3>2. CASE k # 0
      <4>1. k \in 1..n
        BY <3>2
      <4> QED BY <1>8, <3>2, <4>1
    <3> QED BY <3>1, <3>2
  <2>2. DOMAIN f = 0..n /\ DOMAIN g = 0..n /\ f = [k \in 0..n |-> f[k]]
    BY <1>8
  <2>3. f = g
    <3>1. g = [k \in 0..n |-> g[k]]
      BY Zenon
    <3> HIDE DEF g
    <3> QED BY <2>1, <2>2, <3>1
  <2> QED BY <2>3
<1>10. Rec(v)
  BY <1>9, Zenon
<1>11. ASSUME NEW k \in 0..n
       PROVE  v[k] = IF k = 0 THEN start ELSE Next1(k, v[k - 1])
  <2> HIDE DEF v
  <2> QED BY <1>10, Zenon
<1> HIDE DEF v, Rec
<1> DEFINE Good(a) == a \in Accumulated /\ KeyOf(w, a) /\ (a.ok => a.key # Infinity)
           S == {m \in 0..n : Good(v[m])}
<1>12. 0 \in S
  <2>1. 0 \in 0..n
    OBVIOUS
  <2>2. v[0] = start
    BY <1>11, <2>1
  <2> QED BY <1>4, <1>5, <1>6, <2>1, <2>2
<1>13. ASSUME NEW m \in 0..(n - 1), m \in S PROVE m + 1 \in S
  <2>1. m + 1 \in 1..n /\ (m + 1) - 1 = m /\ m + 1 \in 0..n /\ m + 1 # 0
    OBVIOUS
  <2>2. v[m + 1] = Next1(m + 1, v[m])
    BY <1>11, <2>1
  <2>3. Good(v[m])
    BY <1>13
  <2>4. Good(Next1(m + 1, v[m]))
    BY <1>2, <2>1, <2>3
  <2> HIDE DEF Good
  <2> QED BY <2>1, <2>2, <2>4
<1>14. n \in S
  <2>1. S \subseteq 0..n /\ n \in 0..n
    OBVIOUS
  <2> HIDE DEF S
  <2>2. \A m \in 0..n : m \in S
    BY <1>12, <1>13, <2>1, UpTo
  <2> QED BY <2>1, <2>2
<1> QED BY <1>1, <1>14

\* What the combined key is the multiple of, tweaks and all.
LEMMA AggregatedKey ==
    ASSUME NEW s \in Scenarios, NEW keys \in Orders(s)
    PROVE  LET agg == AggregateFor(s, keys)
           IN  /\ agg \in Accumulated /\ KeyOf(Weighted(s, keys), agg)
               /\ agg.ok => agg.key # Infinity
<1> DEFINE w == Weighted(s, keys)
           combined == Combined(keys)
           tweaks == Tweaks(s.kind, s.tweaks, combined)
           n == Len(tweaks)
<1>1. w \in Int /\ combined = Multiples[w % N]
  BY CombinedKey
<1>2. combined # Infinity
  BY KeysCombine
<1>3. combined \in Group
  <2>1. w % N \in 0..(N - 1)
    <3> HIDE DEF w
    <3> QED BY <1>1, CurveNumbers, DivMod
  <2> QED BY <1>1, <2>1, MultiplesPoints
<1>4. /\ s.tweaks \in Seq(TweakSet) /\ s.kind \in {"plain", "taproot", "bip86"}
      /\ s.kind = "taproot" => s.tweaks # <<>>
  BY ScenariosAssumption DEF TweakSet
<1>5. n \in Nat /\ \A m \in 1..n : tweaks[m] \in TweakSet
  <2>1. CASE s.kind = "plain"
    <3>1. tweaks = s.tweaks
      BY <2>1 DEF Tweaks
    <3> HIDE DEF tweaks
    <3> QED BY <1>4, <3>1
  <2>2. CASE s.kind # "plain"
    <3> DEFINE t == TapHash(combined[1], IF s.kind = "bip86" THEN 0 ELSE s.tweaks[1].t)
    <3>1. tweaks = <<[t |-> t, xOnly |-> TRUE]>>
      BY <2>2 DEF Tweaks
    <3>2. combined[1] \in 0..(P - 1)
      <4>1. combined \in OnCurve
        BY <1>2, <1>3 DEF Group
      <4> HIDE DEF combined
      <4> QED BY <4>1, CurvePoint
    <3>3. (IF s.kind = "bip86" THEN 0 ELSE s.tweaks[1].t)
              \in {0} \cup {s.tweaks[m].t : m \in DOMAIN s.tweaks}
      <4>1. s.kind = "taproot" => 1 \in DOMAIN s.tweaks
        BY <1>4
      <4> QED BY <1>4, <2>2, <4>1
    <3>4. t \in Nat
      <4> HIDE DEF combined
      <4> QED BY <3>2, <3>3, TaggedHashes
    <3> HIDE DEF t, tweaks
    <3>5. [t |-> t, xOnly |-> TRUE] \in TweakSet
      BY <3>4 DEF TweakSet
    <3> DEFINE new == [t |-> t, xOnly |-> TRUE]
    <3> HIDE DEF new
    <3>6. tweaks = <<new>> /\ new \in TweakSet
      BY <3>1, <3>5 DEF new
    <3> QED BY <3>6
  <2> QED BY <2>1, <2>2
<1>6. AggregateFor(s, keys) = Tweaked(combined, tweaks)[n]
  BY Zenon DEF AggregateFor
<1> HIDE DEF w, combined, tweaks
<1>7. LET acc == Tweaked(combined, tweaks)[n]
      IN  acc \in Accumulated /\ KeyOf(w, acc) /\ (acc.ok => acc.key # Infinity)
  BY <1>1, <1>2, <1>3, <1>5, TweakedKey
<1> QED BY <1>6, <1>7, Zenon DEF w

-----------------------------------------------------------------------------
(* Partial signatures and their sum.                                       *)

\* The tweaked key's part of the sum, from the parties' parts and the tweak's.
LEMMA TweakedPart ==
    ASSUME NEW e \in Int, NEW g \in Int, NEW w \in Int, NEW t \in Int, NEW f \in Int,
           NEW p \in Int, NEW l \in Int, NEW m \in Int,
           Cong(N, g, f * p), Cong(N, l, p * w + t), Cong(N, m, f * l)
    PROVE  Cong(N, (e * g) * w + (e * t) * f, e * m)
<1> DEFINE pw == p * w
           ef == e * f
           fp == f * p
           eg == e * g
           egw == eg * w
           etf == (e * t) * f
           T == pw + t
<1>1. /\ N \in Nat \ {0} /\ pw \in Int /\ ef \in Int /\ fp \in Int /\ eg \in Int
      /\ e * t \in Int /\ T \in Int /\ e * fp \in Int
  <2>1. /\ N \in Nat \ {0} /\ pw \in Int /\ ef \in Int /\ fp \in Int /\ eg \in Int
        /\ e * t \in Int
    BY CurveNumbers, Ring
  <2> HIDE DEF pw, fp
  <2> QED BY <2>1, Ring
<1>2. egw \in Int /\ etf \in Int /\ ef * pw \in Int /\ ef * t \in Int /\ ef * T \in Int
      /\ ef * T = ef * pw + ef * t /\ (e * fp) * w \in Int
  <2> DEFINE et == e * t
             efp == e * fp
  <2>1. et \in Int /\ efp \in Int
    BY <1>1
  <2> HIDE DEF pw, ef, fp, eg, et, efp
  <2> QED BY <1>1, <2>1, Ring DEF et, efp
<1>3. (e * fp) * w = ef * pw /\ etf = ef * t
  <2>1. e * (f * p) = (e * f) * p
    BY Ring
  <2>2. ((e * f) * p) * w = (e * f) * (p * w)
    <3>1. ef \in Int
      BY <1>1
    <3> HIDE DEF ef
    <3>2. (ef * p) * w = ef * (p * w)
      BY <3>1, Ring
    <3> QED BY <3>2 DEF ef
  <2>3. (e * t) * f = (e * f) * t
    BY Ring
  <2> QED BY <2>1, <2>2, <2>3, Zenon
<1>4. Cong(N, egw, (e * fp) * w)
  <2> DEFINE efp == e * fp
  <2>1. efp \in Int /\ Cong(N, eg, efp)
    <3> HIDE DEF fp
    <3> QED BY <1>1, CongScale DEF fp
  <2> HIDE DEF efp, eg
  <2>2. Cong(N, eg * w, efp * w)
    BY <1>1, <2>1, CongScale
  <2> QED BY <2>2 DEF efp
<1>5. Cong(N, egw + etf, ef * T)
  <2> DEFINE A == ef * pw
             B == ef * t
  <2>1. A \in Int /\ B \in Int /\ Cong(N, egw, A) /\ etf = B /\ ef * T = A + B
    BY <1>2, <1>3, <1>4
  <2>2. Cong(N, B, B)
    BY <1>1, <2>1, CongRefl
  <2> HIDE DEF A, B, egw, etf
  <2>3. Cong(N, egw + B, A + B)
    BY <1>1, <1>2, <2>1, <2>2, CongPlus
  <2> QED BY <2>1, <2>3
<1>6. Cong(N, ef * T, e * m) /\ e * m \in Int
  <2>1. Cong(N, ef * T, ef * l) /\ ef * l \in Int
    <3>1. Cong(N, T, l)
      BY <1>1, CongSym
    <3> HIDE DEF T, ef
    <3> QED BY <1>1, <3>1, CongScale, Ring
  <2>2. ef * l = e * (f * l)
    BY Ring
  <2>3. Cong(N, e * (f * l), e * m) /\ e * m \in Int
    <3> DEFINE fl == f * l
    <3>1. fl \in Int /\ Cong(N, fl, m)
      <4>1. fl \in Int
        BY Ring
      <4> QED BY <1>1, <4>1, CongSym
    <3> HIDE DEF fl
    <3>2. Cong(N, e * fl, e * m) /\ e * m \in Int
      BY <1>1, <3>1, CongScale, Ring
    <3> QED BY <3>2 DEF fl
  <2> DEFINE efT == ef * T
             efl == ef * l
             em == e * m
  <2>4. /\ efT \in Int /\ efl \in Int /\ em \in Int
        /\ Cong(N, efT, efl) /\ Cong(N, efl, em)
    BY <1>2, <2>1, <2>2, <2>3
  <2> HIDE DEF efT, efl, em
  <2>5. Cong(N, efT, em)
    BY <1>1, <2>4, CongTrans
  <2> QED BY <2>4, <2>5 DEF efT, em
<1> DEFINE A == egw + etf
           B == ef * T
           C == e * m
<1>7. A \in Int /\ B \in Int /\ C \in Int /\ Cong(N, A, B) /\ Cong(N, B, C)
  BY <1>2, <1>5, <1>6
<1> HIDE DEF A, B, C
<1>8. Cong(N, A, C)
  BY <1>1, <1>7, CongTrans
<1> QED BY <1>8 DEF A, C

\* The nonces' part of the sum is that of the combined nonce.
LEMMA NoncePart ==
    ASSUME NEW u \in Int, NEW f \in Int, NEW k \in Int, NEW ek \in Int,
           Cong(N, f, k), Cong(N, ek, u * k)
    PROVE  Cong(N, u * f, ek)
<1> DEFINE uf == u * f
           uk == u * k
<1>1. N \in Nat \ {0} /\ uf \in Int /\ uk \in Int
  BY CurveNumbers, Ring
<1>2. Cong(N, uf, uk)
  BY <1>1, CongScale
<1>3. Cong(N, uk, ek)
  BY <1>1, CongSym
<1> HIDE DEF uf, uk
<1>4. Cong(N, uf, ek)
  BY <1>1, <1>2, <1>3, CongTrans
<1> QED BY <1>4 DEF uf

LEMMA TimesReduced ==
    ASSUME NEW k \in Int, NEW a \in Int
    PROVE  Times(k, Multiples[a % N]) = Multiples[(k * a) % N]
<1> DEFINE l == a % N
           kl == k * l
           ka == k * a
<1>1. N \in Nat \ {0} /\ l \in 0..(N - 1) /\ l \in Int /\ Cong(N, l, a)
  BY CurveNumbers, DivMod, CongMod
<1> HIDE DEF l
<1>2. Times(k, Multiples[l]) = Multiples[kl % N]
  BY <1>1, TimesMultiple
<1>3. kl \in Int /\ ka \in Int /\ Cong(N, kl, ka)
  BY <1>1, CongScale, Ring
<1> HIDE DEF kl, ka
<1>4. kl % N = ka % N
  BY <1>1, <1>3, CongIff
<1> QED BY <1>2, <1>4 DEF l, ka

\* The sum of one half of the nonces.
NonceTotal(ks, c) == Totals([j \in DOMAIN ks |-> ks[j][c]])[Len(ks)]
NoncePairs == (0..(N - 1)) \X (0..(N - 1))

LEMMA HalvesAre ==
    ASSUME NEW k \in NoncePairs
    PROVE  /\ k[1] \in 0..(N - 1) /\ k[2] \in 0..(N - 1) /\ k[1] \in Int /\ k[2] \in Int
           /\ PubNonce(k) = <<Multiples[k[1]], Multiples[k[2]]>>
<1>1. k[1] \in 0..(N - 1) /\ k[2] \in 0..(N - 1)
  BY DEF NoncePairs
<1>2. N \in Nat \ {0}
  BY CurveNumbers
<1> DEFINE a == k[1]
           b == k[2]
<1>3. a \in 0..(N - 1) /\ b \in 0..(N - 1) /\ a \in Int /\ b \in Int
  BY <1>1, <1>2
<1>4. PubNonce(k) = <<Times(a, G), Times(b, G)>>
  BY DEF PubNonce
<1> HIDE DEF a, b
<1>5. Times(a, G) = Multiples[a] /\ Times(b, G) = Multiples[b]
  BY <1>2, <1>3, TimesGenerator, ModSmall
<1> QED BY <1>3, <1>4, <1>5 DEF a, b

HalfSum(pubs, c) == PointSums([j \in 1..Len(pubs) |-> pubs[j][c]])[Len(pubs)]
PubNonces(ks) == [j \in DOMAIN ks |-> PubNonce(ks[j])]

LEMMA HalvesSum ==
    ASSUME NEW n \in Nat, NEW ks \in [1..n -> NoncePairs], NEW c \in {1, 2}
    PROVE  /\ NonceTotal(ks, c) \in Int
           /\ HalfSum(PubNonces(ks), c) = Multiples[NonceTotal(ks, c) % N]
<1> DEFINE pubs == PubNonces(ks)
<1>p. pubs = [j \in 1..n |-> PubNonce(ks[j])] /\ Len(pubs) = n
  BY DEF PubNonces
<1> HIDE DEF pubs
<1> DEFINE xs == [j \in 1..n |-> ks[j][c]]
           pts == [j \in 1..n |-> pubs[j][c]]
<1>1. \A j \in 1..n : ks[j][c] \in 0..(N - 1) /\ ks[j][c] \in Int
  BY HalvesAre
<1>2. xs \in [1..n -> Int]
  BY <1>1
<1>3. ASSUME NEW j \in 1..n PROVE pubs[j][c] = Multiples[xs[j] % N]
  <2>1. pubs[j] = <<Multiples[ks[j][1]], Multiples[ks[j][2]]>>
    BY <1>p, HalvesAre
  <2>2. pubs[j][c] = Multiples[ks[j][c]]
    BY <2>1
  <2>3. xs[j] = ks[j][c] /\ xs[j] \in 0..(N - 1)
    BY <1>1
  <2> HIDE DEF xs
  <2>4. xs[j] % N = xs[j]
    BY <2>3, CurveNumbers, ModSmall
  <2> QED BY <2>2, <2>3, <2>4
<1>4. NonceTotal(ks, c) = Totals(xs)[n]
  <2>1. DOMAIN ks = 1..n /\ Len(ks) = n
    OBVIOUS
  <2> QED BY <2>1 DEF NonceTotal
<1> HIDE DEF xs
<1>5. pts = [j \in 1..n |-> Multiples[xs[j] % N]]
  BY <1>3
<1> HIDE DEF pts
<1>6. PointSums(pts)[n] = Multiples[Totals(xs)[n] % N]
  BY <1>2, <1>5, SumOfMultiples
<1>7. Totals(xs)[n] \in Int
  <2>1. n \in 0..n
    OBVIOUS
  <2> QED BY <1>2, <2>1, TotalsAre
<1>8. HalfSum(pubs, c) = PointSums(pts)[n]
  BY <1>p DEF HalfSum, pts
<1> QED BY <1>4, <1>6, <1>7, <1>8 DEF pubs

\* The combined nonce is the multiple by the sums.
LEMMA NoncesCombined ==
    ASSUME NEW n \in Nat, NEW ks \in [1..n -> NoncePairs]
    PROVE  AggregateNonces(PubNonces(ks)) =
              <<Multiples[NonceTotal(ks, 1) % N], Multiples[NonceTotal(ks, 2) % N]>>
<1> DEFINE pubs == PubNonces(ks)
<1>1. AggregateNonces(pubs) = <<HalfSum(pubs, 1), HalfSum(pubs, 2)>>
  BY Zenon DEF AggregateNonces, HalfSum
<1>2. 1 \in {1, 2} /\ 2 \in {1, 2}
  OBVIOUS
<1>3. HalfSum(pubs, 1) = Multiples[NonceTotal(ks, 1) % N]
  BY <1>2, HalvesSum
<1>4. HalfSum(pubs, 2) = Multiples[NonceTotal(ks, 2) % N]
  BY <1>2, HalvesSum
<1> QED BY <1>1, <1>3, <1>4, Zenon

-----------------------------------------------------------------------------
(* The nonce that is signed with.                                          *)

NonceOf(a, c) == <<Multiples[a % N], Multiples[c % N]>>

\* What is signed with, and its factor.
SignedWith(a, c, key, m) ==
    LET b == BlindHash(NonceOf(a, c), key[1], m) % N
        nonce == computeSigningNonce(NonceOf(a, c), key, m)
        R == Multiples[(a + b * c) % N]
    IN  /\ b \in Int /\ nonce.b = b
        /\ nonce.R = IF R = Infinity THEN G ELSE R
        /\ R = Plus(NonceOf(a, c)[1], Times(b, NonceOf(a, c)[2]))
        /\ nonce.R \in OnCurve
        /\ challenge(nonce.R, key, m) \in 0..(N - 1)

LEMMA SigningNonce ==
    ASSUME NEW a \in Int, NEW c \in Int, NEW key \in OnCurve, NEW m \in Messages
    PROVE  SignedWith(a, c, key, m)
<1> DEFINE b == BlindHash(NonceOf(a, c), key[1], m) % N
           pair == NonceOf(a, c)
           nonce == computeSigningNonce(pair, key, m)
           bc == b * c
           R == Multiples[(a + bc) % N]
<1>1. N \in Nat \ {0} /\ key[1] \in 0..(P - 1)
  BY CurveNumbers, CurvePoint
<1>2. /\ pair[1] = Multiples[a % N] /\ pair[2] = Multiples[c % N]
      /\ pair = <<Multiples[a % N], Multiples[c % N]>>
  BY DEF NonceOf
<1>3. pair[1] \in Group /\ pair[2] \in Group
  <2>1. a % N \in 0..(N - 1) /\ c % N \in 0..(N - 1)
    BY <1>1, DivMod
  <2> QED BY <1>2, <2>1, MultiplesPoints
<1>4. b \in Int
  <2> DEFINE hb == BlindHash(NonceOf(a, c), key[1], m)
  <2>1. hb \in Nat
    <3> HIDE DEF pair
    <3>1. \A x, y \in Group : BlindHash(<<x, y>>, key[1], m) \in Nat
      BY <1>1, TaggedHashes
    <3>2. BlindHash(pair, key[1], m) \in Nat
      BY <1>2, <1>3, <3>1
    <3> QED BY <3>2 DEF pair
  <2> HIDE DEF hb
  <2>2. hb % N \in Int
    BY <1>1, <2>1, DivMod
  <2> QED BY <2>2 DEF hb
<1>5. bc \in Int /\ a + bc \in Int
  <2>1. bc \in Int
    BY <1>4, Ring
  <2> HIDE DEF bc
  <2> QED BY <2>1
<1>6. R = Plus(pair[1], Times(b, pair[2]))
  <2>1. Times(b, pair[2]) = Multiples[bc % N]
    BY <1>2, <1>4, TimesReduced
  <2> HIDE DEF bc, pair
  <2>2. Plus(Multiples[a % N], Multiples[bc % N]) = R
    BY <1>5, PlusMultiples
  <2> QED BY <1>2, <2>1, <2>2
<1>7. nonce.b = b /\ nonce.R = IF R = Infinity THEN G ELSE R
  <2> DEFINE sum == Plus(pair[1], Times(b, pair[2]))
  <2>1. nonce = [R |-> IF sum = Infinity THEN G ELSE sum, b |-> b]
    BY Zenon DEF computeSigningNonce
  <2>2. sum = R
    BY <1>6
  <2> HIDE DEF sum, nonce, R
  <2> QED BY <2>1, <2>2
<1>8. nonce.R \in OnCurve
  <2>1. R \in Group
    <3> DEFINE t == a + bc
    <3>1. t \in Int
      BY <1>5
    <3> HIDE DEF t
    <3>2. t % N \in 0..(N - 1)
      BY <1>1, <3>1, DivMod
    <3> QED BY <3>2, MultiplesPoints DEF t
  <2>2. G \in OnCurve
    BY CurveAssumption
  <2> HIDE DEF R, nonce
  <2> QED BY <1>7, <2>1, <2>2 DEF Group
<1>9. challenge(nonce.R, key, m) \in 0..(N - 1)
  <2> DEFINE r == nonce.R[1]
             h == ChallengeHash(r, key[1], m)
  <2> HIDE DEF nonce
  <2>1. r \in 0..(P - 1)
    BY <1>8, CurvePoint
  <2> HIDE DEF r
  <2>2. h \in Nat
    BY <1>1, <2>1, TaggedHashes
  <2>3. challenge(nonce.R, key, m) = h % N
    BY DEF challenge, r
  <2> HIDE DEF h
  <2>4. h % N \in 0..(N - 1)
    BY <1>1, <2>2, DivMod
  <2> QED BY <2>3, <2>4
<1> HIDE DEF R, nonce, pair, b
<1> QED BY <1>4, <1>6, <1>7, <1>8, <1>9, Zenon DEF SignedWith, R, nonce, pair, b

-----------------------------------------------------------------------------
(* Partial signatures.                                                     *)

LEMMA NegReduced ==
    ASSUME NEW a \in Int
    PROVE  Neg(Multiples[a % N]) = Multiples[((N - 1) * a) % N]
<1> DEFINE q == a % N
           b == (N - 1) * a
<1>n. N \in Nat \ {0} /\ N \in Int /\ N - 1 \in Int
  BY CurveNumbers
<1>q. q \in 0..(N - 1) /\ q \in Int /\ Cong(N, q, a)
  BY <1>n, DivMod, CongMod
<1> HIDE DEF q
<1>1. N \in Nat \ {0} /\ q \in 0..(N - 1) /\ q \in Int /\ Cong(N, q, a) /\ N - q \in Int
      /\ N \in Int /\ N - 1 \in Int
  BY <1>n, <1>q
<1>2. b \in Int /\ Cong(N, b, -a) /\ -a \in Int
  <2>1. (N - 1) * a = N * a - 1 * a /\ 1 * a = a /\ N * a = a * N /\ N * a \in Int /\ b \in Int
    BY <1>1, Ring
  <2>2. b = -a + a * N
    <3> DEFINE na == N * a
    <3>1. na \in Int /\ b = na - a /\ a * N = na
      BY <2>1
    <3> HIDE DEF na, b
    <3> QED BY <3>1
  <2>3. Cong(N, b, -a)
    BY <2>2, Zenon DEF Cong
  <2>4. -a \in Int
    OBVIOUS
  <2> QED BY <2>1, <2>3, <2>4
<1> HIDE DEF b
<1>3. (N - q) % N = b % N
  <2>1. Cong(N, N - q, -a)
    BY <1>1, CongNeg
  <2>2. Cong(N, -a, b)
    BY <1>1, <1>2, CongSym
  <2>3. Cong(N, N - q, b)
    BY <1>1, <1>2, <2>1, <2>2, CongTrans
  <2> QED BY <1>1, <1>2, <2>3, CongIff
<1>4. Neg(Multiples[q]) = Multiples[(N - q) % N]
  <2>1. CASE q = 0
    <3>1. (N - q) % N = 0
      <4>1. N % N = 0 /\ N - q = N
        <5>1. 1 * N + 0 = N /\ 1 \in Int /\ 0 \in 0..(N - 1)
          BY <1>1
        <5>2. (1 * N + 0) % N = 0
          BY <1>1, <5>1, DivIs
        <5> QED BY <1>1, <2>1, <5>1, <5>2
      <4> QED BY <4>1
    <3>2. Multiples[0] = Infinity /\ Neg(Infinity) = Infinity
      BY GroupAssumption DEF Neg
    <3> QED BY <2>1, <3>1, <3>2, Zenon
  <2>2. CASE q # 0
    <3>1. q \in 1..(N - 1) /\ N - q \in 0..(N - 1)
      BY <1>1, <2>2
    <3> HIDE DEF q
    <3>2. (N - q) % N = N - q
      BY <1>1, <3>1, ModSmall
    <3> QED BY <3>1, <3>2, NegMultiple
  <2> QED BY <2>1, <2>2
<1> QED BY <1>3, <1>4 DEF b, q

KeyFactor(agg) == (Sign1(agg.key) * agg.parityAcc) % N

LEMMA KeyFactorType ==
    ASSUME NEW agg \in Accumulated
    PROVE  KeyFactor(agg) \in Int /\ Cong(N, KeyFactor(agg), Sign1(agg.key) * agg.parityAcc)
<1> DEFINE x == Sign1(agg.key) * agg.parityAcc
<1>1. N \in Nat \ {0}
  BY CurveNumbers
<1>2. x \in Int
  <2>1. agg.parityAcc \in Int /\ Sign1(agg.key) \in Int
    BY FactorType DEF Accumulated
  <2> QED BY <2>1, Ring
<1> HIDE DEF x
<1>3. x % N \in Int /\ Cong(N, x % N, x)
  BY <1>1, <1>2, DivMod, CongMod
<1>4. KeyFactor(agg) = x % N
  BY DEF KeyFactor, x
<1> QED BY <1>3, <1>4 DEF x

\* Both halves of a nonce, as they are signed with.
NonceSum(k, b) == k[1] + b * k[2]

\* What a partial signature is the sum of.
PartialValue(s, keys, j, agg, k, nonce, m) ==
    LET sig == PartialSig(agg, keys, s.keys[j], k, nonce, m)
        e == challenge(nonce.R, agg.key, m)
        g == KeyFactor(agg)
        x == Coefficient(s, keys, j) * s.keys[j]
        f == NonceSum(k, nonce.b)
        u == Sign1(nonce.R)
    IN  /\ sig \in 0..(N - 1)
        /\ e * g \in Int /\ x \in Int /\ f \in Int /\ u \in Int
        /\ sig = (u * f + (e * g) * x) % N
        /\ Cong(N, sig, u * f + (e * g) * x)
        /\ (e * Coefficient(s, keys, j) * g) * s.keys[j] = (e * g) * x

LEMMA PartialSigIs ==
    ASSUME NEW s \in Scenarios, NEW keys \in Orders(s), NEW j \in SecretKeys(s),
           NEW agg \in Accumulated, NEW k \in NoncePairs, NEW nonce, nonce.b \in Int, NEW m,
           challenge(nonce.R, agg.key, m) \in Int
    PROVE  PartialValue(s, keys, j, agg, k, nonce, m)
<1> DEFINE sec == s.keys[j]
           a == Coefficient(s, keys, j)
           sig == PartialSig(agg, keys, sec, k, nonce, m)
           e == challenge(nonce.R, agg.key, m)
           g == KeyFactor(agg)
           x == a * sec
           f == NonceSum(k, nonce.b)
           u == Sign1(nonce.R)
           eag == e * a * g
           eg == e * g
           t == u * f + eg * x
<1>1. N \in Nat \ {0} /\ sec \in Int /\ a \in Int /\ e \in Int /\ g \in Int /\ u \in Int
  BY CurveNumbers, ScenarioTypes, CoefficientType, KeyFactorType, FactorType
<1>2. f \in Int
  <2> DEFINE b == nonce.b
             k2 == k[2]
  <2>1. b \in Int /\ k2 \in Int /\ k[1] \in Int /\ f = k[1] + b * k2
    BY HalvesAre DEF NonceSum
  <2> HIDE DEF b, k2, f
  <2>2. b * k2 \in Int
    BY <2>1, Ring
  <2> QED BY <2>1, <2>2
<1>3. sig = (u * f + eag * sec) % N
  BY Zenon DEF PartialSig, KeyFactor, NonceSum, Coefficient
<1> HIDE DEF sig, sec, a, e, g, f, u
<1>4. x \in Int /\ eg \in Int /\ u * f \in Int
  BY <1>1, <1>2, Ring
<1>5. eag * sec = eg * x
  <2>1. (e * a) * g = (e * g) * a
    BY <1>1, Ring
  <2>2. (eg * a) * sec = eg * (a * sec)
    <3> HIDE DEF eg
    <3> QED BY <1>1, <1>4, Ring
  <2> QED BY <2>1, <2>2, Zenon
<1>6. t \in Int
  <2>1. eg * x \in Int
    <3> HIDE DEF eg, x
    <3> QED BY <1>4, Ring
  <2> DEFINE ex == eg * x
             uf == u * f
  <2>2. ex \in Int /\ uf \in Int /\ t = uf + ex
    BY <1>4, <2>1
  <2> HIDE DEF ex, uf, t
  <2> QED BY <2>2
<1>7. sig = t % N
  BY <1>3, <1>5, Zenon
<1> HIDE DEF t
<1>8. t % N \in 0..(N - 1) /\ Cong(N, t % N, t)
  BY <1>1, <1>6, DivMod, CongMod
<1>9. /\ sig \in 0..(N - 1) /\ sig = t % N /\ Cong(N, sig, t)
  BY <1>7, <1>8
<1> QED BY <1>1, <1>2, <1>4, <1>5, <1>9, Zenon DEF PartialValue, t, sig, sec, a, e, g, f, u

\* A partial signature satisfies the equation that the other parties check,
\* whatever the nonce and the tweaks (sign.go 253-404 and 423-594).
THEOREM PartialVerifies ==
    ASSUME NEW s \in Scenarios, NEW keys \in Orders(s), NEW j \in SecretKeys(s),
           NEW agg \in Accumulated, NEW k \in NoncePairs, NEW nonce, nonce.b \in Int, NEW m,
           challenge(nonce.R, agg.key, m) \in Int
    PROVE  verifyPartialSig(agg, keys, PartialSig(agg, keys, s.keys[j], k, nonce, m),
                            Times(s.keys[j], G), PubNonce(k), nonce, m)
<1> DEFINE sec == s.keys[j]
           a == Coefficient(s, keys, j)
           sig == PartialSig(agg, keys, sec, k, nonce, m)
           e == challenge(nonce.R, agg.key, m)
           g == KeyFactor(agg)
           x == a * sec
           f == NonceSum(k, nonce.b)
           u == Sign1(nonce.R)
           eag == e * a * g
           egx == (e * g) * x
           own == Plus(PubNonce(k)[1], Times(nonce.b, PubNonce(k)[2]))
           signed == IF IsOdd(nonce.R[2]) THEN Neg(own) ELSE own
<1>1. /\ sig \in 0..(N - 1) /\ e * g \in Int /\ x \in Int /\ f \in Int /\ u \in Int
      /\ sig = (u * f + egx) % N /\ eag * sec = egx
  <2>1. PartialValue(s, keys, j, agg, k, nonce, m)
    BY PartialSigIs
  <2> QED BY <2>1, Zenon DEF PartialValue
<1>2. N \in Nat \ {0} /\ sec \in Int /\ sec \in 0..(N - 1) /\ a \in Int /\ e \in Int /\ g \in Int
      /\ Times(sec, G) = Multiples[sec]
  BY CurveNumbers, ScenarioTypes, CoefficientType, KeyFactorType
<1>3. verifyPartialSig(agg, keys, sig, Times(sec, G), PubNonce(k), nonce, m) <=>
         Times(sig, G) = Plus(Times(eag, Times(sec, G)), signed)
  BY Zenon DEF verifyPartialSig, KeyFactor, Coefficient
<1> HIDE DEF sig, sec, a, e, g, f, u
<1>4. eag \in Int /\ egx \in Int /\ u * f \in Int
  <2> DEFINE ea == e * a
             eg == e * g
  <2>1. ea \in Int /\ eg \in Int /\ u * f \in Int
    BY <1>1, <1>2, Ring
  <2> HIDE DEF ea, eg, x
  <2>2. ea * g \in Int /\ eg * x \in Int
    BY <1>1, <1>2, <2>1, Ring
  <2> QED BY <2>1, <2>2 DEF ea, eg
<1>5. own = Multiples[f % N]
  <2> DEFINE b == nonce.b
             k1 == k[1]
             k2 == k[2]
             bk == b * k2
  <2>1. /\ b \in Int /\ k1 \in Int /\ k2 \in Int /\ k1 \in 0..(N - 1) /\ k2 \in 0..(N - 1)
        /\ PubNonce(k) = <<Multiples[k1], Multiples[k2]>> /\ f = k1 + bk
    BY HalvesAre DEF NonceSum, f
  <2>2. own = Plus(Multiples[k1], Times(b, Multiples[k2]))
    BY <2>1
  <2> HIDE DEF b, k1, k2, own
  <2>3. Times(b, Multiples[k2]) = Multiples[bk % N] /\ bk \in Int
    BY <2>1, TimesMultiple, Ring
  <2>4. k1 % N = k1
    BY <1>2, <2>1, ModSmall
  <2> HIDE DEF bk
  <2>5. Plus(Multiples[k1 % N], Multiples[bk % N]) = Multiples[(k1 + bk) % N]
    BY <2>1, <2>3, PlusMultiples
  <2> QED BY <2>1, <2>2, <2>3, <2>4, <2>5, Zenon
<1> HIDE DEF own
<1> DEFINE uf == u * f
<1>6. signed = Multiples[uf % N]
  <2>1. CASE IsOdd(nonce.R[2])
    <3>1. u = N - 1 /\ signed = Neg(own)
      BY <2>1 DEF Sign1, u
    <3>2. Neg(Multiples[f % N]) = Multiples[((N - 1) * f) % N]
      BY <1>1, NegReduced
    <3> QED BY <1>5, <3>1, <3>2, Zenon
  <2>2. CASE ~IsOdd(nonce.R[2])
    <3>1. u = 1 /\ signed = own /\ 1 * f = f
      BY <1>1, <2>2 DEF Sign1, u
    <3> QED BY <1>5, <3>1, Zenon
  <2> QED BY <2>1, <2>2
<1> HIDE DEF signed
<1>7. Times(eag, Times(sec, G)) = Multiples[egx % N]
  <2> HIDE DEF eag, egx
  <2>1. Times(eag, Multiples[sec]) = Multiples[(eag * sec) % N]
    BY <1>2, <1>4, TimesMultiple
  <2> QED BY <1>1, <1>2, <2>1, Zenon
<1> HIDE DEF eag, egx, uf
<1>8. Plus(Multiples[egx % N], Multiples[uf % N]) = Multiples[(egx + uf) % N]
  <2>1. egx \in Int /\ uf \in Int
    BY <1>4 DEF uf
  <2> QED BY <2>1, PlusMultiples
<1>9. Times(sig, G) = Multiples[sig]
  <2>1. sig \in Int /\ sig % N = sig
    BY <1>1, <1>2, ModSmall
  <2> QED BY <2>1, TimesGenerator
<1>10. sig = (egx + uf) % N
  <2>1. egx \in Int /\ uf \in Int /\ sig = (uf + egx) % N
    BY <1>1, <1>4 DEF uf
  <2>2. uf + egx = egx + uf
    BY <2>1
  <2> QED BY <2>1, <2>2, Zenon
<1>11. Times(sig, G) = Plus(Times(eag, Times(sec, G)), signed)
  BY <1>6, <1>7, <1>8, <1>9, <1>10, Zenon
<1> QED BY <1>3, <1>11, Zenon DEF sig, sec, own, signed, eag, a, e, g

-----------------------------------------------------------------------------
(* The final signature.                                                    *)

NonceSums(ks, b) == [j \in DOMAIN ks |-> NonceSum(ks[j], b)]

LEMMA NonceSumsTotal ==
    ASSUME NEW n \in Nat, NEW ks \in [1..n -> NoncePairs], NEW b \in Int
    PROVE  /\ NonceSums(ks, b) \in [1..n -> Int]
           /\ Totals(NonceSums(ks, b))[n] \in Int
           /\ NonceTotal(ks, 1) \in Int /\ NonceTotal(ks, 2) \in Int
           /\ Cong(N, Totals(NonceSums(ks, b))[n], NonceTotal(ks, 1) + b * NonceTotal(ks, 2))
<1> DEFINE fs == NonceSums(ks, b)
           xs == [j \in 1..n |-> ks[j][1]]
           ys == [j \in 1..n |-> ks[j][2]]
<1>1. fs = [j \in 1..n |-> NonceSum(ks[j], b)] /\ n \in 0..n
  BY DEF NonceSums
<1>2. xs \in [1..n -> Int] /\ ys \in [1..n -> Int]
  BY HalvesAre
<1>3. NonceTotal(ks, 1) = Totals(xs)[n] /\ NonceTotal(ks, 2) = Totals(ys)[n]
  <2>1. DOMAIN ks = 1..n /\ Len(ks) = n
    OBVIOUS
  <2> QED BY <2>1 DEF NonceTotal
<1>4. \A j \in 1..n : fs[j] = xs[j] + b * ys[j]
  BY <1>1 DEF NonceSum
<1> HIDE DEF fs, xs, ys
<1>5. ASSUME NEW j \in 1..n PROVE fs[j] \in Int /\ Cong(N, fs[j], 1 * xs[j] + b * ys[j])
  <2> DEFINE x == xs[j]
             y == ys[j]
             by == b * y
  <2>1. x \in Int /\ y \in Int /\ fs[j] = x + by
    BY <1>2, <1>4
  <2> HIDE DEF x, y
  <2>2. by \in Int /\ 1 * x = x
    BY <2>1, Ring
  <2> HIDE DEF by
  <2>3. x + by \in Int
    BY <2>1, <2>2
  <2>4. Cong(N, x + by, x + by)
    BY <2>3, CurveNumbers, CongRefl
  <2> QED BY <2>1, <2>2, <2>3, <2>4, Zenon DEF by, x, y
<1>6. fs \in [1..n -> Int]
  BY <1>1, <1>5
<1>7. Totals(fs)[n] \in Int /\ Totals(xs)[n] \in Int /\ Totals(ys)[n] \in Int
  BY <1>1, <1>2, <1>6, TotalsAre
<1>8. Cong(N, Totals(fs)[n], 1 * Totals(xs)[n] + b * Totals(ys)[n])
  <2>1. 1 \in Int
    OBVIOUS
  <2> QED BY <1>2, <1>5, <1>6, <2>1, SumOfCombinations
<1> DEFINE X == Totals(xs)[n]
<1>9. 1 * X = X
  <2> HIDE DEF X
  <2> QED BY <1>7, Ring DEF X
<1> QED BY <1>3, <1>6, <1>7, <1>8, <1>9, Zenon DEF fs

\* The parties' partial signatures.
PartialSigs(s, keys, agg, ks, nonce, m) ==
    [j \in SecretKeys(s) |-> PartialSig(agg, keys, s.keys[j], ks[j], nonce, m)]

SigsTotal(s, keys, agg, ks, nonce, m) ==
    LET n == Len(s.keys)
        total == Totals(PartialSigs(s, keys, agg, ks, nonce, m))[n]
        e == challenge(nonce.R, agg.key, m)
    IN  /\ total \in Int
        /\ Cong(N, total, Sign1(nonce.R) * Totals(NonceSums(ks, nonce.b))[n]
                          + (e * KeyFactor(agg)) * Weighted(s, keys))

LEMMA PartialSigsTotal ==
    ASSUME NEW s \in Scenarios, NEW keys \in Orders(s), NEW agg \in Accumulated,
           NEW ks \in [SecretKeys(s) -> NoncePairs], NEW nonce, nonce.b \in Int, NEW m,
           challenge(nonce.R, agg.key, m) \in Int
    PROVE  SigsTotal(s, keys, agg, ks, nonce, m)
<1> DEFINE n == Len(s.keys)
           sigs == PartialSigs(s, keys, agg, ks, nonce, m)
           fs == NonceSums(ks, nonce.b)
           xs == [j \in 1..n |-> Coefficient(s, keys, j) * s.keys[j]]
           u == Sign1(nonce.R)
           eg == challenge(nonce.R, agg.key, m) * KeyFactor(agg)
<1>1. n \in Nat /\ SecretKeys(s) = 1..n /\ n \in 0..n
  BY ScenarioTypes
<1>2. ASSUME NEW j \in 1..n
      PROVE  /\ sigs[j] \in Int /\ xs[j] \in Int /\ fs[j] \in Int
             /\ Cong(N, sigs[j], u * fs[j] + eg * xs[j])
  <2>1. j \in SecretKeys(s) /\ ks[j] \in NoncePairs
    BY <1>1
  <2>2. PartialValue(s, keys, j, agg, ks[j], nonce, m)
    BY <2>1, PartialSigIs
  <2>3. /\ sigs[j] = PartialSig(agg, keys, s.keys[j], ks[j], nonce, m)
        /\ xs[j] = Coefficient(s, keys, j) * s.keys[j]
        /\ fs[j] = NonceSum(ks[j], nonce.b)
    BY <1>1 DEF PartialSigs, NonceSums
  <2> HIDE DEF sigs, xs, fs
  <2>4. /\ sigs[j] \in 0..(N - 1) /\ xs[j] \in Int /\ fs[j] \in Int
        /\ Cong(N, sigs[j], u * fs[j] + eg * xs[j])
    BY <2>2, <2>3, Zenon DEF PartialValue
  <2> QED BY <2>4, CurveNumbers
<1>3. u \in Int /\ eg \in Int
  <2>1. u \in Int /\ KeyFactor(agg) \in Int
    BY FactorType, KeyFactorType
  <2> QED BY <2>1, Ring
<1>4. Weighted(s, keys) = Totals(xs)[n]
  BY <1>1 DEF Weighted
<1>5. /\ sigs = [j \in 1..n |-> sigs[j]] /\ fs = [j \in 1..n |-> fs[j]]
      /\ xs = [j \in 1..n |-> xs[j]]
  BY <1>1 DEF PartialSigs, NonceSums
<1> HIDE DEF sigs, fs, xs, u, eg, n
<1>6. sigs \in [1..n -> Int] /\ fs \in [1..n -> Int] /\ xs \in [1..n -> Int]
  BY <1>2, <1>5
<1>7. Cong(N, Totals(sigs)[n], u * Totals(fs)[n] + eg * Totals(xs)[n])
  BY <1>1, <1>2, <1>3, <1>6, SumOfCombinations
<1>8. Totals(sigs)[n] \in Int
  BY <1>1, <1>6, TotalsAre
<1> QED BY <1>4, <1>7, <1>8, Zenon DEF SigsTotal, sigs, fs, u, eg, n

\* What the parties sign with, from their secret nonces.
Combination(ks) == AggregateNonces(PubNonces(ks))

\* The signature that the parties' partial signatures are combined to.
FinalSignature(s, keys, agg, ks, m) ==
    LET nonce == computeSigningNonce(Combination(ks), agg.key, m)
    IN  [r |-> nonce.R[1],
         s |-> CombineSigs(agg, nonce.R, PartialSigs(s, keys, agg, ks, nonce, m), m)]

NoncesCancel(key, ks, m) ==
    LET c == Combination(ks)
    IN  Plus(c[1], Times(BlindHash(c, key[1], m) % N, c[2])) = Infinity

\* The nonce as the multiple of the sums, and its factor.
LEMMA NonceFactor ==
    ASSUME NEW n \in Nat, NEW ks \in [1..n -> NoncePairs], NEW key \in OnCurve, NEW m \in Messages
    PROVE  LET nonce == computeSigningNonce(Combination(ks), key, m)
           IN  /\ nonce.b \in Int /\ nonce.R \in OnCurve
               /\ challenge(nonce.R, key, m) \in 0..(N - 1)
               /\ challenge(nonce.R, key, m) \in Int
               /\ ~NoncesCancel(key, ks, m) =>
                     \E k \in 1..(N - 1) : /\ nonce.R = Multiples[k]
                                           /\ Cong(N, Totals(NonceSums(ks, nonce.b))[n], k)
<1> DEFINE a == NonceTotal(ks, 1)
           c == NonceTotal(ks, 2)
           pair == NonceOf(a, c)
           b == BlindHash(pair, key[1], m) % N
           nonce == computeSigningNonce(pair, key, m)
           t == a + b * c
           k == t % N
           R == Multiples[k]
           e == challenge(nonce.R, key, m)
<1>1. Combination(ks) = pair
  BY NoncesCombined DEF Combination, NonceOf
<1>2. a \in Int /\ c \in Int
  <2>1. 1 \in {1, 2} /\ 2 \in {1, 2}
    OBVIOUS
  <2>2. NonceTotal(ks, 1) \in Int
    BY <2>1, HalvesSum
  <2>3. NonceTotal(ks, 2) \in Int
    BY <2>1, HalvesSum
  <2> QED BY <2>2, <2>3
<1> HIDE DEF a, c
<1>3. /\ b \in Int /\ nonce.b = b /\ nonce.R = IF R = Infinity THEN G ELSE R
      /\ R = Plus(pair[1], Times(b, pair[2])) /\ nonce.R \in OnCurve
      /\ e \in 0..(N - 1)
  <2>1. SignedWith(a, c, key, m)
    BY <1>2, SigningNonce
  <2> QED BY <2>1, Zenon DEF SignedWith
<1>4. NoncesCancel(key, ks, m) <=> R = Infinity
  BY <1>1, <1>3, Zenon DEF NoncesCancel
<1> HIDE DEF b, nonce, R
<1>5. e \in Int
  <2> HIDE DEF e
  <2> QED BY <1>3, CurveNumbers
<1>6. ASSUME R # Infinity
      PROVE  \E j \in 1..(N - 1) : /\ nonce.R = Multiples[j]
                                   /\ Cong(N, Totals(NonceSums(ks, nonce.b))[n], j)
  <2> DEFINE S == Totals(NonceSums(ks, nonce.b))[n]
  <2>1. t \in Int
    <3> DEFINE bc == b * c
    <3>1. bc \in Int
      BY <1>2, <1>3, Ring
    <3> HIDE DEF bc
    <3> QED BY <1>2, <3>1 DEF bc
  <2>2. S \in Int /\ Cong(N, S, t)
    <3>1. /\ Totals(NonceSums(ks, b))[n] \in Int
          /\ Cong(N, Totals(NonceSums(ks, b))[n], NonceTotal(ks, 1) + b * NonceTotal(ks, 2))
      BY <1>3, NonceSumsTotal
    <3> QED BY <1>3, <3>1, Zenon DEF a, c
  <2> HIDE DEF S, t
  <2>3. k \in 0..(N - 1) /\ k \in Int /\ Cong(N, t, k) /\ N \in Nat \ {0}
    BY <2>1, CurveNumbers, DivMod, CongMod
  <2>4. Cong(N, S, k)
    BY <2>1, <2>2, <2>3, CongTrans
  <2> HIDE DEF k
  <2>5. k # 0
    BY <1>6, <2>3, MultiplesPoints DEF R
  <2>6. k \in 1..(N - 1)
    BY <2>3, <2>5
  <2>7. nonce.R = Multiples[k]
    BY <1>3, <1>6 DEF R
  <2> QED BY <2>4, <2>6, <2>7 DEF S
<1> HIDE DEF pair, e
<1>7. computeSigningNonce(Combination(ks), key, m) = nonce
  BY <1>1 DEF nonce
<1> QED BY <1>3, <1>4, <1>5, <1>6, <1>7, Zenon DEF e

\* The tweaked key as the multiple of the parties' sum.
LEMMA AggregateFactor ==
    ASSUME NEW s \in Scenarios, NEW keys \in Orders(s), NEW agg, agg = AggregateFor(s, keys),
           agg.ok
    PROVE  /\ agg \in Accumulated /\ agg.key \in OnCurve /\ Weighted(s, keys) \in Int
           /\ \E l \in 1..(N - 1) :
                 /\ agg.key = Multiples[l]
                 /\ Cong(N, l, agg.parityAcc * Weighted(s, keys) + agg.tweakAcc)
<1> DEFINE w == Weighted(s, keys)
           p == agg.parityAcc
           v == agg.tweakAcc
           pw == p * w
           l == (pw + v) % N
<1>1. agg \in Accumulated /\ KeyOf(w, agg) /\ agg.key # Infinity
  BY AggregatedKey, Zenon
<1>2. w \in Int /\ p \in Int /\ v \in Int /\ agg.key \in Group
  BY <1>1, CombinedKey DEF Accumulated
<1>3. agg.key = Multiples[l]
  BY <1>1, Zenon DEF KeyOf
<1> HIDE DEF w, p, v
<1>4. pw \in Int
  BY <1>2, Ring
<1> HIDE DEF pw
<1> DEFINE t == pw + v
<1>5. t \in Int /\ l = t % N
  BY <1>2, <1>4
<1> HIDE DEF t, l
<1>6. l \in 0..(N - 1) /\ Cong(N, l, t)
  BY <1>5, CurveNumbers, DivMod, CongMod
<1>7. l # 0
  BY <1>1, <1>3, <1>6, MultiplesPoints
<1>8. l \in 1..(N - 1)
  BY <1>6, <1>7, CurveNumbers
<1>9. agg.key \in OnCurve
  BY <1>1, <1>2 DEF Group
<1> QED BY <1>1, <1>2, <1>3, <1>6, <1>8, <1>9, Zenon DEF t, pw, p, v, w

LEMMA SameSign == \A pt : EvenFactor(pt) = Sign1(pt)
  BY DEF EvenFactor, Sign1

\* The sum of all parties' partial signatures and of the tweaks' part is a
\* Schnorr signature of the message for the combined key, unless the nonces
\* cancel: whatever the oddness of the nonce, of the combined key and of the
\* key before each tweak (sign.go 679-737, keys.go 267-323).
THEOREM FinalSum ==
    ASSUME NEW s \in Scenarios, NEW keys \in Orders(s), NEW agg, agg = AggregateFor(s, keys),
           agg.ok, NEW ks \in [SecretKeys(s) -> NoncePairs], NEW m \in Messages,
           ~NoncesCancel(agg.key, ks, m)
    PROVE  schnorrVerify(FinalSignature(s, keys, agg, ks, m), m, agg.key[1])
<1> DEFINE n == Len(s.keys)
           nonce == computeSigningNonce(Combination(ks), agg.key, m)
           sigs == PartialSigs(s, keys, agg, ks, nonce, m)
           sum == Totals(sigs)[n]
           nsum == Totals(NonceSums(ks, nonce.b))[n]
           e == challenge(nonce.R, agg.key, m)
           g == KeyFactor(agg)
           w == Weighted(s, keys)
           t == agg.tweakAcc
           f == Sign1(agg.key)
           p == agg.parityAcc
           u == Sign1(nonce.R)
           tp == TweakProduct(agg, nonce.R, m)
           sig == FinalSignature(s, keys, agg, ks, m)
<1>1. n \in Nat /\ SecretKeys(s) = 1..n
  BY ScenarioTypes
<1>2. agg \in Accumulated /\ agg.key \in OnCurve /\ w \in Int
  BY AggregateFactor
<1>3. PICK l \in 1..(N - 1) : agg.key = Multiples[l] /\ Cong(N, l, p * w + t)
  BY AggregateFactor
<1>4. ks \in [1..n -> NoncePairs]
  BY <1>1
<1>5. nonce.b \in Int /\ nonce.R \in OnCurve /\ e \in 0..(N - 1) /\ e \in Int
  <2> HIDE DEF n
  <2> QED BY <1>1, <1>2, <1>4, NonceFactor
<1>6. PICK k \in 1..(N - 1) : nonce.R = Multiples[k] /\ Cong(N, nsum, k)
  <2> HIDE DEF n
  <2>1. \E k \in 1..(N - 1) : nonce.R = Multiples[k] /\ Cong(N, nsum, k)
    BY <1>1, <1>2, <1>4, NonceFactor, Zenon
  <2> QED BY <2>1
<1>7. SigsTotal(s, keys, agg, ks, nonce, m)
  <2> HIDE DEF nonce
  <2> QED BY <1>2, <1>5, PartialSigsTotal
<1>8. sum \in Int /\ Cong(N, sum, u * nsum + (e * g) * w)
  BY <1>7, Zenon DEF SigsTotal
<1>9. /\ g \in Int /\ Cong(N, g, f * p) /\ f \in Int /\ u \in Int /\ p \in Int /\ t \in Int
  BY <1>2, KeyFactorType, FactorType DEF Accumulated
<1>10. tp \in Int /\ Cong(N, tp, (e * t) * f)
  <2> DEFINE et == e * t
             etf == et * f
  <2> HIDE DEF nonce
  <2>1. tp = etf % N
    BY Zenon DEF TweakProduct
  <2> HIDE DEF e, t, f, tp
  <2>2. et \in Int
    BY <1>5, <1>9, Ring
  <2> HIDE DEF et
  <2>3. etf \in Int
    BY <1>9, <2>2, Ring
  <2> HIDE DEF etf
  <2>4. etf % N \in Int /\ Cong(N, etf % N, etf)
    BY <2>3, CurveNumbers, DivMod, CongMod
  <2> QED BY <2>1, <2>4, Zenon DEF etf, et
<1>11. nsum \in Int
  <2> HIDE DEF n, nonce
  <2> QED BY <1>1, <1>4, <1>5, NonceSumsTotal
<1>12. /\ EvenKey(l) \in Int /\ EvenKey(k) \in Int /\ k \in Int /\ l \in Int
       /\ Cong(N, EvenKey(l), f * l) /\ Cong(N, EvenKey(k), u * k)
  <2> HIDE DEF nonce
  <2>1. EvenKey(l) \in 1..(N - 1) /\ EvenKey(k) \in 1..(N - 1)
    BY EvenPoint
  <2>2. Cong(N, EvenKey(l), f * l) /\ Cong(N, EvenKey(k), u * k)
    BY <1>3, <1>6, EvenKeyFactor, SameSign
  <2> QED BY <2>1, <2>2, CurveNumbers
<1>13. Len(sigs) = n
  <2> HIDE DEF nonce
  <2> QED BY <1>1 DEF PartialSigs
<1>14. sig.r = nonce.R[1] /\ sig.s = (sum + tp) % N
  BY <1>13, Zenon DEF FinalSignature, CombineSigs
<1> HIDE DEF nonce, sum, nsum, g, w, t, f, p, u, tp, sig
<1>15. (sum + tp) % N = (e * EvenKey(l) + EvenKey(k)) % N
  <2> DEFINE el == EvenKey(l)
             ek == EvenKey(k)
  <2>1. /\ e \in Int /\ g \in Int /\ w \in Int /\ t \in Int /\ f \in Int /\ p \in Int
        /\ l \in Int /\ el \in Int /\ u \in Int /\ nsum \in Int /\ k \in Int /\ ek \in Int
        /\ sum \in Int /\ tp \in Int
    BY <1>2, <1>5, <1>8, <1>9, <1>10, <1>11, <1>12
  <2>2. /\ Cong(N, g, f * p) /\ Cong(N, l, p * w + t) /\ Cong(N, el, f * l)
        /\ Cong(N, nsum, k) /\ Cong(N, ek, u * k)
        /\ Cong(N, sum, u * nsum + (e * g) * w) /\ Cong(N, tp, (e * t) * f)
    BY <1>3, <1>6, <1>8, <1>9, <1>10, <1>12
  <2> HIDE DEF e, el, ek
  <2> DEFINE a == u * nsum
             eg == e * g
             b == eg * w
             et == e * t
             c == et * f
             x == e * el
  <2>3. Cong(N, b + c, x)
    BY <2>1, <2>2, TweakedPart
  <2>4. Cong(N, a, ek)
    BY <2>1, <2>2, NoncePart
  <2>5. a \in Int /\ b \in Int /\ c \in Int /\ x \in Int
    <3>1. a \in Int /\ eg \in Int /\ et \in Int /\ x \in Int
      BY <2>1, Ring
    <3> HIDE DEF a, eg, et, x
    <3>2. b \in Int /\ c \in Int
      BY <2>1, <3>1, Ring
    <3> QED BY <3>1, <3>2
  <2>6. Cong(N, sum, a + b) /\ Cong(N, tp, c)
    BY <2>2
  <2> HIDE DEF a, b, c, x
  <2>7. (sum + tp) % N = (x + ek) % N
    <3>1. sum \in Int /\ tp \in Int /\ ek \in Int
      BY <2>1
    <3> HIDE DEF eg, et, n, sigs
    <3> DEFINE ab == a + b
               bc == b + c
    <3>2. ab \in Int /\ bc \in Int /\ ab + c = a + bc /\ ek + x = x + ek
          /\ sum + tp \in Int /\ x + ek \in Int /\ a + bc \in Int
      BY <2>5, <3>1
    <3>3. Cong(N, sum, ab) /\ Cong(N, bc, x) /\ N \in Nat \ {0}
      BY <2>3, <2>6, CurveNumbers
    <3> HIDE DEF ab, bc
    <3>4. Cong(N, sum + tp, ab + c)
      BY <2>5, <2>6, <3>1, <3>2, <3>3, CongPlus
    <3>5. Cong(N, a + bc, ek + x)
      BY <2>4, <2>5, <3>1, <3>2, <3>3, CongPlus
    <3>6. Cong(N, sum + tp, x + ek)
      BY <3>2, <3>3, <3>4, <3>5, CongTrans
    <3> QED BY <3>2, <3>3, <3>6, CongIff
  <2> QED BY <2>7 DEF x, el, ek
<1>16. e = ChallengeHash(sig.r, Multiples[l][1], m) % N /\ sig.r = Multiples[k][1]
  BY <1>3, <1>6, <1>14, Zenon DEF challenge
<1>17. sig.s = (e * EvenKey(l) + EvenKey(k)) % N
  BY <1>14, <1>15, Zenon
<1> HIDE DEF e
<1>18. schnorrVerify(sig, m, Multiples[l][1])
  BY <1>5, <1>16, <1>17, SchnorrVerifies
<1> QED BY <1>3, <1>18 DEF sig

-----------------------------------------------------------------------------
(* Sorting.                                                                *)

LEMMA BijectionIs ==
    ASSUME NEW D, NEW p
    PROVE  p \in Bijection(D, D) <=>
              /\ p \in [D -> D]
              /\ \A i, j \in D : p[i] = p[j] => i = j
              /\ \A j \in D : \E i \in D : p[i] = j
  BY DEF Bijection, Injection, Surjection, IsInjective

LEMMA BijectionsCompose ==
    ASSUME NEW D, NEW p \in Bijection(D, D), NEW q \in Bijection(D, D)
    PROVE  [i \in D |-> p[q[i]]] \in Bijection(D, D)
<1> DEFINE r == [i \in D |-> p[q[i]]]
<1>1. /\ p \in [D -> D] /\ \A i, j \in D : p[i] = p[j] => i = j
      /\ \A j \in D : \E i \in D : p[i] = j
  BY BijectionIs
<1>2. /\ q \in [D -> D] /\ \A i, j \in D : q[i] = q[j] => i = j
      /\ \A j \in D : \E i \in D : q[i] = j
  BY BijectionIs
<1>3. r \in [D -> D] /\ \A i \in D : r[i] = p[q[i]] /\ q[i] \in D
  BY <1>1, <1>2
<1> HIDE DEF r
<1>4. \A i, j \in D : r[i] = r[j] => i = j
  BY <1>1, <1>2, <1>3
<1>5. \A j \in D : \E i \in D : r[i] = j
  <2> SUFFICES ASSUME NEW j \in D PROVE \E i \in D : r[i] = j
    OBVIOUS
  <2>1. PICK l \in D : p[l] = j
    BY <1>1
  <2>2. PICK i \in D : q[i] = l
    BY <1>2
  <2> QED BY <1>3, <2>1, <2>2
<1> QED BY <1>3, <1>4, <1>5, BijectionIs DEF r

LEMMA LeastValue ==
    ASSUME NEW T, T # {}, NEW f \in [T -> Nat]
    PROVE  \E g \in T : \A i \in T : f[g] <= f[i]
<1> DEFINE V == {f[i] : i \in T}
<1>1. V \subseteq Nat /\ V # {}
  OBVIOUS
<1>2. PICK v \in V : \A y \in V : ~(<<y, v>> \in OpToRel(<, Nat))
  <2> HIDE DEF V
  <2> QED BY <1>1, NatLessThanWellFounded, WFMin
<1>3. PICK g \in T : f[g] = v
  BY <1>2
<1>4. ASSUME NEW i \in T PROVE f[g] <= f[i]
  <2> DEFINE y == f[i]
  <2>1. y \in V /\ y \in Nat /\ v \in Nat
    BY <1>1
  <2> HIDE DEF V, y
  <2>2. y < v => <<y, v>> \in OpToRel(<, Nat)
    BY <2>1, Zenon DEF OpToRel
  <2>3. ~(y < v)
    BY <1>2, <2>1, <2>2, Zenon
  <2>4. v <= y
    BY <2>1, <2>3
  <2> QED BY <1>3, <2>4 DEF y
<1> QED BY <1>4

\* A sequence of numbers can be sorted.
LEMMA SortingExists ==
    ASSUME NEW n \in Nat, NEW f \in [1..n -> Nat]
    PROVE  \E p \in Bijection(1..n, 1..n) : \A i, j \in 1..n : i < j => f[p[i]] <= f[p[j]]
<1> DEFINE D == 1..n
           Upto(m, p) == \A i, j \in D : i <= m /\ i < j => f[p[i]] <= f[p[j]]
           S == {m \in 0..n : \E p \in Bijection(D, D) : Upto(m, p)}
<1>1. 0 \in S
  <2> DEFINE p == [i \in D |-> i]
  <2>1. p \in [D -> D] /\ \A i \in D : p[i] = i
    OBVIOUS
  <2>2. p \in Bijection(D, D)
    <3> HIDE DEF p, D
    <3> QED BY <2>1, BijectionIs
  <2>3. Upto(0, p)
    OBVIOUS
  <2>4. 0 \in 0..n
    OBVIOUS
  <2> HIDE DEF p, Upto, D
  <2> QED BY <2>2, <2>3, <2>4
<1>2. ASSUME NEW m \in 0..(n - 1), m \in S PROVE m + 1 \in S
  <2>1. PICK p \in Bijection(D, D) : Upto(m, p)
    BY <1>2
  <2> DEFINE a == m + 1
             T == a..n
  <2>2. a \in T /\ T \subseteq D /\ a \in D /\ a \in Nat /\ a \in 0..n
    OBVIOUS
  <2>3. /\ p \in [D -> D] /\ \A i, j \in D : p[i] = p[j] => i = j
        /\ \A j \in D : \E i \in D : p[i] = j
    BY BijectionIs
  <2>4. PICK g \in T : \A i \in T : f[p[g]] <= f[p[i]]
    <3> DEFINE h == [i \in T |-> f[p[i]]]
    <3>1. h \in [T -> Nat] /\ T # {}
      BY <2>2, <2>3
    <3>2. \E g \in T : \A i \in T : h[g] <= h[i]
      <4> HIDE DEF h, T
      <4> QED BY <3>1, LeastValue
    <3> QED BY <3>2
  <2> DEFINE swap == [i \in D |-> IF i = a THEN g ELSE IF i = g THEN a ELSE i]
             q == [i \in D |-> p[swap[i]]]
  <2>5. swap \in Bijection(D, D)
    <3>1. swap \in [D -> D] /\ \A i \in D : swap[swap[i]] = i
      BY <2>2
    <3> HIDE DEF swap, D, T
    <3> QED BY <3>1, BijectionIs
  <2>6. q \in Bijection(D, D)
    <3> HIDE DEF swap, D
    <3> QED BY <2>5, BijectionsCompose
  <2>7. Upto(a, q)
    <3> SUFFICES ASSUME NEW i \in D, NEW j \in D, i <= a, i < j
                 PROVE  f[q[i]] <= f[q[j]]
      OBVIOUS
    <3>1. q[i] = p[swap[i]] /\ q[j] = p[swap[j]] /\ swap[j] \in D
      BY <2>2
    <3>2. CASE i = a
      <4>1. swap[i] = g /\ swap[j] \in T
        BY <2>2, <3>2
      <4> QED BY <2>4, <3>1, <4>1
    <3>3. CASE i # a
      <4>1. i <= m /\ swap[i] = i /\ i < swap[j]
        BY <2>2, <3>3
      <4> QED BY <2>1, <3>1, <4>1
    <3> QED BY <3>2, <3>3
  <2> HIDE DEF q, Upto, D
  <2> QED BY <2>2, <2>6, <2>7
<1>3. n \in S
  <2>1. S \subseteq 0..n /\ n \in 0..n
    OBVIOUS
  <2> HIDE DEF S
  <2>2. \A m \in 0..n : m \in S
    BY <1>1, <1>2, <2>1, UpTo
  <2> QED BY <2>1, <2>2
<1>4. PICK p \in Bijection(D, D) : Upto(n, p)
  BY <1>3
<1> QED BY <1>4

\* One that is sorted is nowhere above another of the same numbers.
LEMMA SortedBelow ==
    ASSUME NEW n \in Nat, NEW f \in [1..n -> Nat],
           NEW p \in Bijection(1..n, 1..n), NEW q \in Bijection(1..n, 1..n),
           \A i, j \in 1..n : i < j => f[p[i]] <= f[p[j]],
           \A i, j \in 1..n : i < j => f[q[i]] <= f[q[j]],
           NEW m \in 1..n
    PROVE  f[q[m]] <= f[p[m]]
<1> DEFINE D == 1..n
<1>1. /\ p \in [D -> D] /\ \A i, j \in D : p[i] = p[j] => i = j
      /\ q \in [D -> D] /\ \A j \in D : \E i \in D : q[i] = j
  <2>0. p \in Bijection(D, D) /\ q \in Bijection(D, D)
    OBVIOUS
  <2> HIDE DEF D
  <2>1. p \in [D -> D] /\ \A i, j \in D : p[i] = p[j] => i = j
    BY <2>0, BijectionIs, Zenon
  <2>2. q \in [D -> D] /\ \A j \in D : \E i \in D : q[i] = j
    BY <2>0, BijectionIs, Zenon
  <2> QED BY <2>1, <2>2
<1>2. \A i \in D : f[p[i]] \in Nat /\ f[q[i]] \in Nat
  BY <1>1
<1> SUFFICES ASSUME f[p[m]] < f[q[m]] PROVE FALSE
  BY <1>2
<1> DEFINE r == [i \in 1..m |-> CHOOSE j \in D : q[j] = p[i]]
<1>3. ASSUME NEW i \in 1..m
      PROVE  r[i] \in 1..(m - 1) /\ q[r[i]] = p[i]
  <2>1. i \in D /\ p[i] \in D
    <3>1. i \in D
      OBVIOUS
    <3> QED BY <1>1, <3>1
  <2>2. r[i] \in D /\ q[r[i]] = p[i]
    BY <1>1, <2>1
  <2> HIDE DEF r
  <2>3. f[p[i]] <= f[p[m]]
    <3>1. CASE i = m
      BY <1>2, <3>1
    <3>2. CASE i # m
      BY <2>1, <3>2
    <3> QED BY <3>1, <3>2
  <2>4. ~(m <= r[i])
    <3> SUFFICES ASSUME m <= r[i] PROVE FALSE
      OBVIOUS
    <3>1. f[q[m]] <= f[q[r[i]]]
      <4>1. CASE r[i] = m
        BY <1>2, <4>1
      <4>2. CASE r[i] # m
        BY <2>2, <4>2
      <4> QED BY <4>1, <4>2
    <3> QED BY <1>2, <2>1, <2>2, <2>3, <3>1
  <2> QED BY <2>2, <2>4
<1>4. r \in [1..m -> 1..(m - 1)]
  BY <1>3
<1> HIDE DEF r
<1>5. /\ IsFiniteSet(1..m) /\ Cardinality(1..m) = m
      /\ IsFiniteSet(1..(m - 1)) /\ Cardinality(1..(m - 1)) = m - 1
  <2>1. 1 \in Int /\ m \in Int /\ m - 1 \in Int /\ ~(1 > m) /\ (1 > m - 1 => m - 1 = 0)
        /\ m - 1 + 1 = m /\ m - 1 - 1 + 1 = m - 1
    OBVIOUS
  <2> QED BY <2>1, FS_Interval
<1>6. PICK i \in 1..m, j \in 1..m : i # j /\ r[i] = r[j]
  <2>1. Cardinality(1..(m - 1)) < Cardinality(1..m)
    BY <1>5
  <2> QED BY <1>4, <1>5, <2>1, FS_PigeonHole
<1>7. p[i] = p[j] /\ i \in D /\ j \in D
  <2>1. i \in D /\ j \in D
    OBVIOUS
  <2> QED BY <1>3, <1>6, <2>1
<1> QED BY <1>1, <1>6, <1>7

\* The compressed form is another for every point.
LEMMA CompressedIs ==
    ASSUME NEW a \in OnCurve
    PROVE  Compressed(a) \in Nat /\ \A b \in OnCurve : Compressed(a) = Compressed(b) => a = b
<1>1. \A c \in OnCurve : c[1] \in 0..(P - 1) /\ c = <<c[1], c[2]>>
  BY CurvePoint
<1>2. P \in Nat \ {0}
  BY CurveNumbers
<1>3. Compressed(a) \in Nat
  BY <1>1, <1>2 DEF Compressed
<1>4. ASSUME NEW b \in OnCurve, Compressed(a) = Compressed(b) PROVE a = b
  <2> DEFINE x == a[1]
             y == b[1]
             odd == IsOdd(a[2])
             odder == IsOdd(b[2])
  <2>1. x \in 0..(P - 1) /\ y \in 0..(P - 1) /\ odd \in BOOLEAN /\ odder \in BOOLEAN
    BY <1>1 DEF IsOdd
  <2>2. (IF odd THEN P ELSE 0) + x = (IF odder THEN P ELSE 0) + y
    BY <1>4 DEF Compressed
  <2> HIDE DEF x, y, odd, odder
  <2>3. x = y /\ odd = odder
    BY <1>2, <2>1, <2>2
  <2>4. DecompressY(x, odd).y = a[2]
    BY <2>1, DecompressPoint DEF x, odd
  <2>5. DecompressY(y, odder).y = b[2]
    BY <2>1, DecompressPoint DEF y, odder
  <2>6. a[1] = b[1] /\ a[2] = b[2]
    BY <2>3, <2>4, <2>5 DEF x, y
  <2>7. a = <<a[1], a[2]>> /\ b = <<b[1], b[2]>>
    BY <1>1
  <2> QED BY <2>6, <2>7, Zenon
<1> QED BY <1>3, <1>4

PointsInOrder(keys, p) ==
    \A i, j \in 1..Len(keys) :
        i < j => Compressed(keys[p[i]]) <= Compressed(keys[p[j]])

\* Sorting finds an order.
LEMMA SortedIs ==
    ASSUME NEW n \in Nat, NEW keys \in [1..n -> OnCurve]
    PROVE  \E p \in Bijection(1..n, 1..n) :
              /\ sortKeys(keys) = [i \in 1..n |-> keys[p[i]]]
              /\ PointsInOrder(keys, p)
<1> DEFINE D == 1..Len(keys)
           f == [i \in D |-> Compressed(keys[i])]
           Sorts(p) == \A i, j \in D : i < j => ~Less(keys[p[j]], keys[p[i]])
           p == CHOOSE p \in Bijection(D, D) : Sorts(p)
<1>1. Len(keys) = n /\ D = 1..n
  OBVIOUS
<1>2. sortKeys(keys) = [i \in D |-> keys[p[i]]]
  BY Zenon DEF sortKeys
<1>3. ASSUME NEW q \in Bijection(D, D)
      PROVE  /\ \A i \in D : q[i] \in D /\ f[q[i]] = Compressed(keys[q[i]])
                             /\ f[q[i]] \in Nat
             /\ Sorts(q) <=> \A i, j \in D : i < j => f[q[i]] <= f[q[j]]
  <2>1. \A i \in D : q[i] \in D
    <3> HIDE DEF D
    <3>1. q \in [D -> D]
      BY BijectionIs
    <3> QED BY <3>1
  <2>2. \A i \in D : Compressed(keys[q[i]]) \in Nat /\ f[q[i]] = Compressed(keys[q[i]])
    BY <2>1, CompressedIs
  <2>3. \A i, j \in D : ~Less(keys[q[j]], keys[q[i]]) <=> f[q[i]] <= f[q[j]]
    BY <2>2 DEF Less
  <2> QED BY <2>1, <2>2, <2>3
<1>4. f \in [D -> Nat]
  BY CompressedIs
<1>5. \E q \in Bijection(D, D) : Sorts(q)
  <2>1. PICK q \in Bijection(D, D) : \A i, j \in D : i < j => f[q[i]] <= f[q[j]]
    <3> HIDE DEF f, D
    <3>1. f \in [1..n -> Nat]
      BY <1>1, <1>4
    <3>2. \E q \in Bijection(1..n, 1..n) : \A i, j \in 1..n : i < j => f[q[i]] <= f[q[j]]
      BY <3>1, SortingExists
    <3> QED BY <1>1, <3>2
  <2> HIDE DEF Sorts, f, D
  <2> QED BY <1>3, <2>1
<1>6. p \in Bijection(D, D) /\ Sorts(p)
  <2> HIDE DEF Sorts, D
  <2> QED BY <1>5, Zenon
<1> HIDE DEF p, f, Sorts, D
<1>7. PointsInOrder(keys, p)
  BY <1>3, <1>6 DEF PointsInOrder, D
<1> QED BY <1>1, <1>2, <1>6, <1>7

\* What is sorted is an order of the same keys.
LEMMA SortedOrder ==
    ASSUME NEW s \in Scenarios, NEW keys \in Orders(s)
    PROVE  \E p \in Bijection(SecretKeys(s), SecretKeys(s)) :
              /\ sortKeys(keys) = [n \in SecretKeys(s) |-> Times(s.keys[p[n]], G)]
              /\ \A i, j \in SecretKeys(s) :
                    i < j => Compressed(Times(s.keys[p[i]], G)) <= Compressed(Times(s.keys[p[j]], G))
<1> DEFINE n == Len(s.keys)
           D == SecretKeys(s)
<1>1. n \in Nat /\ D = 1..n /\ Len(keys) = n
  BY ScenarioTypes, OrderOfKeys
<1>2. PICK q \in Bijection(D, D) : keys = [i \in D |-> Times(s.keys[q[i]], G)]
  BY OrderOfKeys
<1>3. q \in [D -> D]
  <2> HIDE DEF D
  <2> QED BY BijectionIs
<1>4. \A j \in D : Times(s.keys[j], G) \in OnCurve
  <2>1. ASSUME NEW j \in D PROVE Times(s.keys[j], G) \in OnCurve
    <3>1. s.keys[j] \in 1..(N - 1) /\ s.keys[j] \in 0..(N - 1)
          /\ Times(s.keys[j], G) = Multiples[s.keys[j]]
      BY ScenarioTypes
    <3>2. s.keys[j] # 0
      BY <3>1
    <3> QED BY <3>1, <3>2, MultiplesPoints
  <2> QED BY <2>1
<1>5. keys \in [1..n -> OnCurve]
  BY <1>1, <1>2, <1>3, <1>4
<1>6. PICK p \in Bijection(1..n, 1..n) :
         sortKeys(keys) = [i \in 1..n |-> keys[p[i]]] /\ PointsInOrder(keys, p)
  <2> HIDE DEF n
  <2> QED BY <1>1, <1>5, SortedIs
<1>7. p \in Bijection(D, D)
  BY <1>1
<1>8. p \in [D -> D]
  <2> HIDE DEF D
  <2> QED BY <1>7, BijectionIs
<1> DEFINE r == [i \in D |-> q[p[i]]]
<1>9. r \in Bijection(D, D) /\ \A i \in D : r[i] = q[p[i]]
  <2>1. \A i \in D : r[i] = q[p[i]]
    OBVIOUS
  <2>2. r \in Bijection(D, D)
    <3> HIDE DEF D
    <3> QED BY <1>2, <1>7, BijectionsCompose
  <2> QED BY <2>1, <2>2
<1> HIDE DEF r, D, n
<1>10. \A i \in D : keys[p[i]] = Times(s.keys[r[i]], G)
  BY <1>2, <1>8, <1>9
<1>11. sortKeys(keys) = [i \in D |-> Times(s.keys[r[i]], G)]
  BY <1>1, <1>6, <1>10
<1>12. \A i, j \in D : i < j =>
          Compressed(Times(s.keys[r[i]], G)) <= Compressed(Times(s.keys[r[j]], G))
  BY <1>1, <1>6, <1>10 DEF PointsInOrder
<1> QED BY <1>9, <1>11, <1>12 DEF D

\* In whatever order the keys are listed, sorting gives the same sequence of
\* them, also where parties have equal keys (keys.go 36-69).
THEOREM SortedAlike ==
    ASSUME NEW s \in Scenarios, NEW keys \in Orders(s), NEW others \in Orders(s)
    PROVE  sortKeys(keys) \in Orders(s) /\ sortKeys(keys) = sortKeys(others)
<1> DEFINE n == Len(s.keys)
           D == SecretKeys(s)
           pt == [j \in D |-> Times(s.keys[j], G)]
           f == [j \in D |-> Compressed(pt[j])]
<1>1. n \in Nat /\ D = 1..n
  BY ScenarioTypes
<1>2. PICK p \in Bijection(D, D) :
         /\ sortKeys(keys) = [i \in D |-> Times(s.keys[p[i]], G)]
         /\ \A i, j \in D : i < j =>
               Compressed(Times(s.keys[p[i]], G)) <= Compressed(Times(s.keys[p[j]], G))
  <2> HIDE DEF D
  <2> QED BY SortedOrder DEF D
<1>3. PICK q \in Bijection(D, D) :
         /\ sortKeys(others) = [i \in D |-> Times(s.keys[q[i]], G)]
         /\ \A i, j \in D : i < j =>
               Compressed(Times(s.keys[q[i]], G)) <= Compressed(Times(s.keys[q[j]], G))
  <2> HIDE DEF D
  <2> QED BY SortedOrder DEF D
<1>4. sortKeys(keys) \in Orders(s)
  BY <1>2 DEF Orders, SecretKeys
<1>5. \A i \in D : p[i] \in D /\ q[i] \in D
  <2> HIDE DEF D
  <2>1. p \in [D -> D] /\ q \in [D -> D]
    BY BijectionIs
  <2> QED BY <2>1
<1>6. ASSUME NEW j \in D PROVE pt[j] \in OnCurve
  <2>1. s.keys[j] \in 1..(N - 1) /\ s.keys[j] \in 0..(N - 1)
        /\ Times(s.keys[j], G) = Multiples[s.keys[j]]
    BY ScenarioTypes
  <2>2. s.keys[j] # 0
    BY <2>1
  <2> QED BY <2>1, <2>2, MultiplesPoints
<1>7. /\ \A i \in D : pt[i] = Times(s.keys[i], G)
      /\ sortKeys(keys) = [i \in D |-> pt[p[i]]] /\ sortKeys(others) = [i \in D |-> pt[q[i]]]
  <2> HIDE DEF D
  <2> QED BY <1>2, <1>3, <1>5
<1>8. f \in [D -> Nat] /\ \A i \in D : f[i] = Compressed(pt[i])
  <2> HIDE DEF D, pt
  <2> QED BY <1>6, CompressedIs
<1>9. /\ \A i, j \in D : i < j => f[p[i]] <= f[p[j]]
      /\ \A i, j \in D : i < j => f[q[i]] <= f[q[j]]
  <2> HIDE DEF D, f, pt
  <2> QED BY <1>2, <1>3, <1>5, <1>7, <1>8
<1> HIDE DEF f, pt, n
<1>10. ASSUME NEW m \in D PROVE pt[p[m]] = pt[q[m]]
  <2>1. p \in Bijection(1..n, 1..n) /\ q \in Bijection(1..n, 1..n) /\ f \in [1..n -> Nat]
        /\ m \in 1..n
    BY <1>1, <1>8
  <2>2. /\ \A i, j \in 1..n : i < j => f[p[i]] <= f[p[j]]
        /\ \A i, j \in 1..n : i < j => f[q[i]] <= f[q[j]]
    BY <1>1, <1>9
  <2>3. f[q[m]] <= f[p[m]]
    BY <1>1, <2>1, <2>2, SortedBelow
  <2>4. f[p[m]] <= f[q[m]]
    BY <1>1, <2>1, <2>2, SortedBelow
  <2> HIDE DEF D
  <2>5. f[p[m]] = f[q[m]]
    <3>1. f[p[m]] \in Nat /\ f[q[m]] \in Nat
      BY <1>5, <1>8
    <3> QED BY <2>3, <2>4, <3>1
  <2>6. Compressed(pt[p[m]]) = Compressed(pt[q[m]])
    BY <1>5, <1>8, <2>5
  <2> QED BY <1>5, <1>6, <2>6, CompressedIs
<1>11. sortKeys(keys) = sortKeys(others)
  <2> HIDE DEF D
  <2> QED BY <1>7, <1>10
<1> QED BY <1>4, <1>11

-----------------------------------------------------------------------------
(* What the parties of a scenario agree on.                                *)

Listing(s) == [j \in SecretKeys(s) |-> Times(s.keys[j], G)]

\* The keys as every party holds them at last, and the key they combine to.
AgreedKeys(s) == IF s.sort THEN sortKeys(Listing(s)) ELSE Listing(s)
AgreedKey(s) == AggregateFor(s, AgreedKeys(s))

\* The nonces of a session, and a party's signature with its own.
\* The nonce of a party for a session: the caller's if it gives one, unless an
\* early one goes before it.
HeldNumber(s, j, k) ==
    IF s.given[j][k] # 0 /\ ~(s.early /\ k = 1) THEN s.sessions + s.given[j][k] ELSE k

HeldNonces(s, k) ==
    [j \in SecretKeys(s) |-> Nonce(j, s.keys[j], HeldNumber(s, j, k))]

AgreedNonce(s, k, m) ==
    computeSigningNonce(Combination(HeldNonces(s, k)), AgreedKey(s).key, m)

OwnSig(s, i, k, m) ==
    PartialSig(AgreedKey(s), AgreedKeys(s), s.keys[i], HeldNonces(s, k)[i],
               AgreedNonce(s, k, m), m)

LEMMA ListingsAre ==
    ASSUME NEW s \in Scenarios
    PROVE  /\ Listing(s) \in Orders(s) /\ Reverse(Listing(s)) \in Orders(s)
           /\ AgreedKeys(s) \in Orders(s)
           /\ s.sort => \A keys \in Orders(s) : sortKeys(keys) = AgreedKeys(s)
           /\ ~s.sort => AgreedKeys(s) = Listing(s)
<1> DEFINE n == Len(s.keys)
           D == 1..n
<1>1. n \in Nat \ {0} /\ SecretKeys(s) = D
  BY ScenarioTypes
<1>2. Listing(s) \in Orders(s)
  <2> DEFINE p == [i \in D |-> i]
  <2>1. p \in [D -> D] /\ \A i \in D : p[i] = i
    OBVIOUS
  <2> HIDE DEF p
  <2>2. p \in Bijection(D, D)
    <3> HIDE DEF D
    <3> QED BY <2>1, BijectionIs
  <2>3. Listing(s) = [i \in D |-> Times(s.keys[p[i]], G)]
    BY <1>1, <2>1 DEF Listing
  <2> QED BY <2>2, <2>3 DEF Orders
<1>3. Reverse(Listing(s)) \in Orders(s)
  <2> DEFINE p == [i \in D |-> n - i + 1]
  <2>1. p \in [D -> D] /\ \A i \in D : p[p[i]] = i
    BY <1>1
  <2>2. p \in Bijection(D, D)
    <3> HIDE DEF p, D
    <3> QED BY <2>1, BijectionIs
  <2>3. Len(Listing(s)) = n
    BY <1>1 DEF Listing
  <2>4. Reverse(Listing(s)) = [i \in D |-> Listing(s)[n - i + 1]]
    BY <2>3 DEF Reverse
  <2>5. \A i \in D : Listing(s)[n - i + 1] = Times(s.keys[p[i]], G)
    BY <1>1 DEF Listing
  <2> HIDE DEF p
  <2>6. Reverse(Listing(s)) = [i \in D |-> Times(s.keys[p[i]], G)]
    BY <2>4, <2>5
  <2> QED BY <2>2, <2>6 DEF Orders
<1>4. s.sort => \A keys \in Orders(s) : sortKeys(keys) = AgreedKeys(s)
  BY <1>2, SortedAlike DEF AgreedKeys
<1>5. AgreedKeys(s) \in Orders(s)
  BY <1>2, SortedAlike DEF AgreedKeys
<1>6. ~s.sort => AgreedKeys(s) = Listing(s)
  BY DEF AgreedKeys
<1> QED BY <1>2, <1>3, <1>4, <1>5, <1>6

LEMMA HeldNoncesAre ==
    ASSUME NEW s \in Scenarios, NEW k \in 1..s.sessions
    PROVE  HeldNonces(s, k) \in [SecretKeys(s) -> NoncePairs]
<1>1. ASSUME NEW i \in 1..Len(s.keys)
      PROVE  Nonce(i, s.keys[i], HeldNumber(s, i, k)) \in (0..(N - 1)) \X (0..(N - 1))
  <2>1. \A n \in {k, s.sessions + s.given[i][k]} :
            Nonce(i, s.keys[i], n) \in (0..(N - 1)) \X (0..(N - 1))
    BY TaggedHashes
  <2>2. HeldNumber(s, i, k) \in {k, s.sessions + s.given[i][k]}
    BY Zenon DEF HeldNumber
  <2> QED BY <2>1, <2>2
<1> QED BY <1>1 DEF HeldNonces, NoncePairs, SecretKeys

\* Two sessions have one nonce only if the caller gave it to both.
LEMMA NumbersDiffer ==
    ASSUME NEW s \in Scenarios, NEW i \in 1..Len(s.keys),
           NEW k \in 1..s.sessions, NEW l \in 1..s.sessions, k # l,
           HeldNumber(s, i, k) = HeldNumber(s, i, l)
    PROVE  /\ s.given[i][k] # 0 /\ s.given[i][l] # 0
           /\ HeldNumber(s, i, k) = s.sessions + s.given[i][k]
           /\ HeldNumber(s, i, l) = s.sessions + s.given[i][l]
<1> DEFINE g == s.given[i][k]
           h == s.given[i][l]
           n == s.sessions
<1>1. g \in Nat /\ h \in Nat /\ n \in Nat
  BY ScenariosAssumption
<1>2. HeldNumber(s, i, k) = k \/ (g # 0 /\ HeldNumber(s, i, k) = n + g)
  BY Zenon DEF HeldNumber
<1>3. HeldNumber(s, i, l) = l \/ (h # 0 /\ HeldNumber(s, i, l) = n + h)
  BY Zenon DEF HeldNumber
<1>4. k \in Int /\ k <= n /\ l \in Int /\ l <= n
  BY <1>1
<1> DEFINE x == HeldNumber(s, i, k)
           y == HeldNumber(s, i, l)
<1>5. x = y
  OBVIOUS
<1> HIDE DEF g, h, n, x, y
<1>6. (x = k \/ (g # 0 /\ x = n + g)) /\ (y = l \/ (h # 0 /\ y = n + h))
  BY <1>2, <1>3, Zenon DEF x, y
<1>7. g # 0 /\ x = n + g /\ h # 0 /\ y = n + h
  BY <1>1, <1>4, <1>5, <1>6
<1> QED BY <1>7, Zenon DEF g, h, n, x, y

\* What one party signs with satisfies all parties.
LEMMA OwnSigVerifies ==
    ASSUME NEW s \in Scenarios, AgreedKey(s).ok, NEW k \in 1..s.sessions,
           NEW i \in SecretKeys(s), NEW m \in Messages
    PROVE  /\ OwnSig(s, i, k, m) # NoSig
           /\ verifyPartialSig(AgreedKey(s), AgreedKeys(s), OwnSig(s, i, k, m),
                               Times(s.keys[i], G), PubNonce(HeldNonces(s, k)[i]),
                               AgreedNonce(s, k, m), m)
<1> DEFINE keys == AgreedKeys(s)
           agg == AgreedKey(s)
           ks == HeldNonces(s, k)
           nonce == AgreedNonce(s, k, m)
           half == ks[i]
<1>1. keys \in Orders(s)
  BY ListingsAre
<1>2. agg \in Accumulated /\ agg.key \in OnCurve
  <2>1. agg = AggregateFor(s, keys)
    BY DEF AgreedKey
  <2> QED BY <1>1, <2>1, AggregateFactor
<1>3. ks \in [SecretKeys(s) -> NoncePairs]
  BY HeldNoncesAre
<1>4. nonce.b \in Int /\ challenge(nonce.R, agg.key, m) \in Int
  <2> DEFINE n == Len(s.keys)
             key == agg.key
  <2>1. n \in Nat /\ ks \in [1..n -> NoncePairs]
    BY <1>3, ScenarioTypes
  <2>2. nonce = computeSigningNonce(Combination(ks), key, m)
    BY DEF AgreedNonce
  <2>3. key \in OnCurve
    BY <1>2
  <2> HIDE DEF n, key, ks, nonce
  <2>4. nonce.b \in Int /\ challenge(nonce.R, key, m) \in Int
    BY <2>1, <2>2, <2>3, NonceFactor
  <2> QED BY <2>4 DEF key
<1>5. half \in NoncePairs
  BY <1>3
<1>6. OwnSig(s, i, k, m) = PartialSig(agg, keys, s.keys[i], half, nonce, m)
  BY DEF OwnSig
<1> HIDE DEF keys, agg, ks, nonce, half
<1>7. PartialValue(s, keys, i, agg, half, nonce, m)
  BY <1>1, <1>2, <1>4, <1>5, PartialSigIs
<1>8. PartialSig(agg, keys, s.keys[i], half, nonce, m) \in 0..(N - 1)
  BY <1>7, Zenon DEF PartialValue
<1>9. verifyPartialSig(agg, keys, PartialSig(agg, keys, s.keys[i], half, nonce, m),
                       Times(s.keys[i], G), PubNonce(half), nonce, m)
  BY <1>1, <1>2, <1>4, <1>5, PartialVerifies
<1>10. OwnSig(s, i, k, m) # NoSig
  <2> DEFINE sig == OwnSig(s, i, k, m)
  <2>1. sig \in 0..(N - 1)
    BY <1>6, <1>8
  <2> HIDE DEF sig
  <2>2. sig # NoSig
    BY <2>1, CurveNumbers DEF NoSig
  <2> QED BY <2>2 DEF sig
<1> QED BY <1>6, <1>9, <1>10, Zenon DEF keys, agg, ks, nonce, half

\* Signing gives the party's signature, unless a nonce is zero.
LEMMA SignWithIs ==
    ASSUME NEW s \in Scenarios, AgreedKey(s).ok, NEW k \in 1..s.sessions,
           NEW i \in SecretKeys(s), NEW m \in Messages
    PROVE  LET half == HeldNonces(s, k)[i]
               sig == SignWith(AgreedKey(s), AgreedKeys(s), s.keys[i], half,
                               Combination(HeldNonces(s, k)), m)
           IN  \/ sig = NoSig /\ 0 \in {half[1], half[2]}
               \/ sig # NoSig /\ sig = OwnSig(s, i, k, m)
<1> DEFINE half == HeldNonces(s, k)[i]
           sig == SignWith(AgreedKey(s), AgreedKeys(s), s.keys[i], half,
                           Combination(HeldNonces(s, k)), m)
           own == OwnSig(s, i, k, m)
           ok == verifyPartialSig(AgreedKey(s), AgreedKeys(s), own, Times(s.keys[i], G),
                                  PubNonce(half), AgreedNonce(s, k, m), m)
<1>1. own # NoSig /\ ok
  BY OwnSigVerifies
<1>2. sig = IF half[1] # 0 /\ half[2] # 0 /\ ok THEN own ELSE NoSig
  BY Zenon DEF SignWith, OwnSig, AgreedNonce
<1> HIDE DEF half, sig, own, ok
<1>3. half[1] # 0 /\ half[2] # 0 => sig = own
  BY <1>1, <1>2, Zenon
<1>4. ~(half[1] # 0 /\ half[2] # 0) => sig = NoSig
  BY <1>2, Zenon
<1>5. \/ sig = NoSig /\ 0 \in {half[1], half[2]}
      \/ sig # NoSig /\ sig = own
  BY <1>1, <1>3, <1>4
<1> QED BY <1>5, Zenon DEF half, sig, own

\* The signature of all parties.
LEMMA AllSigned ==
    ASSUME NEW s \in Scenarios, AgreedKey(s).ok, NEW k \in 1..s.sessions, NEW m \in Messages,
           ~NoncesCancel(AgreedKey(s).key, HeldNonces(s, k), m)
    PROVE  LET R == AgreedNonce(s, k, m).R
               sigs == [j \in SecretKeys(s) |-> OwnSig(s, j, k, m)]
           IN  schnorrVerify([r |-> R[1], s |-> CombineSigs(AgreedKey(s), R, sigs, m)], m,
                             AgreedKey(s).key[1])
<1> DEFINE keys == AgreedKeys(s)
           agg == AgreedKey(s)
           ks == HeldNonces(s, k)
           nonce == AgreedNonce(s, k, m)
           sigs == [j \in SecretKeys(s) |-> OwnSig(s, j, k, m)]
           final == [r |-> nonce.R[1], s |-> CombineSigs(agg, nonce.R, sigs, m)]
<1>1. keys \in Orders(s) /\ agg = AggregateFor(s, keys) /\ ks \in [SecretKeys(s) -> NoncePairs]
  BY ListingsAre, HeldNoncesAre DEF AgreedKey
<1>2. sigs = PartialSigs(s, keys, agg, ks, nonce, m)
  BY Zenon DEF PartialSigs, OwnSig
<1>3. nonce = computeSigningNonce(Combination(ks), agg.key, m)
  BY DEF AgreedNonce
<1> HIDE DEF keys, agg, ks, nonce, sigs
<1>4. final = FinalSignature(s, keys, agg, ks, m)
  BY <1>2, <1>3, Zenon DEF FinalSignature
<1> HIDE DEF final
<1>5. agg.ok /\ ~NoncesCancel(agg.key, ks, m)
  BY DEF agg, ks
<1>6. schnorrVerify(FinalSignature(s, keys, agg, ks, m), m, agg.key[1])
  BY <1>1, <1>5, FinalSum
<1> QED BY <1>4, <1>6, Zenon DEF final, nonce, sigs, agg

-----------------------------------------------------------------------------
(* The states of the parties.                                              *)

Fields == {"made", "keySet", "from", "combinedKey", "ok", "sessionNonce"}
SessionFields == {"made", "number", "local", "pubNonces", "msg", "ourSig", "sigs", "final"}

\* An early nonce is there until the first session takes it.
ContextNonces ==
    /\ sc \in Scenarios /\ DOMAIN ctx = Parties
    /\ \A i \in Parties : ctx[i].made =>
          /\ DOMAIN ctx[i] = Fields
          /\ ctx[i].sessionNonce # 0 =>
                /\ sc.early /\ ctx[i].sessionNonce = 1
                /\ \A k \in Sessions : ~ses[i][k].made
          /\ sc.early /\ ctx[i].sessionNonce = 0 => ses[i][1].made

\* A session has the nonce that is for it, or has it no more.
SessionNonces ==
    /\ DOMAIN ses = Parties /\ \A i \in Parties : DOMAIN ses[i] = Sessions
    /\ \A i \in Parties : \A k \in Sessions : ses[i][k].made =>
          /\ DOMAIN ses[i][k] = SessionFields
          /\ ctx[i].made
          /\ ses[i][k].number = HeldNumber(sc, i, k)
          /\ ses[i][k].local \in {0, ses[i][k].number}

\* A nonce that was used is the one of a session that has none left.
UsedNonces ==
    /\ \A u \in used :
          /\ u[1] \in Parties /\ u[3] \in Sessions
          /\ ses[u[1]][u[3]].made
          /\ ses[u[1]][u[3]].number = u[2] /\ ses[u[1]][u[3]].local = 0
    /\ \A u, v \in used : u[1] = v[1] /\ u[3] = v[3] => u = v

NonceInvariant == ContextNonces /\ SessionNonces /\ UsedNonces

-----------------------------------------------------------------------------
\* Whether the keys are complete or not, the nonces of a context stay.
LEMMA CompletedKeepsNonces ==
    ASSUME NEW c, DOMAIN c = Fields
    PROVE  /\ DOMAIN Completed(c) = Fields /\ Completed(c).made = c.made
           /\ Completed(c).sessionNonce = c.sessionNonce
<1> DEFINE agg == AggregateKeys(IF sc.sort THEN sortKeys(c.keySet) ELSE c.keySet)
<1>1. combineSignerKeys(c) =
          [c EXCEPT !.keySet = InPlace(@), !.combinedKey = agg.key, !.ok = agg.ok]
  BY DEF combineSignerKeys
<1> HIDE DEF agg
<1>2. /\ DOMAIN combineSignerKeys(c) = Fields /\ combineSignerKeys(c).made = c.made
      /\ combineSignerKeys(c).sessionNonce = c.sessionNonce
  BY <1>1 DEF Fields
<1> QED BY <1>2 DEF Completed

LEMMA NonceStart ==
    ASSUME MuSigInit
    PROVE  NonceInvariant
<1>1. /\ sc \in Scenarios /\ ctx = [i \in Parties |-> Absent] /\ used = {}
      /\ ses = [i \in Parties |-> [k \in Sessions |-> Absent]]
  BY DEF MuSigInit
<1>2. \A i \in Parties : ctx[i].made = FALSE
  BY <1>1 DEF Absent
<1>3. \A i \in Parties : \A k \in Sessions : ses[i][k].made = FALSE
  BY <1>1 DEF Absent
<1> QED BY <1>1, <1>2, <1>3 DEF NonceInvariant, ContextNonces, SessionNonces, UsedNonces
-----------------------------------------------------------------------------
\* A context changes and no session does; its nonces stay, or it is new.
LEMMA ContextChanges ==
    ASSUME NonceInvariant, NEW i \in Parties, NEW c,
           ctx' = [ctx EXCEPT ![i] = c], UNCHANGED <<sc, ses, used>>,
           DOMAIN c = Fields, c.made,
           \/ ctx[i].made /\ c.sessionNonce = ctx[i].sessionNonce
           \/ ~ctx[i].made /\ c.sessionNonce = IF sc.early THEN 1 ELSE 0
    PROVE  NonceInvariant'
<1>1. Parties' = Parties /\ Sessions' = Sessions
  BY DEF Parties, Sessions
<1>2. /\ DOMAIN ctx' = Parties /\ ctx'[i] = c
      /\ \A j \in Parties \ {i} : ctx'[j] = ctx[j]
  BY DEF NonceInvariant, ContextNonces
<1>3. ContextNonces'
  <2>1. ASSUME NEW j \in Parties, ctx'[j].made
        PROVE  /\ DOMAIN ctx'[j] = Fields
               /\ ctx'[j].sessionNonce # 0 =>
                     /\ sc.early /\ ctx'[j].sessionNonce = 1
                     /\ \A k \in Sessions : ~ses[j][k].made
               /\ sc.early /\ ctx'[j].sessionNonce = 0 => ses[j][1].made
    <3>1. CASE j # i
      BY <1>2, <2>1, <3>1 DEF NonceInvariant, ContextNonces
    <3>2. CASE j = i /\ ctx[i].made
      BY <1>2, <3>2 DEF NonceInvariant, ContextNonces
    <3>3. CASE j = i /\ ~ctx[i].made
      <4>1. \A k \in Sessions : ~ses[i][k].made
        BY <3>3 DEF NonceInvariant, SessionNonces
      <4>2. /\ ctx'[j] = c /\ DOMAIN c = Fields
            /\ c.sessionNonce # 0 => sc.early /\ c.sessionNonce = 1
            /\ sc.early => c.sessionNonce # 0
        BY <1>2, <3>3
      <4> QED BY <3>3, <4>1, <4>2, Zenon
    <3> QED BY <3>1, <3>2, <3>3
  <2> QED BY <1>1, <1>2, <2>1 DEF NonceInvariant, ContextNonces
<1>4. SessionNonces'
  <2>1. ASSUME NEW j \in Parties, NEW k \in Sessions, ses[j][k].made
        PROVE  ctx'[j].made
    <3>1. ctx[j].made
      BY <2>1 DEF NonceInvariant, SessionNonces
    <3> QED BY <1>2, <3>1
  <2> QED BY <1>1, <2>1 DEF NonceInvariant, SessionNonces
<1>5. UsedNonces'
  BY <1>1 DEF NonceInvariant, UsedNonces
<1> QED BY <1>3, <1>4, <1>5 DEF NonceInvariant

LEMMA NewContextKept ==
    ASSUME NonceInvariant, NEW i \in Parties, NewContext(i)
    PROVE  NonceInvariant'
<1>1. PICK keySet :
        /\ ~ctx[i].made /\ UNCHANGED <<sc, ses, used>>
        /\ ctx' = [ctx EXCEPT ![i] = Completed(
                      [made |-> TRUE, keySet |-> keySet, from |-> {i},
                       combinedKey |-> Infinity, ok |-> TRUE,
                       sessionNonce |-> IF sc.early THEN 1 ELSE 0])]
  BY DEF NewContext
<1> DEFINE c == [made |-> TRUE, keySet |-> keySet, from |-> {i},
                 combinedKey |-> Infinity, ok |-> TRUE,
                 sessionNonce |-> IF sc.early THEN 1 ELSE 0]
<1>2. /\ DOMAIN c = Fields /\ c.made
      /\ c.sessionNonce = IF sc.early THEN 1 ELSE 0
  BY DEF Fields
<1>3. ctx' = [ctx EXCEPT ![i] = Completed(c)]
  BY <1>1
<1> HIDE DEF c
<1>4. /\ DOMAIN Completed(c) = Fields /\ Completed(c).made
      /\ Completed(c).sessionNonce = c.sessionNonce
  BY <1>2, CompletedKeepsNonces
<1>5. Completed(c).sessionNonce = IF sc.early THEN 1 ELSE 0
  BY <1>2, <1>4, Zenon
<1> QED BY <1>1, <1>3, <1>4, <1>5, ContextChanges

LEMMA RegisterSignerKept ==
    ASSUME NonceInvariant, NEW i \in Parties, NEW j \in Parties, RegisterSigner(i, j)
    PROVE  NonceInvariant'
<1> DEFINE c == WithSigner(ctx[i], j)
<1>1. /\ ctx[i].made /\ UNCHANGED <<sc, ses, used>>
      /\ ctx' = [ctx EXCEPT ![i] = Completed(c)]
  BY DEF RegisterSigner
<1>2. DOMAIN ctx[i] = Fields
  BY <1>1 DEF NonceInvariant, ContextNonces
<1>3. /\ DOMAIN c = Fields /\ c.made = ctx[i].made
      /\ c.sessionNonce = ctx[i].sessionNonce
  BY <1>2 DEF Fields, WithSigner
<1> HIDE DEF c
<1>4. /\ DOMAIN Completed(c) = Fields /\ Completed(c).made = c.made
      /\ Completed(c).sessionNonce = c.sessionNonce
  BY <1>3, CompletedKeepsNonces
<1>5. Completed(c).made /\ Completed(c).sessionNonce = ctx[i].sessionNonce
  BY <1>1, <1>3, <1>4
<1> QED BY <1>1, <1>4, <1>5, ContextChanges

\* The nonce that a new session takes is the one for it.
LEMMA NewSessionNumber ==
    ASSUME NonceInvariant, NEW i \in Parties, NEW k \in Sessions, NewSession(i, k)
    PROVE  LET early == ctx[i].sessionNonce
               given == externalNonce(i, k)
           IN  /\ HeldNumber(sc, i, k)
                      = IF early # 0 THEN early ELSE IF given # 0 THEN given ELSE k
               /\ HeldNumber(sc, i, k) # 0
               /\ sc.early => 1 \in Sessions /\ (ses[i][1].made \/ k = 1)
<1> DEFINE early == ctx[i].sessionNonce
           given == externalNonce(i, k)
           g == sc.given[i][k]
           n == sc.sessions
           x == HeldNumber(sc, i, k)
<1>1. /\ ctx[i].made /\ ~ses[i][k].made /\ (k > 1 => ses[i][k - 1].made)
  BY DEF NewSession
<1>2. sc \in Scenarios /\ i \in 1..Len(sc.keys) /\ Sessions = 1..n /\ k \in 1..n
  BY DEF NonceInvariant, ContextNonces, Parties, Sessions
<1>3. n \in Nat \ {0} /\ g \in Nat
  BY <1>2, ScenariosAssumption
<1>4. /\ early # 0 => /\ sc.early /\ early = 1
                      /\ \A l \in Sessions : ~ses[i][l].made
      /\ sc.early /\ early = 0 => ses[i][1].made
  BY <1>1, Zenon DEF NonceInvariant, ContextNonces
<1>5. early # 0 => k = 1
  <2> SUFFICES ASSUME early # 0, k > 1 PROVE FALSE
    BY <1>2, <1>3
  <2>1. k - 1 \in Sessions
    <3> HIDE DEF n
    <3> QED BY <1>2, <1>3
  <2> QED BY <1>1, <1>4, <2>1
<1>6. sc.early /\ early = 0 => k # 1
  BY <1>1, <1>4
<1>7. given = IF g = 0 THEN 0 ELSE n + g
  BY DEF externalNonce
<1>8. x = IF g # 0 /\ ~(sc.early /\ k = 1) THEN n + g ELSE k
  BY DEF HeldNumber
<1>9. 1 \in Sessions
  <2> HIDE DEF n
  <2> QED BY <1>2, <1>3
<1> HIDE DEF early, given, g, n, x
<1>10. n + g # 0 /\ (g # 0 => n + g # 0) /\ k # 0
  BY <1>2, <1>3
<1>11. CASE early # 0
  <2>1. x = early /\ x # 0
    BY <1>4, <1>5, <1>8, <1>11
  <2> QED BY <1>5, <1>9, <1>11, <2>1, Zenon DEF early, given, x
<1>12. CASE early = 0
  <2>1. x = IF given # 0 THEN given ELSE k
    BY <1>6, <1>7, <1>8, <1>10, <1>12, Zenon
  <2>2. x # 0
    BY <1>8, <1>10, Zenon
  <2> QED BY <1>4, <1>9, <1>12, <2>1, <2>2, Zenon DEF early, given, x
<1> QED BY <1>11, <1>12

LEMMA NewSessionKept ==
    ASSUME NonceInvariant, NEW i \in Parties, NEW k \in Sessions, NewSession(i, k)
    PROVE  NonceInvariant'
<1> DEFINE number == HeldNumber(sc, i, k)
           s == [made |-> TRUE, number |-> number, local |-> number,
                 pubNonces |-> {i}, msg |-> 0, ourSig |-> NoSig,
                 sigs |-> {}, final |-> "none"]
           c == EarlyTaken(ctx[i])
<1>1. /\ ctx[i].made /\ ~ses[i][k].made /\ UNCHANGED <<sc, used>>
      /\ ses' = [ses EXCEPT ![i][k] = s] /\ ctx' = [ctx EXCEPT ![i] = c]
      /\ sc.early => 1 \in Sessions /\ (ses[i][1].made \/ k = 1)
  <2> DEFINE early == ctx[i].sessionNonce
             given == externalNonce(i, k)
             taken == IF early # 0 THEN early ELSE IF given # 0 THEN given ELSE k
  <2>1. /\ ctx[i].made /\ ~ses[i][k].made /\ UNCHANGED <<sc, used>>
        /\ ses' = [ses EXCEPT ![i][k] =
               [made |-> TRUE, number |-> taken, local |-> taken,
                pubNonces |-> {i}, msg |-> 0, ourSig |-> NoSig,
                sigs |-> {}, final |-> "none"]]
        /\ ctx' = [ctx EXCEPT ![i] = c]
    BY DEF NewSession
  <2>2. number = taken /\ (sc.early => 1 \in Sessions /\ (ses[i][1].made \/ k = 1))
    BY NewSessionNumber
  <2> HIDE DEF taken, number, c
  <2> QED BY <2>1, <2>2, Zenon
<1>2. DOMAIN ctx[i] = Fields
  BY <1>1 DEF NonceInvariant, ContextNonces
<1>3. DOMAIN c = Fields /\ c.made = ctx[i].made /\ c.sessionNonce = 0
  BY <1>2 DEF EarlyTaken, Fields
<1>4. /\ DOMAIN s = SessionFields /\ s.made /\ s.number = number /\ s.local = number
  BY DEF SessionFields
<1> HIDE DEF s, c, number
<1>6. Parties' = Parties /\ Sessions' = Sessions
  BY <1>1 DEF Parties, Sessions
<1>7. /\ DOMAIN ctx' = Parties /\ ctx'[i] = c
      /\ \A j \in Parties \ {i} : ctx'[j] = ctx[j]
  BY <1>1 DEF NonceInvariant, ContextNonces
<1>8. /\ DOMAIN ses' = Parties /\ \A j \in Parties : DOMAIN ses'[j] = Sessions
      /\ ses'[i][k] = s
      /\ \A j \in Parties : \A l \in Sessions :
            j # i \/ l # k => ses'[j][l] = ses[j][l]
  BY <1>1 DEF NonceInvariant, SessionNonces
<1>9. ContextNonces'
  <2>1. ASSUME NEW j \in Parties, ctx'[j].made
        PROVE  /\ DOMAIN ctx'[j] = Fields
               /\ ctx'[j].sessionNonce # 0 =>
                     /\ sc.early /\ ctx'[j].sessionNonce = 1
                     /\ \A l \in Sessions : ~ses'[j][l].made
               /\ sc.early /\ ctx'[j].sessionNonce = 0 => ses'[j][1].made
    <3>1. CASE j = i
      <4>1. sc.early => ses'[i][1].made
        BY <1>1, <1>4, <1>8
      <4> QED BY <1>3, <1>7, <3>1, <4>1
    <3>2. CASE j # i
      <4>1. ctx'[j] = ctx[j] /\ \A l \in Sessions : ses'[j][l] = ses[j][l]
        BY <1>7, <1>8, <3>2
      <4>2. sc.early /\ ctx[j].sessionNonce = 0 => ses'[j][1].made
        BY <1>1, <2>1, <4>1 DEF NonceInvariant, ContextNonces
      <4> QED BY <2>1, <4>1, <4>2 DEF NonceInvariant, ContextNonces
    <3> QED BY <3>1, <3>2
  <2> QED BY <1>1, <1>6, <1>7, <2>1 DEF NonceInvariant, ContextNonces
<1>10. SessionNonces'
  <2>1. ASSUME NEW j \in Parties, NEW l \in Sessions, ses'[j][l].made
        PROVE  /\ DOMAIN ses'[j][l] = SessionFields
               /\ ctx'[j].made
               /\ ses'[j][l].number = HeldNumber(sc, j, l)
               /\ ses'[j][l].local \in {0, ses'[j][l].number}
    <3>1. CASE j = i /\ l = k
      <4>1. ses'[j][l] = s /\ ctx'[j] = c
        BY <1>7, <1>8, <3>1
      <4>2. s.local \in {0, s.number} /\ c.made /\ s.number = HeldNumber(sc, j, l)
        BY <1>1, <1>3, <1>4, <3>1 DEF number
      <4> QED BY <1>4, <4>1, <4>2, Zenon
    <3>2. CASE j = i /\ l # k
      <4>1. /\ DOMAIN ses[j][l] = SessionFields /\ ses[j][l].number = HeldNumber(sc, j, l)
            /\ ses[j][l].local \in {0, ses[j][l].number} /\ ses'[j][l] = ses[j][l]
        BY <1>8, <2>1, <3>2 DEF NonceInvariant, SessionNonces
      <4> QED BY <1>1, <1>3, <1>7, <3>2, <4>1
    <3>3. CASE j # i
      BY <1>7, <1>8, <2>1, <3>3 DEF NonceInvariant, SessionNonces
    <3> QED BY <3>1, <3>2, <3>3
  <2>2. sc' = sc
    BY <1>1
  <2> QED BY <1>6, <1>8, <2>1, <2>2, Zenon DEF SessionNonces
<1>11. UsedNonces'
  <2>1. ASSUME NEW u \in used
        PROVE  /\ u[1] \in Parties /\ u[3] \in Sessions
               /\ ses'[u[1]][u[3]] = ses[u[1]][u[3]]
    <3>1. u[1] \in Parties /\ u[3] \in Sessions /\ ses[u[1]][u[3]].made
      BY DEF NonceInvariant, UsedNonces
    <3> QED BY <1>1, <1>8, <3>1
  <2> QED BY <1>1, <1>6, <2>1 DEF NonceInvariant, UsedNonces
<1> QED BY <1>9, <1>10, <1>11 DEF NonceInvariant

\* A session changes and keeps its nonce, or gives it up; nothing else changes.
LEMMA SessionChanges ==
    ASSUME NonceInvariant, NEW i \in Parties, NEW k \in Sessions, NEW s,
           ses[i][k].made, ses' = [ses EXCEPT ![i][k] = s], UNCHANGED <<sc, ctx>>,
           DOMAIN s = SessionFields, s.made, s.number = ses[i][k].number,
           s.local = 0 \/ s.local = ses[i][k].local
    PROVE  /\ Parties' = Parties /\ Sessions' = Sessions
           /\ ses'[i][k] = s
           /\ ContextNonces' /\ SessionNonces'
           /\ \A u \in used : /\ u[1] \in Parties /\ u[3] \in Sessions
                              /\ ses'[u[1]][u[3]].made
                              /\ ses'[u[1]][u[3]].number = u[2]
                              /\ ses'[u[1]][u[3]].local = 0
<1>1. Parties' = Parties /\ Sessions' = Sessions
  BY DEF Parties, Sessions
<1>2. /\ DOMAIN ses' = Parties /\ \A j \in Parties : DOMAIN ses'[j] = Sessions
      /\ ses'[i][k] = s
      /\ \A j \in Parties : \A l \in Sessions :
            j # i \/ l # k => ses'[j][l] = ses[j][l]
  BY DEF NonceInvariant, SessionNonces
<1>3. \A j \in Parties : \A l \in Sessions :
          /\ ses'[j][l].made <=> ses[j][l].made
          /\ ses'[j][l].number = ses[j][l].number \/ ~ses[j][l].made
          /\ ses'[j][l].local = 0 \/ ses'[j][l] = ses[j][l] \/ (j = i /\ l = k)
  BY <1>2
<1>4. ContextNonces'
  <2>1. ASSUME NEW j \in Parties, ctx[j].made
        PROVE  /\ DOMAIN ctx[j] = Fields
               /\ ctx[j].sessionNonce # 0 =>
                     /\ sc.early /\ ctx[j].sessionNonce = 1
                     /\ \A l \in Sessions : ~ses'[j][l].made
    BY <1>3, <2>1 DEF NonceInvariant, ContextNonces
  <2>2. 1 \in Sessions
    <3>1. sc.sessions \in Nat \ {0}
      BY ScenariosAssumption DEF NonceInvariant, ContextNonces
    <3> QED BY <3>1 DEF Sessions
  <2>3. ASSUME NEW j \in Parties, ctx[j].made, sc.early, ctx[j].sessionNonce = 0
        PROVE  ses'[j][1].made
    <3>1. ses[j][1].made
      BY <2>3 DEF NonceInvariant, ContextNonces
    <3> QED BY <1>3, <2>2, <3>1
  <2> QED BY <1>1, <2>1, <2>3 DEF NonceInvariant, ContextNonces
<1>5. SessionNonces'
  <2>1. ASSUME NEW j \in Parties, NEW l \in Sessions, ses'[j][l].made
        PROVE  /\ DOMAIN ses'[j][l] = SessionFields
               /\ ctx'[j].made
               /\ ses'[j][l].number = HeldNumber(sc, j, l)
               /\ ses'[j][l].local \in {0, ses'[j][l].number}
    <3>1. /\ ses[j][l].made /\ ctx[j].made /\ ses[j][l].number = HeldNumber(sc, j, l)
          /\ DOMAIN ses[j][l] = SessionFields
          /\ ses[j][l].local \in {0, ses[j][l].number}
      BY <1>3, <2>1 DEF NonceInvariant, SessionNonces
    <3>2. CASE j = i /\ l = k
      BY <1>2, <3>1, <3>2
    <3>3. CASE j # i \/ l # k
      BY <1>2, <3>1, <3>3
    <3> QED BY <3>2, <3>3
  <2>2. sc' = sc
    BY <1>1
  <2>3. DOMAIN ses' = Parties' /\ \A j \in Parties' : DOMAIN ses'[j] = Sessions'
    BY <1>1, <1>2
  <2>4. \A j \in Parties' : \A l \in Sessions' : ses'[j][l].made =>
            /\ DOMAIN ses'[j][l] = SessionFields
            /\ ctx'[j].made
            /\ ses'[j][l].number = HeldNumber(sc', j, l)
            /\ ses'[j][l].local \in {0, ses'[j][l].number}
    BY <1>1, <2>1, <2>2
  <2> QED BY <2>3, <2>4, Zenon DEF SessionNonces
<1>6. ASSUME NEW u \in used
      PROVE  /\ u[1] \in Parties /\ u[3] \in Sessions
             /\ ses'[u[1]][u[3]].made
             /\ ses'[u[1]][u[3]].number = u[2]
             /\ ses'[u[1]][u[3]].local = 0
  <2>1. /\ u[1] \in Parties /\ u[3] \in Sessions
        /\ ses[u[1]][u[3]].made /\ ses[u[1]][u[3]].number = u[2]
        /\ ses[u[1]][u[3]].local = 0
    BY DEF NonceInvariant, UsedNonces
  <2>2. CASE u[1] = i /\ u[3] = k
    BY <1>2, <2>1, <2>2
  <2>3. CASE u[1] # i \/ u[3] # k
    BY <1>2, <2>1, <2>3
  <2> QED BY <2>1, <2>2, <2>3
<1> QED BY <1>1, <1>2, <1>4, <1>5, <1>6

\* The nonces stay where they are if no signature is made.
LEMMA SessionChangesUnused ==
    ASSUME NonceInvariant, NEW i \in Parties, NEW k \in Sessions, NEW s,
           ses[i][k].made, ses' = [ses EXCEPT ![i][k] = s],
           UNCHANGED <<sc, ctx, used>>,
           DOMAIN s = SessionFields, s.made, s.number = ses[i][k].number,
           s.local = 0 \/ s.local = ses[i][k].local
    PROVE  NonceInvariant'
<1>1. /\ Parties' = Parties /\ Sessions' = Sessions
      /\ ContextNonces' /\ SessionNonces'
      /\ \A u \in used : /\ u[1] \in Parties /\ u[3] \in Sessions
                         /\ ses'[u[1]][u[3]].made
                         /\ ses'[u[1]][u[3]].number = u[2]
                         /\ ses'[u[1]][u[3]].local = 0
  BY SessionChanges
<1>2. used' = used /\ \A u, v \in used : u[1] = v[1] /\ u[3] = v[3] => u = v
  BY DEF NonceInvariant, UsedNonces
<1> QED BY <1>1, <1>2 DEF NonceInvariant, UsedNonces

LEMMA RegisterPubNonceKept ==
    ASSUME NonceInvariant, NEW i \in Parties, NEW k \in Sessions, NEW j \in Parties,
           RegisterPubNonce(i, k, j)
    PROVE  NonceInvariant'
<1> DEFINE s == [ses[i][k] EXCEPT !.pubNonces = @ \cup {j}]
<1>1. ses[i][k].made /\ DOMAIN ses[i][k] = SessionFields
  BY DEF RegisterPubNonce, NonceInvariant, SessionNonces
<1>2. /\ ses' = [ses EXCEPT ![i][k] = s]
      /\ UNCHANGED <<sc, ctx, used>>
  BY DEF RegisterPubNonce
<1>3. /\ DOMAIN s = SessionFields /\ s.made
      /\ s.number = ses[i][k].number /\ s.local = ses[i][k].local
  BY <1>1 DEF SessionFields
<1> HIDE DEF s
<1> QED BY <1>1, <1>2, <1>3, SessionChangesUnused

LEMMA CombineSigKept ==
    ASSUME NonceInvariant, NEW i \in Parties, NEW k \in Sessions, NEW j \in Parties,
           CombineSig(i, k, j)
    PROVE  NonceInvariant'
<1> DEFINE f == IF ses[i][k].sigs \cup {j} = Parties THEN FinalSig(i, k) ELSE ses[i][k].final
           s == [ses[i][k] EXCEPT !.sigs = @ \cup {j}, !.final = f]
<1>1. ses[i][k].made /\ DOMAIN ses[i][k] = SessionFields
  BY DEF CombineSig, NonceInvariant, SessionNonces
<1>2. /\ ses' = [ses EXCEPT ![i][k] = s]
      /\ UNCHANGED <<sc, ctx, used>>
  BY DEF CombineSig
<1>3. /\ DOMAIN s = SessionFields /\ s.made
      /\ s.number = ses[i][k].number /\ s.local = ses[i][k].local
  BY <1>1 DEF SessionFields
<1> HIDE DEF s
<1> QED BY <1>1, <1>2, <1>3, SessionChangesUnused

LEMMA SignSessionKept ==
    ASSUME NonceInvariant, NEW i \in Parties, NEW k \in Sessions, NEW m \in Messages,
           SignSession(i, k, m)
    PROVE  NonceInvariant'
<1> DEFINE sig == SignWith(AggregateKeys(ctx[i].keySet), ctx[i].keySet, sc.keys[i],
                           SecNonce(i, k), CombinedNonce(k), m)
           s == [ses[i][k] EXCEPT !.local = 0]
           signed == [s EXCEPT !.msg = m, !.ourSig = sig, !.sigs = @ \cup {i}]
           new == <<i, ses[i][k].local, k, m>>
<1>1. /\ ses[i][k].made /\ ses[i][k].local # 0 /\ DOMAIN ses[i][k] = SessionFields
      /\ ses[i][k].local = ses[i][k].number
  BY DEF SignSession, NonceInvariant, SessionNonces
<1>2. /\ UNCHANGED <<sc, ctx>>
      /\ \/ ses' = [ses EXCEPT ![i][k] = s] /\ UNCHANGED used
         \/ ses' = [ses EXCEPT ![i][k] = signed] /\ used' = used \cup {new}
  BY DEF SignSession
<1>3. /\ DOMAIN s = SessionFields /\ s.made
      /\ s.number = ses[i][k].number /\ s.local = 0
  BY <1>1 DEF SessionFields
<1> HIDE DEF sig, s
<1>4. /\ DOMAIN signed = SessionFields /\ signed.made
      /\ signed.number = ses[i][k].number /\ signed.local = 0
  BY <1>3 DEF SessionFields
<1> HIDE DEF signed, new
<1>5. CASE ses' = [ses EXCEPT ![i][k] = s] /\ UNCHANGED used
  BY <1>1, <1>2, <1>3, <1>5, SessionChangesUnused
<1>6. CASE ses' = [ses EXCEPT ![i][k] = signed] /\ used' = used \cup {new}
  <2> signed.local = 0 \/ signed.local = ses[i][k].local
    BY <1>4
  <2> DOMAIN signed = SessionFields /\ signed.made /\ signed.number = ses[i][k].number
    BY <1>4
  <2> UNCHANGED <<sc, ctx>> /\ ses' = [ses EXCEPT ![i][k] = signed] /\ ses[i][k].made
    BY <1>1, <1>2, <1>6
  <2>1. /\ Parties' = Parties /\ Sessions' = Sessions /\ ses'[i][k] = signed
        /\ ContextNonces' /\ SessionNonces'
        /\ \A u \in used : /\ u[1] \in Parties /\ u[3] \in Sessions
                           /\ ses'[u[1]][u[3]].made
                           /\ ses'[u[1]][u[3]].number = u[2]
                           /\ ses'[u[1]][u[3]].local = 0
    BY SessionChanges
  <2>2. new[1] = i /\ new[2] = ses[i][k].number /\ new[3] = k
    BY <1>1 DEF new
  \* The session had its nonce, so nothing was signed in it.
  <2>3. \A u \in used : ~(u[1] = i /\ u[3] = k)
    BY <1>1 DEF NonceInvariant, UsedNonces
  <2>4. \A u, v \in used' : u[1] = v[1] /\ u[3] = v[3] => u = v
    <3>1. \A u, v \in used : u[1] = v[1] /\ u[3] = v[3] => u = v
      BY DEF NonceInvariant, UsedNonces
    <3> QED BY <1>6, <2>2, <2>3, <3>1
  <2>5. \A u \in used' : /\ u[1] \in Parties /\ u[3] \in Sessions
                         /\ ses'[u[1]][u[3]].made
                         /\ ses'[u[1]][u[3]].number = u[2]
                         /\ ses'[u[1]][u[3]].local = 0
    BY <1>4, <1>6, <2>1, <2>2
  <2> QED BY <2>1, <2>4, <2>5 DEF NonceInvariant, UsedNonces
<1> QED BY <1>2, <1>5, <1>6

LEMMA NonceStep ==
    ASSUME NonceInvariant, [MuSigNext]_musigVars
    PROVE  NonceInvariant'
<1>1. ASSUME NEW i \in Parties, NewContext(i)
      PROVE  NonceInvariant'
  BY <1>1, NewContextKept
<1>2. ASSUME NEW i \in Parties, NEW j \in Parties, RegisterSigner(i, j)
      PROVE  NonceInvariant'
  BY <1>2, RegisterSignerKept
<1>3. ASSUME NEW i \in Parties, NEW k \in Sessions, NewSession(i, k)
      PROVE  NonceInvariant'
  BY <1>3, NewSessionKept
<1>4. ASSUME NEW i \in Parties, NEW k \in Sessions, NEW m \in Messages,
             SignSession(i, k, m)
      PROVE  NonceInvariant'
  BY <1>4, SignSessionKept
<1>5. ASSUME NEW i \in Parties, NEW k \in Sessions, NEW j \in Parties,
             RegisterPubNonce(i, k, j)
      PROVE  NonceInvariant'
  BY <1>5, RegisterPubNonceKept
<1>6. ASSUME NEW i \in Parties, NEW k \in Sessions, NEW j \in Parties,
             CombineSig(i, k, j)
      PROVE  NonceInvariant'
  BY <1>6, CombineSigKept
<1>7. CASE UNCHANGED musigVars
  BY <1>7 DEF musigVars, NonceInvariant, ContextNonces, SessionNonces, UsedNonces,
              Parties, Sessions
<1> QED BY <1>1, <1>2, <1>3, <1>4, <1>5, <1>6, <1>7 DEF MuSigNext

\* A session holds the early nonce if it is the first and there is one, else
\* the one its caller gave it, else its own, until it has signed; what was used
\* is gone from its session (context.go 450-507 and 555-602).
THEOREM NoncesAreNumbered == MuSigSpec => []NonceInvariant
<1>1. MuSigInit => NonceInvariant
  BY NonceStart
<1>2. NonceInvariant /\ [MuSigNext]_musigVars => NonceInvariant'
  BY NonceStep
<1> QED BY <1>1, <1>2, PTL DEF MuSigSpec

\* No nonce of a party is in two signatures of one session, nor of two unless
\* the caller gave it to both, early or not and in any order of the calls
\* (context.go 450-507 and 555-602).
THEOREM NeverReused == MuSigSpec => []NonceUsedOnce
<1>1. NonceInvariant => NonceUsedOnce
  <2> SUFFICES ASSUME NonceInvariant, NEW a \in used, NEW b \in used,
                      a[1] = b[1], a[2] = b[2], a # b
               PROVE  /\ a[3] # b[3]
                      /\ externalNonce(a[1], a[3]) = a[2] /\ externalNonce(b[1], b[3]) = a[2]
    BY DEF NonceUsedOnce
  <2> DEFINE i == a[1]
             k == a[3]
             l == b[3]
  <2>1. k # l
    BY DEF NonceInvariant, UsedNonces
  <2>2. /\ i \in Parties /\ k \in Sessions /\ l \in Sessions
        /\ ses[i][k].made /\ ses[i][k].number = a[2]
        /\ ses[i][l].made /\ ses[i][l].number = a[2]
    BY DEF NonceInvariant, UsedNonces
  <2>3. HeldNumber(sc, i, k) = a[2] /\ HeldNumber(sc, i, l) = a[2]
    BY <2>2, Zenon DEF NonceInvariant, SessionNonces
  <2>4. /\ sc \in Scenarios /\ i \in 1..Len(sc.keys)
        /\ k \in 1..sc.sessions /\ l \in 1..sc.sessions
    BY <2>2 DEF NonceInvariant, ContextNonces, Parties, Sessions
  <2> HIDE DEF i, k, l
  <2>5. /\ sc.given[i][k] # 0 /\ sc.given[i][l] # 0
        /\ HeldNumber(sc, i, k) = sc.sessions + sc.given[i][k]
        /\ HeldNumber(sc, i, l) = sc.sessions + sc.given[i][l]
    BY <2>1, <2>3, <2>4, NumbersDiffer
  <2>6. externalNonce(i, k) = a[2] /\ externalNonce(i, l) = a[2]
    BY <2>3, <2>5, Zenon DEF externalNonce
  <2> QED BY <2>1, <2>6, Zenon DEF i, k, l
<1> QED BY <1>1, NoncesAreNumbered, PTL

-----------------------------------------------------------------------------
(* How the keys are gathered.                                              *)

\* The keys of some parties, each once.
Listed(s, keySet, from) ==
    \E order \in [1..Len(keySet) -> from] :
        /\ \A m, n \in 1..Len(keySet) : order[m] = order[n] => m = n
        /\ keySet = [n \in 1..Len(keySet) |-> Times(s.keys[order[n]], G)]

\* A context holds all keys, as agreed, or so far some of them.
Gathered(s, c) ==
    \/ /\ Len(c.keySet) = Len(s.keys) /\ c.keySet = AgreedKeys(s)
       /\ c.combinedKey = AgreedKey(s).key /\ c.ok = AgreedKey(s).ok
    \/ /\ s.sort /\ c.from \subseteq SecretKeys(s)
       /\ Len(c.keySet) \in 1..(Len(s.keys) - 1) /\ Listed(s, c.keySet, c.from)

LEMMA ListedIsOrder ==
    ASSUME NEW s \in Scenarios, NEW from \in SUBSET SecretKeys(s), NEW keySet,
           Len(keySet) = Len(s.keys), Listed(s, keySet, from)
    PROVE  keySet \in Orders(s)
<1> DEFINE D == 1..Len(s.keys)
<1>1. Len(s.keys) \in Nat /\ SecretKeys(s) = D
  BY ScenarioTypes
<1>2. PICK p \in [D -> from] :
        /\ \A m, n \in D : p[m] = p[n] => m = n
        /\ keySet = [n \in D |-> Times(s.keys[p[n]], G)]
  BY DEF Listed
<1>3. IsFiniteSet(D)
  BY <1>1, FS_Interval
<1>4. p \in Bijection(D, D)
  <2> HIDE DEF D
  <2>1. p \in [D -> D]
    BY <1>1, <1>2
  <2>2. p \in Injection(D, D)
    BY <1>2, <2>1 DEF Injection, IsInjective
  <2>3. p \in Surjection(D, D)
    BY <1>3, <2>2, FS_Injection
  <2> QED BY <2>2, <2>3 DEF Bijection
<1> QED BY <1>2, <1>4 DEF Orders

LEMMA OneMoreListed ==
    ASSUME NEW s, NEW from, NEW keySet, Len(keySet) \in Nat, Listed(s, keySet, from),
           NEW j, j \notin from
    PROVE  /\ Len(Append(keySet, Times(s.keys[j], G))) = Len(keySet) + 1
           /\ Listed(s, Append(keySet, Times(s.keys[j], G)), from \cup {j})
<1> DEFINE n == Len(keySet)
           last == Times(s.keys[j], G)
           longer == Append(keySet, last)
<1>1. PICK p \in [1..n -> from] :
        /\ \A l, m \in 1..n : p[l] = p[m] => l = m
        /\ keySet = [m \in 1..n |-> Times(s.keys[p[m]], G)]
  BY DEF Listed
<1> DEFINE q == [m \in 1..(n + 1) |-> IF m = n + 1 THEN j ELSE p[m]]
<1>2. n \in Nat
  OBVIOUS
<1>3. longer = [m \in 1..(n + 1) |-> IF m = n + 1 THEN last ELSE keySet[m]]
  BY DEF Append
<1> HIDE DEF n, longer, last
<1>4. q \in [1..(n + 1) -> from \cup {j}]
  BY <1>1, <1>2
<1>5. \A l, m \in 1..(n + 1) : q[l] = q[m] => l = m
  <2>1. \A m \in 1..n : p[m] \in from
    BY <1>1
  <2> QED BY <1>1, <1>2, <2>1
<1>6. Len(longer) = n + 1
  BY <1>2, <1>3
<1>7. longer = [m \in 1..(n + 1) |-> Times(s.keys[q[m]], G)]
  <2>1. \A m \in 1..(n + 1) : (IF m = n + 1 THEN last ELSE keySet[m]) = Times(s.keys[q[m]], G)
    BY <1>1, <1>2 DEF last
  <2> QED BY <1>3, <2>1
<1> HIDE DEF q
<1>8. Listed(s, longer, from \cup {j})
  <2> DEFINE l == Len(longer)
  <2>1. l = n + 1
    BY <1>6
  <2> HIDE DEF l
  <2>2. /\ q \in [1..l -> from \cup {j}] /\ \A a, b \in 1..l : q[a] = q[b] => a = b
        /\ longer = [m \in 1..l |-> Times(s.keys[q[m]], G)]
    BY <1>4, <1>5, <1>7, <2>1
  <2> QED BY <2>2, Zenon DEF Listed, l
<1> QED BY <1>6, <1>8 DEF n, longer, last

LEMMA OneListed ==
    ASSUME NEW s, NEW i
    PROVE  /\ Len(<<Times(s.keys[i], G)>>) = 1
           /\ Listed(s, <<Times(s.keys[i], G)>>, {i})
<1> DEFINE key == Times(s.keys[i], G)
           p == [n \in 1..1 |-> i]
<1>1. Len(<<key>>) = 1 /\ <<key>> = [n \in 1..1 |-> key]
  OBVIOUS
<1>2. p \in [1..1 -> {i}] /\ \A n \in 1..1 : p[n] = i
  OBVIOUS
<1>3. <<key>> = [n \in 1..1 |-> Times(s.keys[p[n]], G)]
  BY <1>1, <1>2
<1> HIDE DEF key, p
<1>4. Listed(s, <<key>>, {i})
  BY <1>1, <1>2, <1>3 DEF Listed
<1> QED BY <1>1, <1>4 DEF key

\* Whatever order they were listed in, all keys are the agreed ones.
LEMMA CompletedAgrees ==
    ASSUME sc \in Scenarios, NEW c, DOMAIN c = Fields,
           \/ /\ Len(c.keySet) = Len(sc.keys) /\ c.keySet \in Orders(sc)
              /\ sc.sort \/ c.keySet = Listing(sc)
           \/ /\ sc.sort /\ c.from \subseteq SecretKeys(sc)
              /\ Len(c.keySet) \in 1..(Len(sc.keys) - 1) /\ Listed(sc, c.keySet, c.from)
    PROVE  Gathered(sc, Completed(c))
<1> DEFINE n == Len(sc.keys)
<1>1. n \in Nat
  BY ScenarioTypes
<1>2. CASE /\ Len(c.keySet) = n /\ c.keySet \in Orders(sc)
           /\ sc.sort \/ c.keySet = Listing(sc)
  <2> DEFINE sorted == IF sc.sort THEN sortKeys(c.keySet) ELSE c.keySet
             agg == AggregateKeys(sorted)
             gathered == combineSignerKeys(c)
  <2>1. sorted = AgreedKeys(sc)
    <3>1. sc.sort => sorted = AgreedKeys(sc)
      BY <1>2, ListingsAre
    <3>2. ~sc.sort => sorted = AgreedKeys(sc)
      BY <1>2, ListingsAre
    <3> QED BY <3>1, <3>2
  <2>2. Completed(c) = gathered
    BY <1>2 DEF Completed, Complete
  <2>3. gathered = [c EXCEPT !.keySet = sorted, !.combinedKey = agg.key, !.ok = agg.ok]
    BY DEF combineSignerKeys, InPlace
  <2>4. agg = AgreedKey(sc)
    BY <2>1 DEF AggregateKeys, AgreedKey
  <2> HIDE DEF sorted, agg, gathered
  <2>5. gathered.keySet = sorted /\ gathered.combinedKey = agg.key /\ gathered.ok = agg.ok
    BY <2>3 DEF Fields
  <2>6. Len(sorted) = n
    BY <2>1, ListingsAre, OrderOfKeys
  <2> QED BY <2>1, <2>2, <2>4, <2>5, <2>6 DEF Gathered
<1>3. CASE /\ sc.sort /\ c.from \subseteq SecretKeys(sc)
           /\ Len(c.keySet) \in 1..(n - 1) /\ Listed(sc, c.keySet, c.from)
  <2>1. Len(c.keySet) # n
    BY <1>1, <1>3
  <2>2. Completed(c) = c
    BY <2>1 DEF Completed, Complete
  <2> QED BY <1>3, <2>2 DEF Gathered
<1> QED BY <1>2, <1>3

-----------------------------------------------------------------------------
(* The agreement of the parties.                                           *)

\* Every context holds the agreed keys, or some of them.
KeysGathered == sc \in Scenarios /\ \A i \in Parties : ctx[i].made => Gathered(sc, ctx[i])

\* A session is made when the keys are there; the nonces of others that it has
\* are those they have for it.
SessionsNumbered ==
    \A i \in Parties : \A k \in Sessions : ses[i][k].made =>
        /\ Complete(ctx[i]) /\ ctx[i].ok
        /\ ses[i][k].pubNonces \subseteq {j \in Parties : NonceReady(j, k)}

\* A session that gave up its nonce has the party's signature, or a nonce of
\* zero; it has the signatures that other sessions made.
HasSigned(s, t, i, k) ==
    \/ t.ourSig = NoSig /\ 0 \in {HeldNonces(s, k)[i][1], HeldNonces(s, k)[i][2]}
    \/ t.msg \in Messages /\ t.ourSig # NoSig /\ t.ourSig = OwnSig(s, i, k, t.msg)

HoldsSig(t) == t.made /\ t.ourSig # NoSig

SignedSession(s, f, i, k) ==
    /\ f[i][k].local = 0 => f[i][k].pubNonces = SecretKeys(s) /\ HasSigned(s, f[i][k], i, k)
    /\ f[i][k].local # 0 => f[i][k].ourSig = NoSig
    /\ \A j \in f[i][k].sigs : j \in SecretKeys(s) /\ HoldsSig(f[j][k])

\* A signature that does not hold is of different messages, or has no nonce.
FinalSound(s, f, i, k) ==
    f[i][k].final = "invalid" =>
        /\ f[i][k].sigs = SecretKeys(s)
        /\ \/ \E j \in SecretKeys(s) : f[j][k].msg # f[i][k].msg
           \/ NoncesCancel(AgreedKey(s).key, HeldNonces(s, k), f[i][k].msg)

SessionsSigned ==
    \A i \in Parties : \A k \in Sessions :
        ses[i][k].made => SignedSession(sc, ses, i, k) /\ FinalSound(sc, ses, i, k)

AgreementInvariant == KeysGathered /\ SessionsNumbered /\ SessionsSigned

LEMMA AgreementStart ==
    ASSUME MuSigInit
    PROVE  AgreementInvariant
<1>1. /\ sc \in Scenarios /\ ctx = [i \in Parties |-> Absent]
      /\ ses = [i \in Parties |-> [k \in Sessions |-> Absent]]
  BY DEF MuSigInit
<1>2. \A i \in Parties : ctx[i].made = FALSE
  BY <1>1 DEF Absent
<1>3. \A i \in Parties : \A k \in Sessions : ses[i][k].made = FALSE
  BY <1>1 DEF Absent
<1> QED BY <1>1, <1>2, <1>3 DEF AgreementInvariant, KeysGathered, SessionsNumbered, SessionsSigned

LEMMA CompleteContext ==
    ASSUME sc \in Scenarios, NEW c, Gathered(sc, c)
    PROVE  \/ /\ Complete(c) /\ c.keySet = AgreedKeys(sc)
              /\ c.combinedKey = AgreedKey(sc).key /\ c.ok = AgreedKey(sc).ok
           \/ /\ ~Complete(c)
              /\ sc.sort /\ c.from \subseteq SecretKeys(sc)
              /\ Len(c.keySet) \in 1..(Len(sc.keys) - 1) /\ Listed(sc, c.keySet, c.from)
<1>1. Len(sc.keys) \in Nat
  BY ScenarioTypes
<1>2. CASE /\ Len(c.keySet) = Len(sc.keys) /\ c.keySet = AgreedKeys(sc)
           /\ c.combinedKey = AgreedKey(sc).key /\ c.ok = AgreedKey(sc).ok
  BY <1>2, Zenon DEF Complete
<1>3. CASE /\ sc.sort /\ c.from \subseteq SecretKeys(sc)
           /\ Len(c.keySet) \in 1..(Len(sc.keys) - 1) /\ Listed(sc, c.keySet, c.from)
  <2>1. Len(c.keySet) # Len(sc.keys)
    BY <1>1, <1>3
  <2> QED BY <1>3, <2>1, Zenon DEF Complete
<1> QED BY <1>2, <1>3, Zenon DEF Gathered

\* A context changes before its party has a session.
LEMMA ContextAgrees ==
    ASSUME NonceInvariant, AgreementInvariant, NEW i \in Parties, NEW c,
           ctx' = [ctx EXCEPT ![i] = c], UNCHANGED <<sc, ses>>,
           c.made, Gathered(sc, c), \A k \in Sessions : ~ses[i][k].made
    PROVE  AgreementInvariant'
<1>1. Parties' = Parties /\ Sessions' = Sessions
  BY DEF Parties, Sessions
<1>2. /\ ctx'[i] = c
      /\ \A j \in Parties \ {i} : ctx'[j] = ctx[j]
  BY DEF NonceInvariant, ContextNonces
<1>3. KeysGathered'
  BY <1>1, <1>2 DEF AgreementInvariant, KeysGathered
<1>4. SessionsNumbered'
  <2>2. ASSUME NEW j \in Parties, NEW k \in Sessions, NonceReady(j, k)
        PROVE  NonceReady(j, k)'
    BY <1>2, <2>2 DEF NonceReady, TakesEarly, externalNonce
  <2>3. ASSUME NEW j \in Parties, NEW k \in Sessions, ses[j][k].made
        PROVE  /\ Complete(ctx[j])' /\ ctx'[j].ok
               /\ ses[j][k].pubNonces \subseteq {l \in Parties : NonceReady(l, k)'}
    <3>1. j # i
      BY <2>3
    <3>2. ctx'[j] = ctx[j]
      BY <1>2, <3>1
    <3>3. /\ Complete(ctx[j]) /\ ctx[j].ok
          /\ ses[j][k].pubNonces \subseteq {l \in Parties : NonceReady(l, k)}
      BY <2>3, Zenon DEF AgreementInvariant, SessionsNumbered
    <3>4. Complete(ctx[j])' /\ ctx'[j].ok
      BY <3>2, <3>3, Zenon DEF Complete
    <3>5. ses[j][k].pubNonces \subseteq {l \in Parties : NonceReady(l, k)'}
      BY <2>2, <3>3
    <3> QED BY <3>3, <3>4, <3>5
  <2>4. ses' = ses
    OBVIOUS
  <2> QED BY <1>1, <2>3, <2>4 DEF SessionsNumbered
<1>5. SessionsSigned'
  BY <1>1 DEF AgreementInvariant, SessionsSigned
<1> QED BY <1>3, <1>4, <1>5 DEF AgreementInvariant

LEMMA NewContextAgrees ==
    ASSUME NonceInvariant, AgreementInvariant, NEW i \in Parties, NewContext(i)
    PROVE  AgreementInvariant'
<1>1. PICK keySet \in (IF sc.known THEN KeyLists ELSE {<<Key(i)>>}) :
        /\ ~ctx[i].made /\ UNCHANGED <<sc, ses, used>>
        /\ ctx' = [ctx EXCEPT ![i] = Completed(
                      [made |-> TRUE, keySet |-> keySet, from |-> {i},
                       combinedKey |-> Infinity, ok |-> TRUE,
                       sessionNonce |-> IF sc.early THEN 1 ELSE 0])]
  BY DEF NewContext
<1> DEFINE c == [made |-> TRUE, keySet |-> keySet, from |-> {i},
                 combinedKey |-> Infinity, ok |-> TRUE,
                 sessionNonce |-> IF sc.early THEN 1 ELSE 0]
           n == Len(sc.keys)
<1>2. DOMAIN c = Fields /\ c.made /\ c.keySet = keySet /\ c.from = {i}
  BY DEF Fields
<1>3. ctx' = [ctx EXCEPT ![i] = Completed(c)]
  BY <1>1
<1>4. sc \in Scenarios /\ Parties = SecretKeys(sc) /\ n \in Nat \ {0} /\ Parties = 1..n
  BY ScenarioTypes DEF AgreementInvariant, KeysGathered, Parties, SecretKeys
<1> HIDE DEF c
<1>5. \A k \in Sessions : ~ses[i][k].made
  BY <1>1 DEF NonceInvariant, SessionNonces
<1>6. Completed(c).made
  BY <1>2, CompletedKeepsNonces
<1>7. sc.sort \/ sc.known
  BY <1>4, ScenariosAssumption
<1>8. CASE sc.known
  <2> DEFINE list == Listing(sc)
  <2>1. list = [j \in Parties |-> Key(j)]
    BY <1>4 DEF Listing, Key
  <2>2. keySet = list \/ (sc.sort /\ keySet = Reverse(list))
    BY <1>1, <1>8, <2>1 DEF KeyLists
  <2>3. keySet \in Orders(sc) /\ (sc.sort \/ keySet = list)
    BY <1>4, <2>2, ListingsAre
  <2> HIDE DEF list
  <2>4. Len(keySet) = n
    BY <1>4, <2>3, OrderOfKeys
  <2>5. Gathered(sc, Completed(c))
    BY <1>2, <1>4, <2>3, <2>4, CompletedAgrees DEF list
  <2> QED BY <1>1, <1>3, <1>5, <1>6, <2>5, ContextAgrees
<1>9. CASE ~sc.known
  <2>1. keySet = <<Times(sc.keys[i], G)>>
    BY <1>1, <1>9 DEF Key
  <2>2. Len(keySet) = 1 /\ Listed(sc, keySet, {i}) /\ {i} \in SUBSET SecretKeys(sc)
    BY <1>4, <2>1, OneListed
  <2>3. CASE n = 1
    <3>1. keySet \in Orders(sc)
      BY <1>4, <2>2, <2>3, ListedIsOrder
    <3>2. Gathered(sc, Completed(c))
      BY <1>2, <1>4, <1>7, <1>9, <2>2, <2>3, <3>1, CompletedAgrees
    <3> QED BY <1>1, <1>3, <1>5, <1>6, <3>2, ContextAgrees
  <2>4. CASE n # 1
    <3>1. 1 \in 1..(n - 1)
      <4>1. n \in Nat \ {0}
        BY <1>4
      <4> HIDE DEF n
      <4> QED BY <2>4, <4>1
    <3>2. Gathered(sc, Completed(c))
      BY <1>2, <1>4, <1>7, <1>9, <2>2, <3>1, CompletedAgrees
    <3> QED BY <1>1, <1>3, <1>5, <1>6, <3>2, ContextAgrees
  <2> QED BY <2>3, <2>4
<1> QED BY <1>8, <1>9

LEMMA RegisterSignerAgrees ==
    ASSUME NonceInvariant, AgreementInvariant, NEW i \in Parties, NEW j \in Parties,
           RegisterSigner(i, j)
    PROVE  AgreementInvariant'
<1> DEFINE old == ctx[i]
           c == WithSigner(old, j)
           n == Len(sc.keys)
           m == Len(old.keySet)
<1>1. /\ old.made /\ ~Complete(old) /\ j \notin old.from /\ UNCHANGED <<sc, ses, used>>
      /\ ctx' = [ctx EXCEPT ![i] = Completed(c)]
  BY DEF RegisterSigner
<1>2. sc \in Scenarios /\ Parties = SecretKeys(sc) /\ n \in Nat \ {0}
  BY ScenarioTypes DEF AgreementInvariant, KeysGathered, Parties, SecretKeys
<1>3. DOMAIN old = Fields
  BY <1>1 DEF NonceInvariant, ContextNonces
<1>4. Gathered(sc, old)
  BY <1>1 DEF AgreementInvariant, KeysGathered
<1>5. /\ sc.sort /\ old.from \in SUBSET SecretKeys(sc)
      /\ m \in 1..(n - 1) /\ Listed(sc, old.keySet, old.from)
  BY <1>1, <1>2, <1>4, CompleteContext
<1>6. \A k \in Sessions : ~ses[i][k].made
  BY <1>1 DEF AgreementInvariant, SessionsNumbered
<1> DEFINE longer == Append(old.keySet, Times(sc.keys[j], G))
<1>8. /\ DOMAIN c = Fields /\ c.keySet = longer /\ c.from = old.from \cup {j}
      /\ c.made = old.made
  BY <1>3 DEF WithSigner, Fields, Key
<1> HIDE DEF c
<1>9. Len(longer) = m + 1 /\ Listed(sc, longer, c.from) /\ c.from \in SUBSET SecretKeys(sc)
  <2>1. m \in Nat
    <3>1. m \in 1..(n - 1) /\ n \in Nat \ {0}
      BY <1>2, <1>5
    <3> HIDE DEF m, n
    <3> QED BY <3>1
  <2>2. Len(longer) = m + 1 /\ Listed(sc, longer, old.from \cup {j})
    <3> DEFINE keySet == old.keySet
               from == old.from
    <3>1. Len(keySet) \in Nat /\ Listed(sc, keySet, from) /\ j \notin from
      BY <1>1, <1>5, <2>1
    <3> HIDE DEF keySet, from
    <3>2. /\ Len(Append(keySet, Times(sc.keys[j], G))) = Len(keySet) + 1
          /\ Listed(sc, Append(keySet, Times(sc.keys[j], G)), from \cup {j})
      BY <3>1, OneMoreListed
    <3> QED BY <3>2 DEF keySet, from
  <2>3. c.from \in SUBSET SecretKeys(sc)
    BY <1>2, <1>5, <1>8
  <2> QED BY <1>8, <2>2, <2>3
<1>10. Completed(c).made
  BY <1>1, <1>8, CompletedKeepsNonces
<1> HIDE DEF longer, old
<1>11. Gathered(sc, Completed(c))
  <2>1. CASE m + 1 = n
    <3>1. longer \in Orders(sc)
      BY <1>2, <1>9, <2>1, ListedIsOrder
    <3> QED BY <1>2, <1>5, <1>8, <1>9, <2>1, <3>1, CompletedAgrees
  <2>2. CASE m + 1 # n
    <3>1. m + 1 \in 1..(n - 1)
      BY <1>2, <1>5, <2>2
    <3> QED BY <1>2, <1>5, <1>8, <1>9, <3>1, CompletedAgrees
  <2> QED BY <2>1, <2>2
<1> QED BY <1>1, <1>6, <1>10, <1>11, ContextAgrees

\* The sessions but one stay, and that one keeps its signature.
OneChanges(s, K, f, g, i, k) ==
    /\ \A j \in SecretKeys(s) : \A l \in K : j # i \/ l # k => g[j][l] = f[j][l]
    /\ HoldsSig(f[i][k]) => HoldsSig(g[i][k]) /\ g[i][k].msg = f[i][k].msg

\* A session keeps what it says of others when one of them changes, if that
\* one keeps its signature.
LEMMA OthersSound ==
    ASSUME NEW s, NEW K, NEW f, NEW g, NEW i \in SecretKeys(s), NEW k \in K,
           OneChanges(s, K, f, g, i, k), NEW j \in SecretKeys(s), NEW l \in K, j # i \/ l # k,
           SignedSession(s, f, j, l), FinalSound(s, f, j, l)
    PROVE  SignedSession(s, g, j, l) /\ FinalSound(s, g, j, l)
<1>1. g[j][l] = f[j][l]
  BY DEF OneChanges
<1>2. ASSUME NEW h \in SecretKeys(s), HoldsSig(f[h][l])
      PROVE  HoldsSig(g[h][l]) /\ g[h][l].msg = f[h][l].msg
  <2>1. CASE h = i /\ l = k
    BY <1>2, <2>1 DEF OneChanges
  <2>2. CASE h # i \/ l # k
    BY <1>2, <2>2 DEF OneChanges
  <2> QED BY <2>1, <2>2
<1>3. SignedSession(s, g, j, l)
  <2>1. \A h \in f[j][l].sigs : h \in SecretKeys(s) /\ HoldsSig(f[h][l])
    BY Zenon DEF SignedSession
  <2>2. \A h \in g[j][l].sigs : h \in SecretKeys(s) /\ HoldsSig(g[h][l])
    BY <1>1, <1>2, <2>1
  <2> QED BY <1>1, <2>2, Zenon DEF SignedSession
<1>4. FinalSound(s, g, j, l)
  <2> SUFFICES ASSUME f[j][l].final = "invalid"
               PROVE  /\ g[j][l].sigs = SecretKeys(s)
                      /\ \/ \E h \in SecretKeys(s) : g[h][l].msg # g[j][l].msg
                         \/ NoncesCancel(AgreedKey(s).key, HeldNonces(s, l), g[j][l].msg)
    BY <1>1, Zenon DEF FinalSound
  <2>1. /\ f[j][l].sigs = SecretKeys(s)
        /\ \/ \E h \in SecretKeys(s) : f[h][l].msg # f[j][l].msg
           \/ NoncesCancel(AgreedKey(s).key, HeldNonces(s, l), f[j][l].msg)
    BY Zenon DEF FinalSound
  <2>2. \A h \in SecretKeys(s) : HoldsSig(f[h][l])
    BY <2>1, Zenon DEF SignedSession
  <2>3. \A h \in SecretKeys(s) : g[h][l].msg = f[h][l].msg
    BY <1>2, <2>2, Zenon
  <2>4. CASE \E h \in SecretKeys(s) : f[h][l].msg # f[j][l].msg
    BY <1>1, <2>1, <2>3, <2>4, Zenon
  <2>5. CASE NoncesCancel(AgreedKey(s).key, HeldNonces(s, l), f[j][l].msg)
    BY <1>1, <2>1, <2>5, Zenon
  <2> QED BY <2>1, <2>4, <2>5, Zenon
<1> QED BY <1>3, <1>4

\* One session changes, and no context.
LEMMA SessionAgrees ==
    ASSUME NonceInvariant, AgreementInvariant, NEW i \in Parties, NEW k \in Sessions, NEW t,
           ses[i][k].made, ses' = [ses EXCEPT ![i][k] = t], UNCHANGED <<sc, ctx>>,
           t.made, t.number = ses[i][k].number,
           t.pubNonces \subseteq {j \in Parties : NonceReady(j, k)},
           HoldsSig(ses[i][k]) => t.ourSig # NoSig /\ t.msg = ses[i][k].msg,
           SignedSession(sc, ses', i, k), FinalSound(sc, ses', i, k)
    PROVE  AgreementInvariant'
<1>1. Parties' = Parties /\ Sessions' = Sessions /\ Parties = SecretKeys(sc)
  BY DEF Parties, Sessions, SecretKeys
<1>2. /\ ses'[i][k] = t
      /\ \A j \in Parties : \A l \in Sessions : j # i \/ l # k => ses'[j][l] = ses[j][l]
  BY DEF NonceInvariant, SessionNonces
<1>3. KeysGathered'
  BY <1>1 DEF AgreementInvariant, KeysGathered
<1>4. \A j \in Parties : \A l \in Sessions : ses'[j][l].made <=> ses[j][l].made
  BY <1>2
<1>5. \A j \in Parties : \A l \in Sessions : NonceReady(j, l)' <=> NonceReady(j, l)
  BY <1>4 DEF NonceReady, TakesEarly, externalNonce
<1>6. SessionsNumbered'
  <2>2. ASSUME NEW j \in Parties, NEW l \in Sessions, ses'[j][l].made
        PROVE  /\ Complete(ctx[j])' /\ ctx'[j].ok
               /\ ses'[j][l].pubNonces \subseteq {h \in Parties : NonceReady(h, l)'}
    <3>1. /\ Complete(ctx[j]) /\ ctx[j].ok
          /\ ses[j][l].pubNonces \subseteq {h \in Parties : NonceReady(h, l)}
      BY <1>4, <2>2, Zenon DEF AgreementInvariant, SessionsNumbered
    <3>2. Complete(ctx[j])' /\ ctx'[j].ok
      BY <3>1, Zenon DEF Complete
    <3>3. ses'[j][l].pubNonces \subseteq {h \in Parties : NonceReady(h, l)}
      BY <1>2, <3>1
    <3>4. {h \in Parties : NonceReady(h, l)'} = {h \in Parties : NonceReady(h, l)}
      BY <1>5
    <3> QED BY <1>4, <3>1, <3>2, <3>3, <3>4
  <2> QED BY <1>1, <2>2 DEF SessionsNumbered
<1>7. SessionsSigned'
  <2>1. ASSUME NEW j \in Parties, NEW l \in Sessions, ses'[j][l].made
        PROVE  SignedSession(sc, ses', j, l) /\ FinalSound(sc, ses', j, l)
    <3>1. CASE j = i /\ l = k
      BY <3>1
    <3>2. CASE j # i \/ l # k
      <4>1. SignedSession(sc, ses, j, l) /\ FinalSound(sc, ses, j, l)
        BY <1>4, <2>1, Zenon DEF AgreementInvariant, SessionsSigned
      <4>2. HoldsSig(ses[i][k]) => HoldsSig(ses'[i][k]) /\ ses'[i][k].msg = ses[i][k].msg
        BY <1>2 DEF HoldsSig
      <4> DEFINE f == ses
                 g == ses'
                 K == Sessions
                 s == sc
      <4>3. /\ OneChanges(s, K, f, g, i, k)
            /\ SignedSession(s, f, j, l) /\ FinalSound(s, f, j, l)
            /\ i \in SecretKeys(s) /\ j \in SecretKeys(s) /\ k \in K /\ l \in K
        BY <1>1, <1>2, <4>1, <4>2 DEF OneChanges
      <4> HIDE DEF f, g, K, s
      <4>4. SignedSession(s, g, j, l) /\ FinalSound(s, g, j, l)
        BY <3>2, <4>3, OthersSound
      <4> QED BY <4>4 DEF s, g
    <3> QED BY <3>1, <3>2
  <2> QED BY <1>1, <2>1 DEF SessionsSigned
<1> QED BY <1>3, <1>6, <1>7 DEF AgreementInvariant

\* What the nonces are when those of all parties are out.
LEMMA NoncesAgreed ==
    ASSUME NonceInvariant, AgreementInvariant, NEW k \in Sessions
    PROVE  /\ \A j \in Parties : NonceReady(j, k) => SecNonce(j, k) = HeldNonces(sc, k)[j]
           /\ (\A j \in Parties : NonceReady(j, k)) =>
                  CombinedNonce(k) = Combination(HeldNonces(sc, k))
<1>1. Parties = SecretKeys(sc)
  BY DEF Parties, SecretKeys
<1>2. ASSUME NEW j \in Parties, NonceReady(j, k)
      PROVE  SecNonce(j, k) = HeldNonces(sc, k)[j]
  <2>1. NonceNumber(j, k) = HeldNumber(sc, j, k)
    <3>1. ses[j][k].made => ses[j][k].number = HeldNumber(sc, j, k)
      BY Zenon DEF NonceInvariant, SessionNonces
    <3>2. TakesEarly(k) => HeldNumber(sc, j, k) = 1
      BY Zenon DEF TakesEarly, HeldNumber
    <3>3. ~TakesEarly(k) /\ externalNonce(j, k) # 0 =>
              HeldNumber(sc, j, k) = externalNonce(j, k)
      BY Zenon DEF TakesEarly, HeldNumber, externalNonce
    <3> QED BY <1>2, <3>1, <3>2, <3>3, Zenon DEF NonceNumber, NonceReady
  <2>2. SecNonce(j, k) = Nonce(j, sc.keys[j], HeldNumber(sc, j, k))
    BY <2>1, Zenon DEF SecNonce
  <2> QED BY <1>1, <2>2 DEF HeldNonces
<1>3. ASSUME \A j \in Parties : NonceReady(j, k)
      PROVE  CombinedNonce(k) = Combination(HeldNonces(sc, k))
  <2> DEFINE ks == HeldNonces(sc, k)
  <2>1. \A j \in Parties : SecNonce(j, k) = ks[j]
    BY <1>2, <1>3
  <2>2. DOMAIN ks = Parties
    BY <1>1 DEF HeldNonces
  <2> HIDE DEF ks
  <2>3. [j \in Parties |-> PubNonce(SecNonce(j, k))] = [j \in Parties |-> PubNonce(ks[j])]
    BY <2>1, Zenon
  <2>4. PubNonces(ks) = [j \in Parties |-> PubNonce(ks[j])]
    BY <2>2 DEF PubNonces
  <2>5. CombinedNonce(k) = AggregateNonces(PubNonces(ks))
    BY <2>3, <2>4, Zenon DEF CombinedNonce
  <2> QED BY <2>5 DEF Combination, ks
<1> QED BY <1>2, <1>3

\* A session's keys are all there and agreed.
LEMMA SessionKeys ==
    ASSUME NonceInvariant, AgreementInvariant, NEW i \in Parties, NEW k \in Sessions,
           ses[i][k].made
    PROVE  /\ sc \in Scenarios /\ i \in SecretKeys(sc) /\ k \in 1..sc.sessions
           /\ ctx[i].keySet = AgreedKeys(sc) /\ ctx[i].combinedKey = AgreedKey(sc).key
           /\ AgreedKey(sc).ok /\ AggregateKeys(ctx[i].keySet) = AgreedKey(sc)
<1>1. sc \in Scenarios /\ i \in SecretKeys(sc) /\ k \in 1..sc.sessions
  BY DEF AgreementInvariant, KeysGathered, Parties, SecretKeys, Sessions
<1>2. ctx[i].made /\ Complete(ctx[i]) /\ ctx[i].ok
  BY Zenon DEF NonceInvariant, SessionNonces, AgreementInvariant, SessionsNumbered
<1>3. Gathered(sc, ctx[i])
  BY <1>2, Zenon DEF AgreementInvariant, KeysGathered
<1>4. /\ ctx[i].keySet = AgreedKeys(sc)
      /\ ctx[i].combinedKey = AgreedKey(sc).key /\ ctx[i].ok = AgreedKey(sc).ok
  BY <1>1, <1>2, <1>3, CompleteContext, Zenon
<1>5. AgreedKey(sc).ok
  BY <1>2, <1>4, Zenon
<1>6. AggregateKeys(ctx[i].keySet) = AgreedKey(sc)
  BY <1>4, Zenon DEF AggregateKeys, AgreedKey
<1> QED BY <1>1, <1>4, <1>5, <1>6, Zenon

LEMMA RegisterPubNonceAgrees ==
    ASSUME NonceInvariant, AgreementInvariant, NEW i \in Parties, NEW k \in Sessions,
           NEW j \in Parties, RegisterPubNonce(i, k, j)
    PROVE  AgreementInvariant'
<1> DEFINE old == ses[i][k]
           t == [old EXCEPT !.pubNonces = @ \cup {j}]
<1>1. /\ old.made /\ NonceReady(j, k) /\ UNCHANGED <<sc, ctx>>
      /\ ses' = [ses EXCEPT ![i][k] = t] /\ j \notin old.pubNonces
  BY DEF RegisterPubNonce
<1>2. DOMAIN old = SessionFields
  BY <1>1 DEF NonceInvariant, SessionNonces
<1>3. /\ t.made = old.made /\ t.number = old.number /\ t.pubNonces = old.pubNonces \cup {j}
      /\ t.local = old.local /\ t.ourSig = old.ourSig /\ t.msg = old.msg
      /\ t.sigs = old.sigs /\ t.final = old.final
  BY <1>2 DEF SessionFields
<1>4. /\ SignedSession(sc, ses, i, k) /\ FinalSound(sc, ses, i, k)
      /\ old.pubNonces \subseteq {h \in Parties : NonceReady(h, k)}
  BY <1>1, Zenon DEF AgreementInvariant, SessionsSigned, SessionsNumbered
<1> HIDE DEF t
<1>5. /\ ses'[i][k] = t
      /\ \A h \in Parties : h # i => ses'[h][k] = ses[h][k]
  BY <1>1 DEF NonceInvariant, SessionNonces
<1>6. \A h \in Parties : /\ HoldsSig(ses[h][k]) => HoldsSig(ses'[h][k])
                         /\ ses'[h][k].msg = ses[h][k].msg
  BY <1>3, <1>5 DEF HoldsSig
<1>7. Parties = SecretKeys(sc)
  BY DEF Parties, SecretKeys
<1>8. SignedSession(sc, ses', i, k)
  <2>1. old.local # 0
    BY <1>1, <1>4, <1>7 DEF SignedSession
  <2>2. t.local # 0 /\ t.ourSig = NoSig
    BY <1>3, <1>4, <2>1 DEF SignedSession
  <2>3. \A h \in old.sigs : h \in SecretKeys(sc) /\ HoldsSig(ses[h][k])
    BY <1>4, Zenon DEF SignedSession
  <2>4. \A h \in t.sigs : h \in SecretKeys(sc) /\ HoldsSig(ses'[h][k])
    BY <1>3, <1>6, <1>7, <2>3
  <2> QED BY <1>5, <2>2, <2>4, Zenon DEF SignedSession
<1>9. FinalSound(sc, ses', i, k)
  <2>1. ses'[i][k].final = old.final /\ ses'[i][k].sigs = old.sigs /\ ses'[i][k].msg = old.msg
    BY <1>3, <1>5
  <2> QED BY <1>4, <1>6, <1>7, <2>1, Zenon DEF FinalSound
<1>10. t.pubNonces \subseteq {h \in Parties : NonceReady(h, k)}
  BY <1>1, <1>3, <1>4
<1>11. HoldsSig(old) => t.ourSig # NoSig /\ t.msg = old.msg
  BY <1>3 DEF HoldsSig
<1> QED BY <1>1, <1>3, <1>8, <1>9, <1>10, <1>11, SessionAgrees

LEMMA SignSessionAgrees ==
    ASSUME NonceInvariant, AgreementInvariant, NEW i \in Parties, NEW k \in Sessions,
           NEW m \in Messages, SignSession(i, k, m)
    PROVE  AgreementInvariant'
<1> DEFINE old == ses[i][k]
           half == HeldNonces(sc, k)[i]
           sig == SignWith(AggregateKeys(ctx[i].keySet), ctx[i].keySet, sc.keys[i],
                           SecNonce(i, k), CombinedNonce(k), m)
           t == [old EXCEPT !.local = 0]
           signed == [t EXCEPT !.msg = m, !.ourSig = sig, !.sigs = @ \cup {i}]
<1>1. /\ old.made /\ old.local # 0 /\ old.pubNonces = Parties /\ UNCHANGED <<sc, ctx>>
      /\ \/ sig = NoSig /\ ses' = [ses EXCEPT ![i][k] = t]
         \/ sig # NoSig /\ ses' = [ses EXCEPT ![i][k] = signed]
  BY DEF SignSession
<1>2. DOMAIN old = SessionFields
  BY <1>1 DEF NonceInvariant, SessionNonces
<1>3. /\ DOMAIN t = SessionFields /\ t.made = old.made /\ t.number = old.number
      /\ t.pubNonces = old.pubNonces /\ t.local = 0 /\ t.ourSig = old.ourSig
      /\ t.msg = old.msg /\ t.sigs = old.sigs /\ t.final = old.final
  BY <1>2 DEF SessionFields
<1>4. \/ sig = NoSig /\ 0 \in {half[1], half[2]}
      \/ sig # NoSig /\ sig = OwnSig(sc, i, k, m)
  <2>1. /\ sc \in Scenarios /\ i \in SecretKeys(sc) /\ k \in 1..sc.sessions
        /\ ctx[i].keySet = AgreedKeys(sc) /\ AgreedKey(sc).ok
        /\ AggregateKeys(ctx[i].keySet) = AgreedKey(sc)
    BY <1>1, SessionKeys
  <2>2. \A j \in Parties : NonceReady(j, k)
    BY <1>1, Zenon DEF AgreementInvariant, SessionsNumbered
  <2>3. SecNonce(i, k) = half /\ CombinedNonce(k) = Combination(HeldNonces(sc, k))
    BY <2>2, NoncesAgreed
  <2>4. sig = SignWith(AgreedKey(sc), AgreedKeys(sc), sc.keys[i], half,
                       Combination(HeldNonces(sc, k)), m)
    BY <2>1, <2>3, Zenon
  <2> DEFINE by == SignWith(AgreedKey(sc), AgreedKeys(sc), sc.keys[i], half,
                            Combination(HeldNonces(sc, k)), m)
  <2>5. \/ by = NoSig /\ 0 \in {half[1], half[2]}
        \/ by # NoSig /\ by = OwnSig(sc, i, k, m)
    BY <2>1, SignWithIs, Zenon
  <2> HIDE DEF by, sig, half
  <2>6. sig = by
    BY <2>4 DEF by
  <2> QED BY <2>5, <2>6
<1>5. /\ SignedSession(sc, ses, i, k) /\ FinalSound(sc, ses, i, k)
      /\ old.pubNonces \subseteq {h \in Parties : NonceReady(h, k)}
  BY <1>1, Zenon DEF AgreementInvariant, SessionsSigned, SessionsNumbered
<1>6. i \in SecretKeys(sc) /\ Parties = SecretKeys(sc)
  BY DEF Parties, SecretKeys
<1>7. /\ old.ourSig = NoSig /\ ~HoldsSig(old) /\ old.final # "invalid"
      /\ \A h \in old.sigs : h \in SecretKeys(sc) /\ HoldsSig(ses[h][k]) /\ h # i
  <2>1. old.ourSig = NoSig /\ ~HoldsSig(old)
    BY <1>1, <1>5, Zenon DEF SignedSession, HoldsSig
  <2>2. \A h \in old.sigs : h \in SecretKeys(sc) /\ HoldsSig(ses[h][k])
    BY <1>5, Zenon DEF SignedSession
  <2>3. i \notin old.sigs
    BY <2>1, <2>2, Zenon
  <2>4. old.final # "invalid"
    BY <1>5, <1>6, <2>3, Zenon DEF FinalSound
  <2> QED BY <2>1, <2>2, <2>3, <2>4, Zenon
<1> HIDE DEF sig, t, half
<1>8. CASE sig = NoSig /\ ses' = [ses EXCEPT ![i][k] = t]
  <2>1. /\ ses'[i][k] = t
        /\ \A h \in Parties : h # i => ses'[h][k] = ses[h][k]
    BY <1>8 DEF NonceInvariant, SessionNonces
  <2>2. HasSigned(sc, t, i, k)
    BY <1>3, <1>4, <1>7, <1>8, Zenon DEF HasSigned, half
  <2>3. \A h \in t.sigs : h \in SecretKeys(sc) /\ HoldsSig(ses'[h][k])
    BY <1>3, <1>6, <1>7, <2>1, Zenon
  <2>4. SignedSession(sc, ses', i, k)
    BY <1>1, <1>3, <1>6, <2>1, <2>2, <2>3, Zenon DEF SignedSession
  <2>5. FinalSound(sc, ses', i, k)
    BY <1>3, <1>7, <2>1, Zenon DEF FinalSound
  <2>6. t.made /\ t.number = old.number
        /\ t.pubNonces \subseteq {h \in Parties : NonceReady(h, k)}
    BY <1>1, <1>3, <1>5
  <2> QED BY <1>1, <1>7, <1>8, <2>4, <2>5, <2>6, SessionAgrees
<1>9. CASE sig # NoSig /\ ses' = [ses EXCEPT ![i][k] = signed]
  <2>1. /\ signed.made = old.made /\ signed.number = old.number
        /\ signed.pubNonces = old.pubNonces /\ signed.local = 0 /\ signed.ourSig = sig
        /\ signed.msg = m /\ signed.sigs = old.sigs \cup {i} /\ signed.final = old.final
    BY <1>3 DEF SessionFields
  <2> HIDE DEF signed
  <2>2. /\ ses'[i][k] = signed
        /\ \A h \in Parties : h # i => ses'[h][k] = ses[h][k]
    BY <1>9 DEF NonceInvariant, SessionNonces
  <2>3. HasSigned(sc, signed, i, k)
    BY <1>4, <1>9, <2>1, Zenon DEF HasSigned
  <2>4. HoldsSig(signed)
    BY <1>1, <1>9, <2>1, Zenon DEF HoldsSig
  <2>5. \A h \in signed.sigs : h \in SecretKeys(sc) /\ HoldsSig(ses'[h][k])
    BY <1>6, <1>7, <2>1, <2>2, <2>4
  <2>6. SignedSession(sc, ses', i, k)
    BY <1>1, <1>6, <2>1, <2>2, <2>3, <2>5, Zenon DEF SignedSession
  <2>7. FinalSound(sc, ses', i, k)
    BY <1>7, <2>1, <2>2, Zenon DEF FinalSound
  <2>8. signed.made /\ signed.number = old.number
        /\ signed.pubNonces \subseteq {h \in Parties : NonceReady(h, k)}
    BY <1>1, <1>5, <2>1
  <2> QED BY <1>1, <1>7, <1>9, <2>6, <2>7, <2>8, SessionAgrees
<1> QED BY <1>1, <1>8, <1>9

\* Where the nonces are all out, the last signature completes one that holds,
\* unless the messages differ or the nonces cancel.
LEMMA FinalSigHolds ==
    ASSUME NonceInvariant, AgreementInvariant, NEW i \in Parties, NEW k \in Sessions,
           ses[i][k].made, \A h \in Parties : HoldsSig(ses[h][k]),
           \A h \in Parties : ses[h][k].msg = ses[i][k].msg,
           ~NoncesCancel(AgreedKey(sc).key, HeldNonces(sc, k), ses[i][k].msg)
    PROVE  FinalSig(i, k) = "valid"
<1> DEFINE m == ses[i][k].msg
           agg == AgreedKey(sc)
           R == AgreedNonce(sc, k, m).R
           sigs == [j \in SecretKeys(sc) |-> OwnSig(sc, j, k, m)]
<1>1. /\ sc \in Scenarios /\ k \in 1..sc.sessions
      /\ ctx[i].combinedKey = agg.key /\ agg.ok /\ AggregateKeys(ctx[i].keySet) = agg
  BY SessionKeys
<1>2. Parties = SecretKeys(sc)
  BY DEF Parties, SecretKeys
<1>3. \A j \in Parties :
          /\ ses[j][k].pubNonces = Parties
          /\ m \in Messages /\ ses[j][k].ourSig = OwnSig(sc, j, k, m)
  <2> SUFFICES ASSUME NEW j \in Parties
               PROVE  /\ ses[j][k].pubNonces = Parties
                      /\ m \in Messages /\ ses[j][k].ourSig = OwnSig(sc, j, k, m)
    OBVIOUS
  <2>1. ses[j][k].made /\ ses[j][k].ourSig # NoSig /\ ses[j][k].msg = m
    BY Zenon DEF HoldsSig
  <2>2. SignedSession(sc, ses, j, k)
    BY <2>1, Zenon DEF AgreementInvariant, SessionsSigned
  <2>3. ses[j][k].pubNonces = Parties /\ HasSigned(sc, ses[j][k], j, k)
    BY <1>2, <2>1, <2>2, Zenon DEF SignedSession
  <2> QED BY <2>1, <2>3, Zenon DEF HasSigned
<1>4. CombinedNonce(k) = Combination(HeldNonces(sc, k))
  <2>1. ses[i][k].pubNonces \subseteq {j \in Parties : NonceReady(j, k)}
    BY Zenon DEF AgreementInvariant, SessionsNumbered
  <2>2. \A j \in Parties : NonceReady(j, k)
    BY <1>3, <2>1
  <2> QED BY <2>2, NoncesAgreed
<1>5. [j \in Parties |-> ses[j][k].ourSig] = sigs
  BY <1>2, <1>3, Zenon
<1>6. computeSigningNonce(CombinedNonce(k), agg.key, m).R = R
  BY <1>4, Zenon DEF AgreedNonce
<1>7. schnorrVerify([r |-> R[1], s |-> CombineSigs(agg, R, sigs, m)], m, agg.key[1])
  BY <1>1, <1>3, AllSigned, Zenon
<1> DEFINE valid == schnorrVerify([r |-> R[1], s |-> CombineSigs(agg, R, sigs, m)], m,
                                  ctx[i].combinedKey[1])
<1>8. valid
  BY <1>1, <1>7, Zenon
<1>9. FinalSig(i, k) = IF valid THEN "valid" ELSE "invalid"
  BY <1>1, <1>5, <1>6, Zenon DEF FinalSig
<1> QED BY <1>8, <1>9, Zenon

LEMMA CombineSigAgrees ==
    ASSUME NonceInvariant, AgreementInvariant, NEW i \in Parties, NEW k \in Sessions,
           NEW j \in Parties, CombineSig(i, k, j)
    PROVE  AgreementInvariant'
<1> DEFINE old == ses[i][k]
           f == IF old.sigs \cup {j} = Parties THEN FinalSig(i, k) ELSE old.final
           t == [old EXCEPT !.sigs = @ \cup {j}, !.final = f]
<1>1. /\ old.made /\ i # j /\ HoldsSig(ses[j][k]) /\ j \notin old.sigs
      /\ UNCHANGED <<sc, ctx>>
      /\ ses' = [ses EXCEPT ![i][k] = t]
  BY DEF CombineSig, HoldsSig
<1>2. DOMAIN old = SessionFields
  BY <1>1 DEF NonceInvariant, SessionNonces
<1>3. /\ t.made = old.made /\ t.number = old.number /\ t.pubNonces = old.pubNonces
      /\ t.local = old.local /\ t.ourSig = old.ourSig /\ t.msg = old.msg
      /\ t.sigs = old.sigs \cup {j} /\ t.final = f
  BY <1>2 DEF SessionFields
<1>4. /\ SignedSession(sc, ses, i, k) /\ FinalSound(sc, ses, i, k)
      /\ old.pubNonces \subseteq {h \in Parties : NonceReady(h, k)}
  BY <1>1, Zenon DEF AgreementInvariant, SessionsSigned, SessionsNumbered
<1> HIDE DEF t
<1>5. /\ ses'[i][k] = t
      /\ \A h \in Parties : h # i => ses'[h][k] = ses[h][k]
  BY <1>1 DEF NonceInvariant, SessionNonces
<1>6. \A h \in Parties : /\ HoldsSig(ses[h][k]) => HoldsSig(ses'[h][k])
                         /\ ses'[h][k].msg = ses[h][k].msg
  BY <1>3, <1>5 DEF HoldsSig
<1>7. Parties = SecretKeys(sc)
  BY DEF Parties, SecretKeys
<1>8. \A h \in t.sigs : h \in Parties /\ HoldsSig(ses[h][k])
  <2>1. \A h \in old.sigs : h \in Parties /\ HoldsSig(ses[h][k])
    BY <1>4, <1>7, Zenon DEF SignedSession
  <2> QED BY <1>1, <1>3, <2>1
<1>9. SignedSession(sc, ses', i, k)
  <2>1. \A h \in t.sigs : h \in SecretKeys(sc) /\ HoldsSig(ses'[h][k])
    BY <1>6, <1>7, <1>8, Zenon
  <2>2. HasSigned(sc, old, i, k) => HasSigned(sc, t, i, k)
    BY <1>3, Zenon DEF HasSigned
  <2> QED BY <1>3, <1>4, <1>5, <2>1, <2>2, Zenon DEF SignedSession
<1>10. FinalSound(sc, ses', i, k)
  <2> SUFFICES ASSUME t.final = "invalid"
               PROVE  /\ t.sigs = SecretKeys(sc)
                      /\ \/ \E h \in SecretKeys(sc) : ses'[h][k].msg # t.msg
                         \/ NoncesCancel(AgreedKey(sc).key, HeldNonces(sc, k), t.msg)
    BY <1>5, Zenon DEF FinalSound
  <2>1. CASE t.sigs = Parties
    <3>1. FinalSig(i, k) = "invalid"
      BY <1>3, <2>1
    <3>2. \A h \in Parties : HoldsSig(ses[h][k])
      BY <1>8, <2>1
    <3>3. \/ \E h \in Parties : ses[h][k].msg # old.msg
          \/ NoncesCancel(AgreedKey(sc).key, HeldNonces(sc, k), old.msg)
      <4>1. "valid" # "invalid"
        OBVIOUS
      <4> QED BY <1>1, <3>1, <3>2, <4>1, FinalSigHolds, Zenon
    <3> QED BY <1>3, <1>6, <1>7, <2>1, <3>3, Zenon
  \* Once all signatures are there, none is combined.
  <2>2. CASE t.sigs # Parties
    <3>1. old.final = "invalid"
      BY <1>3, <2>2
    <3>2. old.sigs = Parties
      BY <1>4, <1>7, <3>1, Zenon DEF FinalSound
    <3> QED BY <1>1, <3>2
  <2> QED BY <2>1, <2>2
<1>11. /\ t.pubNonces \subseteq {h \in Parties : NonceReady(h, k)}
       /\ t.made /\ t.number = old.number
       /\ HoldsSig(old) => t.ourSig # NoSig /\ t.msg = old.msg
  BY <1>1, <1>3, <1>4 DEF HoldsSig
<1> QED BY <1>1, <1>9, <1>10, <1>11, SessionAgrees

LEMMA NewSessionAgrees ==
    ASSUME NonceInvariant, AgreementInvariant, NEW i \in Parties, NEW k \in Sessions,
           NewSession(i, k)
    PROVE  AgreementInvariant'
<1> DEFINE old == ctx[i]
           early == old.sessionNonce
           given == externalNonce(i, k)
           number == IF early # 0 THEN early ELSE IF given # 0 THEN given ELSE k
           t == [made |-> TRUE, number |-> number, local |-> number,
                 pubNonces |-> {i}, msg |-> 0, ourSig |-> NoSig,
                 sigs |-> {}, final |-> "none"]
           c == EarlyTaken(old)
<1>1. /\ old.made /\ Complete(old) /\ old.ok
      /\ ~ses[i][k].made /\ UNCHANGED <<sc, used>>
      /\ ses' = [ses EXCEPT ![i][k] = t] /\ ctx' = [ctx EXCEPT ![i] = c]
  BY DEF NewSession
<1>2. DOMAIN old = Fields
  BY <1>1 DEF NonceInvariant, ContextNonces
<1>3. /\ c.made = old.made /\ c.keySet = old.keySet /\ c.from = old.from
      /\ c.combinedKey = old.combinedKey /\ c.ok = old.ok
  BY <1>2 DEF EarlyTaken, Fields
<1>4. /\ t.made /\ t.local = number /\ t.pubNonces = {i}
      /\ t.ourSig = NoSig /\ t.sigs = {} /\ t.final = "none"
  OBVIOUS
<1>5. Parties' = Parties /\ Sessions' = Sessions /\ Parties = SecretKeys(sc)
  BY <1>1 DEF Parties, Sessions, SecretKeys
<1>7. number # 0
  BY NewSessionNumber, Zenon
<1> HIDE DEF t, c, number
<1>8. /\ ctx'[i] = c
      /\ \A j \in Parties \ {i} : ctx'[j] = ctx[j]
  BY <1>1 DEF NonceInvariant, ContextNonces
<1>9. /\ ses'[i][k] = t
      /\ \A j \in Parties : \A l \in Sessions : j # i \/ l # k => ses'[j][l] = ses[j][l]
  BY <1>1 DEF NonceInvariant, SessionNonces
<1>10. KeysGathered'
  <2>1. ASSUME NEW j \in Parties, ctx'[j].made PROVE Gathered(sc, ctx'[j])
    <3>1. CASE j = i
      <4>1. Gathered(sc, old)
        BY <1>1, Zenon DEF AgreementInvariant, KeysGathered
      <4>2. Gathered(sc, c)
        BY <1>3, <4>1, Zenon DEF Gathered
      <4> QED BY <1>8, <3>1, <4>2
    <3>2. CASE j # i
      <4>1. ctx'[j] = ctx[j]
        BY <1>8, <3>2
      <4> QED BY <2>1, <4>1, Zenon DEF AgreementInvariant, KeysGathered
    <3> QED BY <3>1, <3>2
  <2>2. sc' = sc /\ Parties' = Parties /\ sc \in Scenarios
    BY <1>1, <1>5 DEF AgreementInvariant, KeysGathered
  <2> QED BY <2>1, <2>2, Zenon DEF KeysGathered
<1>11. SessionsNumbered'
  <2>2. ASSUME NEW j \in Parties, NEW l \in Sessions, NonceReady(j, l)
        PROVE  NonceReady(j, l)'
    <3>1. ses[j][l].made => ses'[j][l].made
      BY <1>4, <1>9
    <3>2. ctx[j].made => ctx'[j].made
      BY <1>1, <1>3, <1>8
    <3> QED BY <1>1, <2>2, <3>1, <3>2 DEF NonceReady, TakesEarly, externalNonce
  <2>3. ASSUME NEW j \in Parties, NEW l \in Sessions, ses'[j][l].made
        PROVE  /\ Complete(ctx[j])' /\ ctx'[j].ok
               /\ ses'[j][l].pubNonces \subseteq {h \in Parties : NonceReady(h, l)'}
    <3>1. CASE j = i /\ l = k
      <4>1. Complete(ctx[j])' /\ ctx'[j].ok
        BY <1>1, <1>3, <1>8, <3>1, Zenon DEF Complete
      <4>2. NonceReady(i, k)'
        BY <1>4, <1>9, Zenon DEF NonceReady
      <4> QED BY <1>4, <1>9, <3>1, <4>1, <4>2
    <3>2. CASE j # i \/ l # k
      <4>1. ses'[j][l] = ses[j][l] /\ ses[j][l].made
        BY <1>9, <2>3, <3>2
      <4>2. /\ Complete(ctx[j]) /\ ctx[j].ok
            /\ ses[j][l].pubNonces \subseteq {h \in Parties : NonceReady(h, l)}
        BY <4>1, Zenon DEF AgreementInvariant, SessionsNumbered
      <4>3. ctx'[j].keySet = ctx[j].keySet /\ ctx'[j].ok = ctx[j].ok
        BY <1>3, <1>8
      <4>4. Complete(ctx[j])' /\ ctx'[j].ok
        BY <1>1, <4>2, <4>3, Zenon DEF Complete
      <4>5. ses'[j][l].pubNonces \subseteq {h \in Parties : NonceReady(h, l)'}
        BY <2>2, <4>1, <4>2
      <4> QED BY <4>1, <4>2, <4>4, <4>5
    <3> QED BY <3>1, <3>2
  <2> QED BY <1>5, <2>3 DEF SessionsNumbered
<1>12. SessionsSigned'
  <2>1. ASSUME NEW j \in Parties, NEW l \in Sessions, ses'[j][l].made
        PROVE  SignedSession(sc, ses', j, l) /\ FinalSound(sc, ses', j, l)
    <3>1. CASE j = i /\ l = k
      <4>1. ses'[j][l] = t /\ t.local # 0 /\ t.ourSig = NoSig /\ t.sigs = {}
        BY <1>4, <1>7, <1>9, <3>1
      <4>2. t.final # "invalid"
        BY <1>4
      <4> QED BY <4>1, <4>2, Zenon DEF SignedSession, FinalSound
    <3>2. CASE j # i \/ l # k
      <4>1. SignedSession(sc, ses, j, l) /\ FinalSound(sc, ses, j, l)
        <5>1. ses[j][l].made
          BY <1>9, <2>1, <3>2
        <5> QED BY <5>1, Zenon DEF AgreementInvariant, SessionsSigned
      <4> DEFINE f == ses
                 g == ses'
                 K == Sessions
                 s == sc
      <4>2. /\ OneChanges(s, K, f, g, i, k)
            /\ SignedSession(s, f, j, l) /\ FinalSound(s, f, j, l)
            /\ i \in SecretKeys(s) /\ j \in SecretKeys(s) /\ k \in K /\ l \in K
        BY <1>1, <1>5, <1>9, <4>1 DEF OneChanges, HoldsSig
      <4> HIDE DEF f, g, K, s
      <4>3. SignedSession(s, g, j, l) /\ FinalSound(s, g, j, l)
        BY <3>2, <4>2, OthersSound
      <4> QED BY <4>3 DEF s, g
    <3> QED BY <3>1, <3>2
  <2> QED BY <1>1, <1>5, <2>1 DEF SessionsSigned
<1> QED BY <1>10, <1>11, <1>12 DEF AgreementInvariant

LEMMA AgreementStep ==
    ASSUME NonceInvariant, AgreementInvariant, [MuSigNext]_musigVars
    PROVE  AgreementInvariant'
<1>1. ASSUME NEW i \in Parties, NewContext(i)
      PROVE  AgreementInvariant'
  BY <1>1, NewContextAgrees
<1>2. ASSUME NEW i \in Parties, NEW j \in Parties, RegisterSigner(i, j)
      PROVE  AgreementInvariant'
  BY <1>2, RegisterSignerAgrees
<1>3. ASSUME NEW i \in Parties, NEW k \in Sessions, NewSession(i, k)
      PROVE  AgreementInvariant'
  BY <1>3, NewSessionAgrees
<1>4. ASSUME NEW i \in Parties, NEW k \in Sessions, NEW m \in Messages,
             SignSession(i, k, m)
      PROVE  AgreementInvariant'
  BY <1>4, SignSessionAgrees
<1>5. ASSUME NEW i \in Parties, NEW k \in Sessions, NEW j \in Parties,
             RegisterPubNonce(i, k, j)
      PROVE  AgreementInvariant'
  BY <1>5, RegisterPubNonceAgrees
<1>6. ASSUME NEW i \in Parties, NEW k \in Sessions, NEW j \in Parties,
             CombineSig(i, k, j)
      PROVE  AgreementInvariant'
  BY <1>6, CombineSigAgrees
<1>7. CASE UNCHANGED musigVars
  BY <1>7 DEF musigVars, AgreementInvariant, KeysGathered, SessionsNumbered, SessionsSigned,
              Parties, Sessions, Complete, NonceReady, TakesEarly, externalNonce
<1> QED BY <1>1, <1>2, <1>3, <1>4, <1>5, <1>6, <1>7 DEF MuSigNext

\* Every context that has all keys has the agreed ones, a session has of the
\* others the nonces that they have for it, and a session that gave up its nonce has the party's
\* signature with it (context.go 201-348, 450-507 and 555-602).
THEOREM PartiesKeepAgreement == MuSigSpec => [](NonceInvariant /\ AgreementInvariant)
<1>1. MuSigInit => NonceInvariant /\ AgreementInvariant
  BY NonceStart, AgreementStart
<1>2. NonceInvariant /\ AgreementInvariant /\ [MuSigNext]_musigVars
          => (NonceInvariant /\ AgreementInvariant)'
  BY NonceStep, AgreementStep
<1> QED BY <1>1, <1>2, PTL DEF MuSigSpec

\* Parties that hold all keys hold the same, in one order, and combine them to
\* the same key; and a partial signature satisfies every other party that signs
\* the same message, unless a nonce was zero and there is none (keys.go 61-458,
\* sign.go 253-594, context.go 201-348).
THEOREM KeysAndSigsAgree == MuSigSpec => []PartiesAgree
<1>1. NonceInvariant /\ AgreementInvariant => PartiesAgree
  <2> SUFFICES ASSUME NonceInvariant, AgreementInvariant PROVE PartiesAgree
    OBVIOUS
  <2>1. ASSUME NEW i \in Parties, ctx[i].made, Complete(ctx[i])
        PROVE  /\ sc \in Scenarios
               /\ ctx[i].keySet = AgreedKeys(sc) /\ ctx[i].combinedKey = AgreedKey(sc).key
    <3>1. sc \in Scenarios /\ Gathered(sc, ctx[i])
      BY <2>1, Zenon DEF AgreementInvariant, KeysGathered
    <3> QED BY <2>1, <3>1, CompleteContext, Zenon
  <2>2. ASSUME NEW i \in Parties, NEW k \in Sessions, ses[i][k].made, ses[i][k].local = 0,
               ~(ses[i][k].ourSig = NoSig /\ 0 \in {SecNonce(i, k)[1], SecNonce(i, k)[2]}),
               NEW j \in Parties, ctx[j].made, Complete(ctx[j])
        PROVE  LET agg == AggregateKeys(ctx[j].keySet)
               IN  verifyPartialSig(agg, ctx[j].keySet, ses[i][k].ourSig, Key(i),
                       PubNonce(SecNonce(i, k)),
                       computeSigningNonce(CombinedNonce(k), agg.key, ses[i][k].msg),
                       ses[i][k].msg)
    <3> DEFINE m == ses[i][k].msg
    <3>1. /\ sc \in Scenarios /\ i \in SecretKeys(sc) /\ k \in 1..sc.sessions
          /\ AgreedKey(sc).ok
      BY <2>2, SessionKeys
    <3>2. SignedSession(sc, ses, i, k)
      BY <2>2, Zenon DEF AgreementInvariant, SessionsSigned
    <3>3. ses[i][k].pubNonces = Parties /\ HasSigned(sc, ses[i][k], i, k)
      <4>1. Parties = SecretKeys(sc)
        BY DEF Parties, SecretKeys
      <4> QED BY <2>2, <3>2, <4>1, Zenon DEF SignedSession
    <3>4. \A h \in Parties : NonceReady(h, k)
      <4>1. ses[i][k].pubNonces \subseteq {h \in Parties : NonceReady(h, k)}
        BY <2>2, Zenon DEF AgreementInvariant, SessionsNumbered
      <4> QED BY <3>3, <4>1
    <3>5. /\ SecNonce(i, k) = HeldNonces(sc, k)[i]
          /\ CombinedNonce(k) = Combination(HeldNonces(sc, k))
      BY <3>4, NoncesAgreed
    <3>6. m \in Messages /\ ses[i][k].ourSig = OwnSig(sc, i, k, m)
      BY <2>2, <3>3, <3>5, Zenon DEF HasSigned
    <3>7. verifyPartialSig(AgreedKey(sc), AgreedKeys(sc), OwnSig(sc, i, k, m),
                           Times(sc.keys[i], G), PubNonce(HeldNonces(sc, k)[i]),
                           AgreedNonce(sc, k, m), m)
      BY <3>1, <3>6, OwnSigVerifies, Zenon
    <3>8. /\ ctx[j].keySet = AgreedKeys(sc) /\ AggregateKeys(ctx[j].keySet) = AgreedKey(sc)
      BY <2>1, <2>2, Zenon DEF AggregateKeys, AgreedKey
    <3>9. AgreedNonce(sc, k, m) = computeSigningNonce(CombinedNonce(k), AgreedKey(sc).key, m)
      BY <3>5, Zenon DEF AgreedNonce
    <3> QED BY <3>5, <3>6, <3>7, <3>8, <3>9, Zenon DEF Key
  <2>3. \A i, j \in Parties :
            ctx[i].made /\ Complete(ctx[i]) /\ ctx[j].made /\ Complete(ctx[j]) =>
                /\ ctx[i].keySet = ctx[j].keySet
                /\ ctx[i].combinedKey = ctx[j].combinedKey
    BY <2>1, Zenon
  <2> QED BY <2>2, <2>3, Zenon DEF PartiesAgree
<1> QED BY <1>1, PartiesKeepAgreement, PTL

\* The sum of the partial signatures is a Schnorr signature of the message for
\* the combined key, with any tweaks and whatever the oddness of the keys and
\* of the nonce, unless the parties signed different messages or their nonces
\* cancel (sign.go 679-737, context.go 607-665).
THEOREM CombinedIsValid == MuSigSpec => []FinalIsValid
<1>1. NonceInvariant /\ AgreementInvariant => FinalIsValid
  <2> SUFFICES ASSUME NonceInvariant, AgreementInvariant, NEW i \in Parties,
                      NEW k \in Sessions, ses[i][k].made, ses[i][k].final = "invalid"
               PROVE  \/ \E j \in Parties : ses[j][k].msg # ses[i][k].msg
                      \/ Cancelled(i, k)
    BY Zenon DEF FinalIsValid
  <2>1. SignedSession(sc, ses, i, k) /\ FinalSound(sc, ses, i, k)
    BY Zenon DEF AgreementInvariant, SessionsSigned
  <2>2. Parties = SecretKeys(sc)
    BY DEF Parties, SecretKeys
  <2>3. /\ ses[i][k].sigs = Parties
        /\ \/ \E j \in Parties : ses[j][k].msg # ses[i][k].msg
           \/ NoncesCancel(AgreedKey(sc).key, HeldNonces(sc, k), ses[i][k].msg)
    BY <2>1, <2>2, Zenon DEF FinalSound
  <2>4. ses[i][k].pubNonces = Parties
    BY <2>1, <2>2, <2>3, Zenon DEF SignedSession, HoldsSig
  <2>5. \A h \in Parties : NonceReady(h, k)
    <3>1. ses[i][k].pubNonces \subseteq {h \in Parties : NonceReady(h, k)}
      BY Zenon DEF AgreementInvariant, SessionsNumbered
    <3> QED BY <2>4, <3>1
  <2>6. CombinedNonce(k) = Combination(HeldNonces(sc, k))
    BY <2>5, NoncesAgreed
  <2>7. ctx[i].combinedKey = AgreedKey(sc).key
    BY SessionKeys
  <2>8. NoncesCancel(AgreedKey(sc).key, HeldNonces(sc, k), ses[i][k].msg) => Cancelled(i, k)
    BY <2>6, <2>7, Zenon DEF NoncesCancel, Cancelled
  <2> QED BY <2>3, <2>8
<1> QED BY <1>1, PartiesKeepAgreement, PTL

=============================================================================
