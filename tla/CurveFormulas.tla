--------------------------- MODULE CurveFormulas ---------------------------
(***************************************************************************)
(* The points of the curve y^2 = x^3 + 7 in Jacobian coordinates           *)
(* (pkg/ec/secp256k1/curve.go): adding, doubling and multiplying them.     *)
(* The formulas are the straight-line programs of the code, carried out on *)
(* registers that hold numbers modulo the prime; each number carries the   *)
(* magnitude that field.go documents, whether it is normalized, and        *)
(* whether every precondition has been kept on the way to it.              *)
(*                                                                         *)
(* The curve is a small one of the same shape: P = 3 modulo 4 (for the     *)
(* square root) and 1 modulo 3 (for the endomorphism), with a group of     *)
(* prime order N < P.                                                      *)
(*                                                                         *)
(* A definition marked "seeded fault" is a mistake one could make in the   *)
(* definition after it; no action uses it.                                 *)
(***************************************************************************)
EXTENDS Integers, Sequences, FiniteSets, TLC

CONSTANTS
    P, N,         \* the primes
    Gx, Gy,       \* the generator
    Beta,         \* a cube root of 1 modulo P
    NegLambda, NegB1, NegB2, Z1, Z2,   \* the endomorphism, as in the code
    Shift,        \* Z1 and Z2 are scaled by 2^Shift (320)
    ByteBits,     \* bits of a digit of naf and of a window (8)
    ZValues       \* the third coordinates that operands have

Mod(a) == a % P
Inv(a) == CHOOSE b \in 0..(P - 1) : Mod(a * b) = 1

\* The group by the chord and tangent rule.
Infinity == <<>>
OnCurve == {pt \in (0..(P - 1)) \X (0..(P - 1)) :
                Mod(pt[2] * pt[2]) = Mod(pt[1] * pt[1] * pt[1] + 7)}
Group == OnCurve \cup {Infinity}

Neg(a) == IF a = Infinity THEN a ELSE <<a[1], Mod(P - a[2])>>

Chord(a, b, slope) ==
    LET x == Mod(slope * slope - a[1] - b[1])
    IN  <<x, Mod(slope * (a[1] - x) - a[2])>>

Plus(a, b) ==
    CASE a = Infinity -> b
      [] b = Infinity -> a
      [] OTHER ->
           CASE a = Neg(b) -> Infinity
             [] a = b /\ a # Neg(b) -> Chord(a, b, Mod(3 * a[1] * a[1] * Inv(2 * a[2])))
             [] a # b /\ a # Neg(b) ->
                  Chord(a, b, Mod((b[2] - a[2]) * Inv(Mod(b[1] - a[1]))))

G == <<Gx, Gy>>

\* The same function, as a table: its values are computed once.
Table(f) == f @@ <<>>

\* The multiples of the generator.
Multiples ==
    LET m[k \in 0..(N - 1)] == IF k = 0 THEN Infinity ELSE Plus(m[k - 1], G)
    IN  Table([k \in 0..(N - 1) |-> m[k]])
Log == Table([pt \in Group |-> CHOOSE k \in 0..(N - 1) : Multiples[k] = pt])
Times(k, pt) == Multiples[(k * Log[pt]) % N]

Prime(n) == n \in Nat /\ n > 1 /\ \A a \in 2..(n - 1) : n % a # 0

ASSUME CurveAssumption ==
    /\ Prime(P) /\ P > 7 /\ P % 4 = 3 /\ P % 3 = 1
    /\ Prime(N) /\ N < P /\ P < 2 * N
    /\ G \in OnCurve
    /\ Cardinality(Group) = N
    /\ Mod(Beta * Beta * Beta) = 1 /\ Beta # 1
    /\ ByteBits \in Nat \ {0}
    /\ ZValues \subseteq 1..(P - 1)

\* The laws of the group: the generator has the order N, and the rule of
\* chords and tangents adds the numbers that it is multiplied with.
ASSUME GroupAssumption ==
    /\ Multiples[0] = Infinity /\ Multiples[1] = G
    /\ \A k \in 0..(N - 1) : Multiples[k] \in Group /\ Log[Multiples[k]] = k
    /\ \A pt \in Group : Log[pt] \in 0..(N - 1) /\ Multiples[Log[pt]] = pt
    /\ \A k, l \in 0..(N - 1) :
          Plus(Multiples[k], Multiples[l]) = Multiples[(k + l) % N]

-----------------------------------------------------------------------------
(* Numbers modulo P and what the documentation of FieldVal says of them.   *)

MaxMagnitude == 64
MulMax == 8

FE == [v: 0..(P - 1), mag: 0..(2 * MaxMagnitude), norm: BOOLEAN, ok: BOOLEAN]
Field(n) == [v |-> n, mag |-> 1, norm |-> TRUE, ok |-> TRUE]

\* An instruction: what the register dst becomes.
I(dst, op, a, b) == [dst |-> dst, op |-> op, a |-> a, b |-> b]
Set(d, a)       == I(d, "add2", a, "zero")
Negate(d, m)    == I(d, "neg", d, m)
NegateOf(d, a, m) == I(d, "neg", a, m)
Add(d, a)       == I(d, "add2", d, a)
Add2(d, a, b)   == I(d, "add2", a, b)
MulInt(d, k)    == I(d, "int", d, k)
Mul(d, a)       == I(d, "mul", d, a)
Mul2(d, a, b)   == I(d, "mul", a, b)
SquareVal(d, a) == I(d, "mul", a, a)
Square(d)       == I(d, "mul", d, d)
Normalize(d)    == I(d, "norm", d, d)

Cap(m) == IF m > MaxMagnitude THEN 2 * MaxMagnitude ELSE m

Result(x, y, ins) ==
    CASE ins.op = "add2" /\ ins.b = "zero" -> x
      [] ins.op = "add2" /\ ins.b # "zero" ->
             [v |-> Mod(x.v + y.v), mag |-> Cap(x.mag + y.mag), norm |-> FALSE,
              ok |-> x.ok /\ y.ok /\ x.mag + y.mag <= MaxMagnitude]
      [] ins.op = "neg" ->
             [v |-> Mod(P - x.v), mag |-> ins.b + 1, norm |-> FALSE,
              ok |-> x.ok /\ x.mag <= ins.b /\ ins.b < MaxMagnitude]
      [] ins.op = "int" ->
             [v |-> Mod(x.v * ins.b), mag |-> Cap(x.mag * ins.b), norm |-> FALSE,
              ok |-> x.ok /\ x.mag * ins.b <= MaxMagnitude]
      [] ins.op = "mul" ->
             [v |-> Mod(x.v * y.v), mag |-> 1, norm |-> FALSE,
              ok |-> x.ok /\ y.ok /\ x.mag <= MulMax /\ y.mag <= MulMax]
      [] ins.op = "norm" -> [v |-> x.v, mag |-> 1, norm |-> TRUE, ok |-> x.ok]

Registers == {"x1", "y1", "z1", "x2", "y2", "z2", "x3", "y3", "z3", "zero",
              "a", "b", "c", "d", "e", "f", "h", "hh", "i", "j", "r", "rr", "v",
              "t1", "t2", "t3", "z1z1", "z2z2", "u1", "u2", "s1", "s2"}

\* A register that is the same memory as another goes by the other's name.
Called(x, name) == IF x \in DOMAIN name THEN name[x] ELSE x

Step(g, ins, name) ==
    [g EXCEPT ![Called(ins.dst, name)] =
        Result(g[Called(ins.a, name)], g[Called(ins.b, name)], ins)]

\* The registers after a program.
Run(prog, g, name) ==
    LET do[i \in 0..Len(prog)] ==
            IF i = 0 THEN g ELSE Step(do[i - 1], prog[i], name)
    IN  do[Len(prog)]

-----------------------------------------------------------------------------
(* Points.                                                                 *)

Point(x, y, z) == [X |-> Field(x), Y |-> Field(y), Z |-> Field(z)]
Nowhere == Point(0, 0, 0)
Jacobian(pt, z) ==
    IF pt = Infinity THEN Nowhere
    ELSE Point(Mod(pt[1] * z * z), Mod(pt[2] * Mod(z * z * z)), z)

\* The registers before a formula, and the names of the result's registers
\* if the result is one of the operands.
Loaded(p1, p2) ==
    [x \in Registers |->
        CASE x = "x1" -> p1.X [] x = "y1" -> p1.Y [] x = "z1" -> p1.Z
          [] x = "x2" -> p2.X [] x = "y2" -> p2.Y [] x = "z2" -> p2.Z
          [] OTHER -> Field(0)]

Alias(which) ==
    CASE which = "none" -> <<>>
      [] which = "p1" -> [x3 |-> "x1", y3 |-> "y1", z3 |-> "z1"]
      [] which = "p2" -> [x3 |-> "x2", y3 |-> "y2", z3 |-> "z2"]

Taken(g, name) == [X |-> g[Called("x3", name)], Y |-> g[Called("y3", name)],
                   Z |-> g[Called("z3", name)]]

\* The result's registers after a program, normalized.
NormalizeAll == <<Normalize("x3"), Normalize("y3"), Normalize("z3")>>
Normalized(g, name) == Taken(Run(NormalizeAll, g, name), name)
Stored(prog, g, which) == Normalized(Run(prog, g, Alias(which)), Alias(which))

\* What both doubling formulas do once the third coordinate is set.
DoubleRest ==
    << SquareVal("a", "x1"), SquareVal("b", "y1"), SquareVal("c", "b"),
       Add("b", "x1"), Square("b"),
       Set("d", "a"), Add("d", "c"), Negate("d", 2),
       Add("d", "b"), MulInt("d", 2),
       Set("e", "a"), MulInt("e", 3), SquareVal("f", "e"),
       Set("x3", "d"), MulInt("x3", 2), Negate("x3", 16), Add("x3", "f"),
       NegateOf("f", "x3", 18), Add("f", "d"), Normalize("f"),
       Set("y3", "c"), MulInt("y3", 8), Negate("y3", 8),
       Mul("f", "e"), Add("y3", "f") >>

DoubleEnds(first, p, which) ==
    Stored(DoubleRest, Run(first, Loaded(p, Nowhere), Alias(which)), which)

DoubleOne == <<Set("z3", "y1"), MulInt("z3", 2)>>
doubleZ1EqualsOne(p, which) == DoubleEnds(DoubleOne, p, which)

DoubleAny == <<Mul2("z3", "y1", "z1"), MulInt("z3", 2)>>
doubleGeneric(p, which) == DoubleEnds(DoubleAny, p, which)

DoubleNonConst(p, which) ==
    CASE p.Y.v = 0 \/ p.Z.v = 0 -> Nowhere
      [] p.Y.v # 0 /\ p.Z.v = 1 -> doubleZ1EqualsOne(p, which)
      [] p.Y.v # 0 /\ p.Z.v \notin {0, 1} -> doubleGeneric(p, which)

\* Seeded fault: a point and its negation are taken for the same.
SameXDoubles(p1, y1, y2, which) ==
    DoubleNonConst(p1, IF which = "p1" THEN which ELSE "none")

\* Of equal first coordinates: the same point, or one and its negation.
SameX(p1, y1, y2, which) ==
    IF y1.v = y2.v THEN DoubleNonConst(p1, IF which = "p1" THEN which ELSE "none")
                   ELSE Nowhere

AddOnes ==
    << NegateOf("h", "x1", 1), Add("h", "x2"),
       SquareVal("i", "h"), MulInt("i", 4), Mul2("j", "h", "i"),
       NegateOf("r", "y1", 1), Add("r", "y2"), MulInt("r", 2),
       Mul2("v", "x1", "i"), NegateOf("t1", "j", 1),
       Set("t2", "v"), MulInt("t2", 2), Negate("t2", 2),
       Set("x3", "r"), Square("x3"), Add("x3", "t1"), Add("x3", "t2"),
       NegateOf("t3", "x3", 6),
       Mul("j", "y1"), MulInt("j", 2), Negate("j", 2),
       Set("y3", "v"), Add("y3", "t3"), Mul("y3", "r"), Add("y3", "j"),
       Set("z3", "h"), MulInt("z3", 2) >>

addZ1AndZ2EqualsOne(p1, p2, which) ==
    IF p1.X.v = p2.X.v THEN SameX(p1, p1.Y, p2.Y, which)
    ELSE Stored(AddOnes, Loaded(p1, p2), which)

AddSameZ ==
    << NegateOf("t1", "x1", 1), NegateOf("t2", "y1", 1),
       Set("a", "t1"), Add("a", "x2"), SquareVal("b", "a"),
       Set("c", "t2"), Add("c", "y2"), SquareVal("d", "c"),
       Mul2("e", "x1", "b"), NegateOf("t3", "e", 1), Mul2("f", "x2", "b"),
       Add2("x3", "e", "f"), Negate("x3", 2), Add("x3", "d"),
       NegateOf("h", "x3", 4),
       Add("f", "t3"), Set("y3", "y1"), Mul("y3", "f"), Negate("y3", 1),
       Add("e", "h"), Mul("e", "c"), Add("y3", "e"),
       Mul2("z3", "z1", "a") >>

addZ1EqualsZ2(p1, p2, which) ==
    IF p1.X.v = p2.X.v THEN SameX(p1, p1.Y, p2.Y, which)
    ELSE Stored(AddSameZ, Loaded(p1, p2), which)

\* The registers g before the branch hold z1z1, u2 and s2.
MixedAddFirst ==
    << SquareVal("z1z1", "z1"), Set("u2", "x2"), Mul("u2", "z1z1"),
       Normalize("u2"), Set("s2", "y2"), Mul("s2", "z1z1"), Mul("s2", "z1"),
       Normalize("s2") >>

MixedAddRest ==
    << NegateOf("t1", "x1", 1), Add2("h", "u2", "t1"), SquareVal("hh", "h"),
       Set("i", "hh"), MulInt("i", 4), Mul2("j", "h", "i"),
       NegateOf("t2", "y1", 1), Set("r", "s2"), Add("r", "t2"),
       MulInt("r", 2), SquareVal("rr", "r"), Mul2("v", "x1", "i"),
       Set("x3", "v"), MulInt("x3", 2), Add("x3", "j"), Negate("x3", 3),
       Add("x3", "rr"), NegateOf("t3", "x3", 5),
       Set("y3", "y1"), Mul("y3", "j"), MulInt("y3", 2), Negate("y3", 2),
       Add("v", "t3"), Mul("v", "r"), Add("y3", "v"),
       Add2("z3", "z1", "h"), Square("z3"), Add("z1z1", "hh"),
       Negate("z1z1", 2), Add("z3", "z1z1") >>

MixedAddEnds(g, p1, which) ==
    IF p1.X.v = g["u2"].v THEN SameX(p1, p1.Y, g["s2"], which)
    ELSE Stored(MixedAddRest, g, which)

addZ2EqualsOne(p1, p2, which) ==
    MixedAddEnds(Run(MixedAddFirst, Loaded(p1, p2), <<>>), p1, which)

GenericAddFirst ==
    << SquareVal("z1z1", "z1"), SquareVal("z2z2", "z2"),
       Set("u1", "x1"), Mul("u1", "z2z2"), Normalize("u1"),
       Set("u2", "x2"), Mul("u2", "z1z1"), Normalize("u2"),
       Set("s1", "y1"), Mul("s1", "z2z2"), Mul("s1", "z2"), Normalize("s1"),
       Set("s2", "y2"), Mul("s2", "z1z1"), Mul("s2", "z1"), Normalize("s2") >>

GenericAddRest ==
    << NegateOf("t1", "u1", 1), Add2("h", "u2", "t1"),
       Set("i", "h"), MulInt("i", 2), Square("i"), Mul2("j", "h", "i"),
       NegateOf("t2", "s1", 1), Set("r", "s2"), Add("r", "t2"),
       MulInt("r", 2), SquareVal("rr", "r"), Mul2("v", "u1", "i"),
       Set("x3", "v"), MulInt("x3", 2), Add("x3", "j"), Negate("x3", 3),
       Add("x3", "rr"), NegateOf("t3", "x3", 5),
       Mul2("y3", "s1", "j"), MulInt("y3", 2), Negate("y3", 2),
       Add("v", "t3"), Mul("v", "r"), Add("y3", "v"),
       Add2("z3", "z1", "z2"), Square("z3"),
       Add("z1z1", "z2z2"), Negate("z1z1", 2), Add("z3", "z1z1"),
       Mul("z3", "h") >>

GenericAddEnds(g, p1, which) ==
    IF g["u1"].v = g["u2"].v THEN SameX(p1, g["s1"], g["s2"], which)
    ELSE Stored(GenericAddRest, g, which)

addGeneric(p1, p2, which) ==
    GenericAddEnds(Run(GenericAddFirst, Loaded(p1, p2), <<>>), p1, which)

\* The point at infinity has no third coordinate, or none but that.
IsNowhere(p) == p.Z.v = 0 \/ (p.X.v = 0 /\ p.Y.v = 0)

Usable(p) == p.X.norm /\ p.Y.norm /\ p.Z.norm
Checked(cond, p) == IF cond THEN p ELSE [p EXCEPT !.X.ok = FALSE]

\* which: whether the result is stored over an operand.
AddNonConst(p1, p2, which) ==
    LET one(p) == p.Z.v = 1
        there == ~IsNowhere(p1) /\ ~IsNowhere(p2)
    IN  Checked(Usable(p1) /\ Usable(p2),
          CASE IsNowhere(p1) -> p2
            [] IsNowhere(p2) /\ ~IsNowhere(p1) -> p1
            [] there /\ one(p1) /\ one(p2) -> addZ1AndZ2EqualsOne(p1, p2, which)
            [] there /\ p1.Z.v = p2.Z.v /\ ~one(p1) -> addZ1EqualsZ2(p1, p2, which)
            [] there /\ p1.Z.v # p2.Z.v /\ one(p2) -> addZ2EqualsOne(p1, p2, which)
            [] there /\ p1.Z.v # p2.Z.v /\ ~one(p2) -> addGeneric(p1, p2, which))

AffineProg == << SquareVal("b", "a"), Set("x3", "x1"), Mul("x3", "b"),
                 Mul("b", "a"), Set("y3", "y1"), Mul("y3", "b"),
                 NegateOf("z3", "zero", 1) >>

ToAffine(p) ==
    LET inverse == [Field(IF p.Z.v = 0 THEN 0 ELSE Inv(p.Z.v)) EXCEPT !.norm = FALSE]
    IN  [Stored(AffineProg, [Loaded(p, Nowhere) EXCEPT !["a"] = inverse], "p1")
            EXCEPT !.Z = Field(1)]

isOnCurve(x, y) == Mod(y * y) = Mod(x * x * x + 7)

\* The power (P + 1) / 4 of a number, and whether its square is the number.
RootOf(a, root) == [root |-> root, ok |-> Mod(root * root) = a]
SquareRootVal(a) ==
    LET pow[k \in 0..P] == IF k = 0 THEN 1 ELSE Mod(pow[k - 1] * a)
    IN  RootOf(a, pow[(P + 1) \div 4])

\* The prime is 3 modulo 4, so that this power of a square is a root of it.
ASSUME RootAssumption ==
    \A y \in 0..(P - 1) : SquareRootVal(Mod(y * y)).ok

WithOddness(s, odd) ==
    [ok |-> s.ok,
     y |-> IF ~s.ok \/ (s.root % 2 = 1) = odd THEN s.root ELSE Mod(P - s.root)]
DecompressY(x, odd) == WithOddness(SquareRootVal(Mod(x * x * x + 7)), odd)

-----------------------------------------------------------------------------
(* Multiples.                                                              *)

\* The product, scaled back and rounded by the last bit that is shifted out.
mul512Rsh320Round(a, b) ==
    ((a * b) \div 2^Shift) + (((a * b) \div 2^(Shift - 1)) % 2)

\* k = k1 + k2 * lambda, both short.
Halves(k, k2) == [k1 |-> (k2 * NegLambda + k) % N, k2 |-> k2]
splitK(k) ==
    Halves(k, (mul512Rsh320Round(k, Z1) * NegB1 + mul512Rsh320Round(k, Z2) * NegB2) % N)

Digit == 2^ByteBits

\* The digits of a number, the highest first, none of them for zero.
DigitsOf(k) ==
    LET d[n \in Nat] == IF n = 0 THEN <<>> ELSE Append(d[n \div Digit], n % Digit)
    IN  d[k]

\* The bits of a that b does not have.
Without(a, b) ==
    LET s[i \in 0..(ByteBits + 2)] ==
            IF i = 0 THEN 0
            ELSE s[i - 1] + (IF (a \div 2^(i - 1)) % 2 = 1
                                /\ (b \div 2^(i - 1)) % 2 = 0 THEN 2^(i - 1) ELSE 0)
    IN  s[ByteBits + 2]

\* The bits of the next word that are shifted into this one.
NextBit(next) == (next % 2) * 2^(ByteBits - 1)

\* Seeded fault: the sum where the code has an or.
HalfOfSum(kc, next) == (kc \div 2) + NextBit(next)

\* An or: of a carry that makes kc a whole digit nothing is shifted in.
HalfOf(kc, next) ==
    IF kc \div 2 >= 2^(ByteBits - 1) THEN kc \div 2
    ELSE (kc \div 2) + NextBit(next)

\* The digits 1 and -1 of the non-adjacent form, from the lowest word up: 3k/2
\* and k/2 without the bits they share.  One word more holds the last carry.
NafWord(kc, half) ==
    [carry |-> (kc + half) \div Digit, pos |-> Without(kc + half, half) % Digit,
     neg |-> Without(half, kc + half) % Digit]

PutWord(form, word) ==
    [carry |-> word.carry, pos |-> <<word.pos>> \o form.pos, neg |-> <<word.neg>> \o form.neg]

nafOf(w) ==
    LET word(kc, next) == NafWord(kc, HalfOf(kc, next))
        form[i \in 1..(Len(w) + 1)] ==
            IF i = Len(w) + 1 THEN [carry |-> 0, pos |-> <<>>, neg |-> <<>>]
            ELSE PutWord(form[i + 1],
                         word(w[i] + form[i + 1].carry, IF i > 1 THEN w[i - 1] ELSE 0))
    IN  IF form[1].carry = 1 THEN PutWord(form[1], [carry |-> 0, pos |-> 1, neg |-> 0])
        ELSE form[1]

naf(k) == nafOf(DigitsOf(k))

\* The signed digit of the form f, at a bit counted from the top of m words.
SignIn(pos, neg, mask) ==
    CASE (pos \div mask) % 2 = 1 -> 1
      [] (pos \div mask) % 2 # 1 -> IF (neg \div mask) % 2 = 1 THEN -1 ELSE 0

SignAt(f, m, bit) ==
    LET i == (bit \div ByteBits) + 1 - (m - Len(f.pos))
    IN  IF i < 1 THEN 0
        ELSE SignIn(f.pos[i], f.neg[i], 2^(ByteBits - 1 - (bit % ByteBits)))

PointSet == [X: FE, Y: FE, Z: FE]

\* A factor above half the order is negated, and its point with it.
Half(n) == [flip |-> 2 * n > N, form |-> naf(IF 2 * n > N THEN N - n ELSE n)]
Phi(p) == [p EXCEPT !.X.v = Mod(@ * Beta)]

AddSigned(acc, pt, sign, flip) ==
    CASE sign = 0 -> acc
      [] sign # 0 ->
            AddNonConst(acc, IF (sign = -1) # flip THEN [pt EXCEPT !.Y.v = Mod(P - @)]
                                                   ELSE pt, "p1")

\* Sums of p and phi, by their halves of the factor, with one run of doublings.
Sums(p, phi, h1, h2, m) ==
    LET do[bit \in 0..(m * ByteBits), acc \in PointSet] ==
            IF bit = m * ByteBits THEN acc
            ELSE LET one[pt \in PointSet] ==
                         AddSigned(pt, p, SignAt(h1.form, m, bit), h1.flip)
                     both[pt \in PointSet] ==
                         AddSigned(pt, phi, SignAt(h2.form, m, bit), h2.flip)
                 IN  do[bit + 1, both[one[DoubleNonConst(acc, "p1")]]]
    IN  do[0, Nowhere]

Longer(a, b) == IF a > b THEN a ELSE b
SumsOf(p, h1, h2) ==
    Sums(p, Phi(p), h1, h2, Longer(Len(h1.form.pos), Len(h2.form.pos)))

\* k * p as k1 * p + k2 * (Beta * x, y).
ByHalves(p, sk) == SumsOf(p, Half(sk.k1), Half(sk.k2))
ScalarMultNonConst(k, p) == ByHalves(p, splitK(k))

\* The table has each digit's multiple of the generator for each window.
SumOfWindows(w) ==
    LET do[i \in 0..Len(w)] ==
            IF i = 0 THEN Nowhere
            ELSE AddNonConst(do[i - 1],
                     Jacobian(Multiples[(w[i] * Digit^(Len(w) - i)) % N], 1), "p1")
    IN  do[Len(w)]
ScalarBaseMultNonConst(k) == SumOfWindows(DigitsOf(k))

-----------------------------------------------------------------------------
(* The same on big integers (ellipticadaptor.go); (0, 0) is infinity.      *)

FromBig(a) == IF a = Infinity THEN Nowhere ELSE Jacobian(a, 1)
PairOf(a) == IF IsNowhere(a) THEN Infinity ELSE <<a.X.v, a.Y.v>>
ToBig(p) == PairOf(ToAffine(p))

BigAdd(a, b) ==
    CASE a = Infinity -> b
      [] b = Infinity /\ a # Infinity -> a
      [] a # Infinity /\ b # Infinity ->
             ToBig(AddNonConst(FromBig(a), FromBig(b), "none"))

BigDouble(a) ==
    IF a = Infinity \/ a[2] = 0 THEN Infinity
    ELSE ToBig(DoubleNonConst(FromBig(a), "none"))

\* A factor of any length is reduced.
BigScalarMult(a, k) == ToBig(ScalarMultNonConst(k % N, FromBig(a)))
BigScalarBaseMult(k) == ToBig(ScalarBaseMultNonConst(k % N))

\* What a point stands for.
Affine(p) ==
    IF IsNowhere(p) THEN Infinity
    ELSE <<Mod(p.X.v * Inv(Mod(p.Z.v * p.Z.v))),
           Mod(p.Y.v * Inv(Mod(p.Z.v * p.Z.v * p.Z.v)))>>

=============================================================================
