----------------------------- MODULE ModNScalar -----------------------------
(***************************************************************************)
(* The arithmetic modulo the order of the curve's group                    *)
(* (pkg/ec/secp256k1/modnscalar.go).  A number is kept fully reduced in    *)
(* ScalarLen words of base ScalarBase (8 of 2^32 in the code).  The order  *)
(* is ScalarBase^ScalarLen minus a complement whose words are Complement   *)
(* and, above them, a single 1: a product is reduced by multiplying the    *)
(* words past the last by the complement, twice, and subtracting the order *)
(* once.                                                                   *)
(*                                                                         *)
(* The module is one ModNScalar and the calls made on it; scalarExact is   *)
(* what the calls should have computed.  Names that FieldVal has as well   *)
(* begin with Scalar here.                                                 *)
(*                                                                         *)
(* A definition marked "seeded fault" is a mistake one could make in the   *)
(* definition after it; no action uses it.                                 *)
(***************************************************************************)
EXTENDS Integers, Sequences

CONSTANTS
    ScalarLen,       \* 8 in the code
    ScalarBase,      \* 2^32
    Complement,      \* the words of the complement below its 1: 4 of them
    ScalarInputs,    \* the numbers that SetBytes is given
    ScalarOperands   \* the numbers that are added and multiplied with

\* The complement is short enough for two reductions and a subtraction, and
\* three words hold the sum of a column.
ASSUME ScalarAssumption ==
    /\ ScalarBase \in Nat /\ ScalarBase > 4 /\ ScalarBase % 2 = 0
    /\ Complement \in Seq(0..(ScalarBase - 1))
    /\ ScalarLen \in Nat /\ ScalarLen > Len(Complement) + 1
    /\ ScalarLen >= 2 * Len(Complement) /\ ScalarLen < ScalarBase

ScalarPower(i) == ScalarBase^i

\* What the proofs need of powers.
ASSUME ScalarPowerAssumption ==
    /\ ScalarPower(0) = 1
    /\ \A i \in 0..(ScalarLen - 1) : ScalarPower(i + 1) = ScalarPower(i) * ScalarBase

\* Words are sequences, the lowest first; K words and a 1 make the complement.
ScalarWords == 1..ScalarLen
K == Len(Complement)
CWord(j) == IF j = K + 1 THEN 1 ELSE Complement[j]

ScalarValue(w) ==
    LET v[i \in 0..ScalarLen] ==
            IF i = 0 THEN 0 ELSE v[i - 1] + w[i] * ScalarPower(i - 1)
    IN  v[ScalarLen]

ScalarOf(n) == [i \in ScalarWords |-> (n \div ScalarPower(i - 1)) % ScalarBase]

C == ScalarValue([i \in ScalarWords |-> IF i <= K + 1 THEN CWord(i) ELSE 0])
N == ScalarPower(ScalarLen) - C
Order == ScalarOf(N)
HalfOrder == ScalarOf(N \div 2)
Zero == ScalarOf(0)

\* The order is a prime.
ASSUME OrderAssumption == \A m \in 2..(N - 1) : N % m # 0

ASSUME OperandsAssumption == /\ ScalarInputs \subseteq 0..(ScalarPower(ScalarLen) - 1)
                             /\ ScalarOperands \subseteq 0..(N - 1)

VARIABLES scalar, scalarExact

scalarVars == <<scalar, scalarExact>>

-----------------------------------------------------------------------------
\* Whether w exceeds the words o, or equals them if orEqual, compared from
\* the top word down.
Exceeds(w, o, orEqual) ==
    LET above(i) == \A j \in ScalarWords : j > i => w[j] = o[j]
    IN  \/ \E i \in ScalarWords : above(i) /\ w[i] > o[i]
        \/ orEqual /\ above(0)

overflows(w) == IF Exceeds(w, Order, TRUE) THEN 1 ELSE 0
IsOverHalfOrder(w) == Exceeds(w, HalfOrder, FALSE)

\* The sums of each column with the carry from the one below.
SumWords(col) ==
    LET carry[i \in 0..ScalarLen] ==
            IF i = 0 THEN 0 ELSE (col[i] + carry[i - 1]) \div ScalarBase
    IN  [words |-> [i \in ScalarWords |-> (col[i] + carry[i - 1]) % ScalarBase],
         carry |-> carry[ScalarLen]]

\* The order is subtracted over times: its complement is added and the carry
\* out of the top is dropped.
reduce256(w, over) ==
    LET col == [i \in ScalarWords |-> w[i] + (IF i <= K + 1 THEN over * CWord(i) ELSE 0)]
    IN  SumWords(col).words

WordsAndCarry == [words: Seq(Nat), carry: Nat]

\* Sums that may exceed the order, and their carry: one subtraction will do.
Subtracted[m \in WordsAndCarry] ==
    reduce256(m.words, m.carry + overflows(m.words))

Final(col) == Subtracted[SumWords(col)]

\* The bytes may hold any number below ScalarBase^ScalarLen.
ScalarSetBytes(n) ==
    LET w == ScalarOf(n)
    IN  [words |-> reduce256(w, overflows(w)), overflow |-> overflows(w)]

\* Seeded fault: a carry out of the top word is forgotten.
ScalarAdd2NoCarry(v, w) ==
    LET col == [i \in ScalarWords |-> v[i] + w[i]]
        f[m \in Seq(Nat)] == reduce256(m, overflows(m))
    IN  f[SumWords(col).words]

ScalarAdd2(v, w) == Final([i \in ScalarWords |-> v[i] + w[i]])

-----------------------------------------------------------------------------
\* Three words add up the products of two words that make a column; a carry
\* shows as a sum below what was added.
AccAdd(v) ==
    [a \in Seq(Nat) |->
        LET low == v % ScalarBase
            n0  == (a[1] + low) % ScalarBase
            hi  == (v \div ScalarBase) + (IF n0 < low THEN 1 ELSE 0)
            n1  == (a[2] + hi) % ScalarBase
            n2  == (a[3] + (IF n1 < hi THEN 1 ELSE 0)) % ScalarBase
        IN  <<n0, n1, n2>>]

Rsh32(a) == <<a[2], a[3], 0>>

\* The three words after a column has been added to a.
Accumulated(col, terms) ==
    [a \in Seq(Nat) |->
        LET acc[i \in 0..terms] == IF i = 0 THEN a ELSE AccAdd(col[i])[acc[i - 1]]
        IN  acc[terms]]

\* The lowest word of the sum of each column up to last, the rest carried to
\* the next; a column has so many terms.
ColumnWords(value, terms, last) ==
    LET acc[k \in 0..last] ==
            IF k = 0 THEN <<0, 0, 0>> ELSE Accumulated(value[k], terms)[Rsh32(acc[k - 1])]
    IN  [k \in 1..last |-> acc[k][1]]

\* The words of t past ScalarLen, high of them, are multiplied by the complement
\* and added to the others.
FoldHigh(t, high, last) ==
    LET value == [k \in 1..last |-> [i \in 1..(K + 2) |->
            CASE i = 1 -> IF k <= ScalarLen THEN t[k] ELSE 0
              [] i > 1 -> IF k - i + 2 \in 1..high
                          THEN t[ScalarLen + k - i + 2] * CWord(i - 1) ELSE 0]]
    IN  ColumnWords(value, K + 2, last)

\* From the words of a number a little above ScalarBase^(ScalarLen + K) to one word
\* more than ScalarLen, and then to the order.
LastFold[u \in Seq(Nat)] ==
    Final([i \in ScalarWords |->
               u[i] + (IF i <= K + 1 THEN u[ScalarLen + 1] * CWord(i) ELSE 0)])

reduce385[t \in Seq(Nat)] == LastFold[FoldHigh(t, K + 1, ScalarLen + 1)]

\* From twice ScalarLen words to ScalarLen + K + 1.
reduce512[t \in Seq(Nat)] == reduce385[FoldHigh(t, ScalarLen, ScalarLen + K + 1)]

ScalarMul2(v, w) ==
    LET value == [k \in 1..(2 * ScalarLen) |-> [i \in ScalarWords |->
                      IF k - i + 1 \in ScalarWords THEN v[i] * w[k - i + 1] ELSE 0]]
    IN  reduce512[ColumnWords(value, ScalarLen, 2 * ScalarLen)]

ScalarSquareVal(v) == ScalarMul2(v, v)

\* The two's complement is added to the order; a mask keeps zero as it is.
ScalarNegateVal(v) ==
    LET col == [i \in ScalarWords |->
                    Order[i] + (ScalarBase - 1 - v[i]) + (IF i = 1 THEN 1 ELSE 0)]
    IN  IF v = Zero THEN Zero ELSE SumWords(col).words

\* math/big's ModInverse, which leaves zero as it is.
InverseValNonConst(v) ==
    LET inverse[n \in 0..(N - 1)] == CHOOSE x \in 1..(N - 1) : (x * n) % N = 1
    IN  IF v = Zero THEN v ELSE ScalarOf(inverse[ScalarValue(v)])

ScalarIsOdd(w) == w[1] % 2 = 1
ScalarIsZero(w) == \A i \in ScalarWords : w[i] = 0
ScalarEquals(v, w) == \A i \in ScalarWords : v[i] = w[i]

-----------------------------------------------------------------------------
ScalarCallAdd ==
    \E n \in ScalarOperands :
        /\ scalar' = ScalarAdd2(scalar, ScalarOf(n))
        /\ scalarExact' = (scalarExact + n) % N

ScalarCallMul ==
    \E n \in ScalarOperands :
        /\ scalar' = ScalarMul2(scalar, ScalarOf(n))
        /\ scalarExact' = (scalarExact * n) % N

ScalarCallSquare ==
    /\ scalar' = ScalarSquareVal(scalar)
    /\ scalarExact' = (scalarExact * scalarExact) % N

ScalarCallNegate ==
    /\ scalar' = ScalarNegateVal(scalar)
    /\ scalarExact' = (N - scalarExact) % N

ScalarInit ==
    \E n \in ScalarInputs : scalar = ScalarSetBytes(n).words /\ scalarExact = n % N

ScalarNext ==
    \/ ScalarCallAdd \/ ScalarCallMul \/ ScalarCallSquare \/ ScalarCallNegate

ScalarSpec == ScalarInit /\ [][ScalarNext]_scalarVars

-----------------------------------------------------------------------------
\* A scalar always holds the number that the calls should have computed,
\* reduced: no carry is lost in the columns of a product or in either
\* reduction; and what is read from it agrees, as does an operation followed
\* by its reverse (modnscalar.go 251-1106).
ReducedExactly ==
    /\ scalar = ScalarOf(scalarExact) /\ scalarExact < N
    /\ IsOverHalfOrder(scalar) = (scalarExact > N - scalarExact)
    /\ ScalarIsOdd(scalar) = (scalarExact % 2 = 1)
    /\ ScalarIsZero(scalar) = (scalarExact = 0)
    /\ \A n \in ScalarOperands : ScalarEquals(scalar, ScalarOf(n)) = (scalarExact = n)
    /\ ScalarSetBytes(ScalarValue(scalar)) = [words |-> scalar, overflow |-> 0]
    /\ ScalarAdd2(scalar, ScalarNegateVal(scalar)) = Zero
    /\ ~ScalarIsZero(scalar) =>
           ScalarMul2(scalar, InverseValNonConst(scalar)) = ScalarOf(1)

=============================================================================
