------------------------------ MODULE FieldVal ------------------------------
(***************************************************************************)
(* The arithmetic modulo the field prime (pkg/ec/secp256k1/field.go).  A   *)
(* number is kept in NWords words of FieldBase bits (10 of 26 in the code, *)
(* the top one of MSBBits = 22) that have room for Overflow more bits (6), *)
(* so that additions need no carry: the caller keeps count of how many     *)
(* times over the words may be filled, the magnitude, and normalizes in    *)
(* time.  The prime is 2^bits - (C1 * 2^FieldBase + C0), with C0 = 977 and *)
(* C1 = 64 in the code.                                                    *)
(*                                                                         *)
(* The module is one FieldVal and the calls made on it.  exact is what the *)
(* calls should have computed, and magnitude what the documentation of     *)
(* each method says of its result; a call is made only where the           *)
(* documented preconditions allow it.                                      *)
(*                                                                         *)
(* A definition marked "seeded fault" is a mistake one could make in the   *)
(* definition after it; no action uses it.                                 *)
(***************************************************************************)
EXTENDS Integers, Sequences, FiniteSets

CONSTANTS
    NWords, FieldBase, MSBBits, Overflow, C0, C1,
    CallerMax,   \* the largest magnitude that callers use (64 is documented)
    MulMax,      \* the largest magnitude a factor may have (8 in the code)
    NegateMax,   \* the largest magnitude negated (63)
    CarrySlack,  \* what a product may leave in its third word above its bits
    ByteBits,    \* bits of what is packed and unpacked (8)
    Inputs,      \* the numbers that SetBytes is given
    Operands,    \* the numbers that are added and multiplied with
    SmallInts,   \* the arguments of MulInt and AddInt
    MaxCalls     \* bound: calls after SetBytes

Base == 2^FieldBase
Bits == FieldBase * (NWords - 1) + MSBBits
Limit == 2^Bits
MSBBase == 2^MSBBits
PMinus == C1 * Base + C0
P == Limit - PMinus
WordMod == 2^(FieldBase + Overflow)        \* a uint32
DoubleMod == 2^(2 * (FieldBase + Overflow)) \* a uint64
TopFold == 2^(FieldBase - MSBBits)  \* what the words past the last stand for
ByteBase == 2^ByteBits
Bytes == Bits \div ByteBits

ASSUME FieldAssumption ==
    /\ NWords \in Nat /\ NWords > 3
    /\ FieldBase \in Nat \ {0} /\ MSBBits \in 1..FieldBase
    /\ Overflow \in 1..(MSBBits - 1)
    /\ C0 \in 1..(Base - 1) /\ C1 \in 0..(Base - 2)
    /\ CallerMax \in Nat /\ MulMax \in 2..CallerMax /\ NegateMax \in 1..(CallerMax - 1)
    /\ ByteBits \in Nat \ {0} /\ Bits % ByteBits = 0
    /\ Inputs \subseteq 0..(Limit - 1)
    /\ Operands \subseteq 0..(P - 1)
    /\ SmallInts \subseteq 0..(Base - 1)
    /\ MaxCalls \in Nat

Words == 0..(NWords - 1)
Top == NWords - 1

FieldPower(i) == 2^(FieldBase * i)
BytePower(i) == 2^(ByteBits * i)

\* What the proofs need of powers.
ASSUME FieldPowerAssumption ==
    /\ FieldPower(0) = 1
    /\ \A i \in Words : FieldPower(i + 1) = FieldPower(i) * Base
    /\ Base % 2 = 0 /\ Base = MSBBase * TopFold
    /\ Limit = FieldPower(Top) * MSBBase
    /\ BytePower(0) = 1 /\ BytePower(Bytes) = Limit
    /\ \A i \in 0..(Bytes - 1) : BytePower(i + 1) = BytePower(i) * ByteBase
    /\ \A x \in {Base, MSBBase, TopFold, WordMod, DoubleMod, ByteBase} : x \in Nat \ {0}

\* The most in a word of magnitude 1, in all words of what is multiplied, and
\* the most that is carried out of columns that hold no more than col.
WordMax == Base - 1 + CarrySlack
TopFactor == MulMax * (MSBBase - 1)
ColumnMax == 2 * NWords * (MulMax * WordMax) * (MulMax * WordMax)
CarryOf(col) == col \div (Base - 1)

\* The most in the word past the last of a product, in a column when the words
\* past the last have been folded in, and in the top one of those.
HighMax == (TopFactor * TopFactor
              + (2 * TopFactor * (MulMax * WordMax) + CarryOf(ColumnMax)) \div Base) \div Base
FoldMax == (Base - 1) * (1 + TopFold * (C0 + C1))
TopMax == (Base - 1) * (1 + TopFold * C1) + HighMax * TopFold * PMinus + CarryOf(FoldMax)

\* There is room for the sums that the callers make, for what is negated, for
\* the columns of a product; and what the top word then has too much, folded
\* back in, leaves no more than CarrySlack in the third word.
ASSUME RoomAssumption ==
    /\ CarrySlack \in Nat /\ C0 <= CarrySlack /\ C1 <= CarrySlack
    /\ CallerMax * WordMax + CarryOf(CallerMax * WordMax) < WordMod
    /\ 2 * CarryOf(CallerMax * WordMax) <= MSBBase
    /\ NegateMax * CarrySlack < Base
    /\ (NegateMax + 1) * C0 < Base /\ (NegateMax + 1) * C1 < Base
    /\ ColumnMax + CarryOf(ColumnMax) < DoubleMod
    /\ FoldMax + CarryOf(FoldMax) < DoubleMod /\ TopMax < DoubleMod
    /\ (Base * Base - 1 + (TopMax \div MSBBase) * PMinus) \div (Base * Base) <= CarrySlack

VARIABLES
    f,          \* the words
    magnitude,  \* what the documentation says of them
    normalized, \* whether nothing has been done since Normalize or SetBytes
    exact,      \* the number that the calls have computed, modulo P
    calls

fieldVars == <<f, magnitude, normalized, exact, calls>>

-----------------------------------------------------------------------------
\* What the words stand for.
Value(w) ==
    LET v[n \in 0..NWords] ==
            IF n = 0 THEN 0 ELSE v[n - 1] + w[n - 1] * FieldPower(n - 1)
    IN  v[NWords]

\* The words of the prime.
PrimeWord(i) == CASE i = 0    -> Base - C0
                  [] i = 1    -> Base - 1 - C1
                  [] i = Top  -> MSBBase - 1
                  [] OTHER    -> Base - 1

WordBase(i) == IF i = Top THEN MSBBase ELSE Base

Packed(n) == [i \in Words |-> (n \div FieldPower(i)) % WordBase(i)]

\* Of a big-endian sequence of bytes.
OfBytes(b) ==
    LET n[i \in 0..Len(b)] == IF i = 0 THEN 0 ELSE n[i - 1] * ByteBase + b[i]
    IN  n[Len(b)]

ToBytes(n) == [i \in 1..Bytes |-> (n \div BytePower(Bytes - i)) % ByteBase]

\* SetBytes says whether the number was the prime or more, and reduces
\* nothing.
SetBytes(b) ==
    LET w == Packed(OfBytes(b))
        highWordsEq == \A i \in Words \ {0, 1} : w[i] = PrimeWord(i)
    IN  [words |-> w,
         overflow |-> highWordsEq /\ (\/ w[1] > PrimeWord(1)
                                      \/ w[1] = PrimeWord(1)
                                         /\ w[0] >= PrimeWord(0))]

\* Every byte is cut out of one word, or pieced together from two.
PutBytes(w) == ToBytes(Value([i \in Words |-> w[i] % WordBase(i)]))

\* Carries go up from word to word: the sums before they are masked.
Carried(col, last, mod) ==
    LET m[i \in 0..last] ==
            (col[i] + (IF i = 0 THEN 0 ELSE m[i - 1] \div Base)) % mod
    IN  m

-----------------------------------------------------------------------------
\* Two passes: the first folds what exceeds the bits back in, the second
\* subtracts the prime if what is left is the prime or more.

\* One pass: m multiples of PMinus are added, and the carries go up.
FoldIn(w, m) ==
    Carried([w EXCEPT ![0] = @ + m * C0, ![1] = @ + m * C1], Top, WordMod)

Masked(c) == [i \in Words |-> IF i = Top THEN c[i] ELSE c[i] % Base]

\* Whether the words after the first pass hold the prime or more.
ReachesPrime(t) ==
    \/ /\ t[Top] = MSBBase - 1
       /\ \A i \in Words \ {0, 1, Top} : t[i] = Base - 1
       /\ t[1] + C1 + ((t[0] + C0) \div Base) > Base - 1
    \/ t[Top] \div MSBBase = 1

Normalize(w) ==
    LET first  == Masked(FoldIn([w EXCEPT ![Top] = @ % MSBBase],
                                w[Top] \div MSBBase))
        second == Masked(FoldIn(first, IF ReachesPrime(first) THEN 1 ELSE 0))
    IN  [second EXCEPT ![Top] = @ % MSBBase]

\* NegateVal is told the magnitude of the value.
NegateVal(w, mag) ==
    [i \in Words |-> ((mag + 1) * PrimeWord(i) - w[i]) % WordMod]

Add2(v, w) == [i \in Words |-> (v[i] + w[i]) % WordMod]

AddInt(w, ui) == [w EXCEPT ![0] = (@ + ui) % WordMod]

MulInt(w, ui) == [i \in Words |-> (w[i] * ui) % WordMod]

\* The sum of a term for each word.
Total(x) ==
    LET s[n \in 0..NWords] == IF n = 0 THEN 0 ELSE s[n - 1] + x[n - 1]
    IN  s[NWords]

\* The columns of the product, from the lowest.
Columns(v, w) ==
    LET term(k, i) == IF k - i \in Words THEN v[i] * w[k - i] ELSE 0
    IN  [k \in 0..(2 * Top) |-> Total([i \in Words |-> term(k, i)])]

\* Seeded fault: the last word is folded in like the others, without its part
\* that goes past the top.
TopTerm(t) == t * TopFold * C0

\* The carry out of the product is folded in at the top word at once.
LastTerm(t) == t * TopFold * PMinus

\* The words past the last are folded back in, then what the top word has too
\* much; its carry is left in the third word.
Reduce(t) ==
    LET hi(k) == t[NWords + k]
        col == [k \in Words |->
                   t[k] + (IF k = 0 THEN 0 ELSE hi(k - 1) * TopFold * C1)
                        + (IF k = Top THEN LastTerm(hi(Top))
                                      ELSE hi(k) * TopFold * C0)]
        m == Carried(col, Top, DoubleMod)
        excess == m[Top] \div MSBBase
        low == (m[0] % Base) + excess * C0
        next == (low \div Base) + (m[1] % Base) + excess * C1
    IN  [k \in Words |-> CASE k = 0   -> low % Base
                           [] k = 1   -> next % Base
                           [] k = 2   -> ((next \div Base) + (m[2] % Base)) % WordMod
                           [] k = Top -> m[Top] % MSBBase
                           [] OTHER   -> m[k] % Base]

\* The words of the product, the last one with all that is left.
Product(col) ==
    LET m == Carried(col, 2 * Top, DoubleMod)
    IN  [k \in 0..(2 * NWords - 1) |->
            IF k <= 2 * Top THEN m[k] % Base ELSE m[2 * Top] \div Base]

Mul2(v, w) == Reduce(Product(Columns(v, w)))

\* The square takes the products of two different words once and doubles
\* them.
SquareColumns(w) ==
    LET term(k, i) == CASE k - i \notin Words \/ k - i < i -> 0
                        [] k - i \in Words /\ k - i = i -> w[i] * w[i]
                        [] k - i \in Words /\ k - i > i -> 2 * w[i] * w[k - i]
    IN  [k \in 0..(2 * Top) |-> Total([i \in Words |-> term(k, i)])]

SquareVal(w) == Reduce(Product(SquareColumns(w)))

\* These look at the words as they are.
IsZero(w) == \A i \in Words : w[i] = 0
IsOne(w) == w[0] = 1 /\ \A i \in Words \ {0} : w[i] = 0
IsOdd(w) == w[0] % 2 = 1
Equals(v, w) == \A i \in Words : v[i] = w[i]

\* Whether the number is n or more, word by word from the top: the code
\* compares with the words of P - N (IsGtOrEqPrimeMinusOrder).
IsGtOrEq(w, n) ==
    LET pn == Packed(n)
        above(i) == \A j \in Words : j > i => w[j] = pn[j]
    IN  \/ \E i \in Words \ {0} : above(i) /\ w[i] > pn[i]
        \/ above(0) /\ w[0] >= pn[0]

-----------------------------------------------------------------------------
\* The exact product, digit by digit so as to stay within TLC's integers.
MulMod(a, b) ==
    LET m[k \in 0..Bytes] ==
            IF k = 0 THEN 0
            ELSE (m[k - 1] * ByteBase
                    + a * ((b \div BytePower(Bytes - k)) % ByteBase)) % P
    IN  m[Bytes]

\* A call that leaves words w, of magnitude mag, for the number x.
Becomes(w, mag, x) ==
    /\ calls < MaxCalls
    /\ calls' = calls + 1
    /\ f' = w
    /\ magnitude' = mag
    /\ exact' = x
    /\ normalized' = FALSE

CallNormalize ==
    /\ calls < MaxCalls
    /\ calls' = calls + 1
    /\ f' = Normalize(f)
    /\ magnitude' = 1
    /\ normalized' = TRUE
    /\ UNCHANGED exact

CallNegate ==
    /\ magnitude <= NegateMax
    /\ Becomes(NegateVal(f, magnitude), magnitude + 1, (P - exact) % P)

\* The operand is normalized, or negated and of magnitude 2.
CallAdd ==
    \E n \in Operands, neg \in BOOLEAN :
        LET op == IF neg THEN NegateVal(Packed(n), 1) ELSE Packed(n)
            x  == IF neg THEN P - n ELSE n
            mg == IF neg THEN 2 ELSE 1
        IN  /\ magnitude + mg <= CallerMax
            /\ Becomes(Add2(f, op), magnitude + mg, (exact + x) % P)

CallAddInt ==
    \E ui \in SmallInts :
        /\ magnitude + 1 <= CallerMax
        /\ Becomes(AddInt(f, ui), magnitude + 1, (exact + ui) % P)

CallMulInt ==
    \E ui \in SmallInts :
        /\ ui > 0 /\ magnitude * ui <= CallerMax
        /\ Becomes(MulInt(f, ui), magnitude * ui, (exact * ui) % P)

CallMul ==
    \E n \in Operands, neg \in BOOLEAN :
        LET op == IF neg THEN NegateVal(Packed(n), 1) ELSE Packed(n)
            x  == IF neg THEN P - n ELSE n
        IN  /\ magnitude <= MulMax
            /\ Becomes(Mul2(f, op), 1, MulMod(exact, x))

CallSquare ==
    /\ magnitude <= MulMax
    /\ Becomes(SquareVal(f), 1, MulMod(exact, exact))

FieldInit ==
    \E n \in Inputs :
        /\ f = SetBytes(ToBytes(n)).words
        /\ magnitude = 1
        /\ normalized = ~SetBytes(ToBytes(n)).overflow
        /\ exact = n % P
        /\ calls = 0

FieldNext ==
    \/ CallNormalize \/ CallNegate \/ CallAdd \/ CallAddInt \/ CallMulInt
    \/ CallMul \/ CallSquare

FieldSpec == FieldInit /\ [][FieldNext]_fieldVars

-----------------------------------------------------------------------------
\* The words are the only ones of their number.
Canonical ==
    /\ f = Packed(exact)
    /\ PutBytes(f) = ToBytes(exact)
    /\ SetBytes(PutBytes(f)) = [words |-> f, overflow |-> FALSE]
    /\ IsOdd(f) = (exact % 2 = 1)
    /\ IsZero(f) = (exact = 0) /\ IsOne(f) = (exact = 1)
    /\ \A n \in Operands :
           /\ Equals(f, Packed(n)) = (exact = n)
           /\ IsGtOrEq(f, n) = (exact >= n)

\* Whatever the order of the calls that the preconditions allow, the words
\* stand for what the calls should have computed: no word, and no sum of
\* products, has overflowed or gone below zero; and no word is filled more
\* often than the magnitude says, but for the carry of a product.  After
\* Normalize, and after SetBytes unless it reported an overflow, there is one
\* representation of each number: the comparisons, the parity and the bytes
\* are those of the number (field.go 336-1499).
ValueKept ==
    /\ Value(f) % P = exact
    /\ \A i \in Words :
           f[i] <= magnitude * (WordBase(i) - 1 + (IF i = 2 THEN CarrySlack ELSE 0))
    /\ normalized => Canonical

=============================================================================
