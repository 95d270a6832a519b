----------------------------- MODULE FieldChains ----------------------------
(***************************************************************************)
(* The addition chains of FieldVal.SquareRootVal and FieldVal.Inverse      *)
(* (pkg/ec/secp256k1/field.go): fixed sequences of squarings and products  *)
(* that raise a number to the powers (p + 1) / 4 and p - 2 of the real     *)
(* prime, p = 2^256 - 2^32 - 977.  Squaring doubles an exponent and a      *)
(* product adds two, so the machine carries out the sequences on           *)
(* exponents of 256 bits.                                                  *)
(*                                                                         *)
(* A definition marked "seeded fault" is a mistake one could make in the   *)
(* definition after it; no action uses it.                                 *)
(***************************************************************************)
EXTENDS Integers, Sequences

CONSTANTS Digits, DigitBase   \* an exponent: so many digits of that base

\* A digit holds any number below 980, and there is room for 256 bits.
ASSUME ChainAssumption == Digits \in Nat /\ Digits > 25
                          /\ DigitBase \in Nat /\ DigitBase > 979

VARIABLES
    chain,  \* which of the two, or "none"
    pc,     \* the steps of it that are done
    reg     \* the registers that are set, each with the exponent it holds

chainVars == <<chain, pc, reg>>

-----------------------------------------------------------------------------
Exponents == [1..Digits -> 0..(DigitBase - 1)]

Sum(x, y) ==
    LET carry[i \in 0..Digits] ==
            IF i = 0 THEN 0 ELSE (x[i] + y[i] + carry[i - 1]) \div DigitBase
    IN  [i \in 1..Digits |-> (x[i] + y[i] + carry[i - 1]) % DigitBase]

Doubled[x \in Exponents] == Sum(x, x)

\* The exponent after n squarings.
Squared(x, n) ==
    LET d[k \in 0..n] == IF k = 0 THEN x ELSE Doubled[d[k - 1]]
    IN  d[n]

Small(n) == [i \in 1..Digits |-> IF i = 1 THEN n ELSE 0]
Power2(k) == Squared(Small(1), k)

\* A step of a chain: to becomes from, squared so many times, times the last
\* register if there is one.
Step(to, from, squares, times) ==
    [to |-> to, from |-> from, squares |-> squares, times |-> times]

SquareRootVal ==
    << Step("a2", "a", 1, "a"),      Step("a3", "a2", 1, "a"),
       Step("a6", "a3", 3, "a3"),    Step("a9", "a6", 3, "a3"),
       Step("a11", "a9", 2, "a2"),   Step("a22", "a11", 11, "a11"),
       Step("a44", "a22", 22, "a22"), Step("a88", "a44", 44, "a44"),
       Step("a176", "a88", 88, "a88"), Step("a220", "a176", 44, "a44"),
       Step("a223", "a220", 3, "a3"), Step("f", "a223", 23, "a22"),
       Step("f", "f", 6, "a2"),      Step("f", "f", 2, "none") >>

\* Seeded fault: one product more of the same.
InverseLonger(k) == k + 1

\* How often a1023 follows ten squarings before a1019 does.
Repeats(k) == k

Inverse ==
    << Step("a2", "f", 1, "none"),   Step("a3", "a2", 0, "f"),
       Step("a4", "a2", 1, "none"),  Step("a10", "a4", 1, "a2"),
       Step("a11", "a10", 0, "f"),   Step("a21", "a10", 0, "a11"),
       Step("a42", "a21", 1, "none"), Step("a45", "a42", 0, "a3"),
       Step("a63", "a42", 0, "a21"), Step("a1019", "a63", 4, "a11"),
       Step("a1023", "a1019", 0, "a4"), Step("f", "a63", 0, "none") >>
    \o [i \in 1..Repeats(21) |-> Step("f", "f", 10, "a1023")]
    \o << Step("f", "f", 10, "a1019"), Step("f", "f", 10, "a1023"),
          Step("f", "f", 10, "a1023"), Step("f", "f", 10, "a45") >>

Program == CASE chain = "sqrt"    -> SquareRootVal
             [] chain = "inverse" -> Inverse
             [] chain = "none"    -> <<>>

StepOf(st) ==
    LET x == Squared(reg[st.from], st.squares)
        y == IF st.times = "none" THEN x ELSE Sum(x, reg[st.times])
    IN  /\ {st.from, st.times} \subseteq DOMAIN reg \cup {"none"}
        /\ reg' = [r \in DOMAIN reg \cup {st.to} |-> IF r = st.to THEN y ELSE reg[r]]

ChainStep ==
    /\ pc < Len(Program)
    /\ StepOf(Program[pc + 1])
    /\ pc' = pc + 1
    /\ UNCHANGED chain

ChainInit ==
    /\ \/ chain = "sqrt" /\ reg = [r \in {"a"} |-> Small(1)]
       \/ chain = "inverse" /\ reg = [r \in {"f"} |-> Small(1)]
    /\ pc = 0

ChainSpec == ChainInit /\ [][ChainStep]_chainVars

-----------------------------------------------------------------------------
\* At its end the chain of SquareRootVal has the exponent (p + 1) / 4, which
\* is 2^254 - 2^30 - 244, and that of Inverse p - 2 = 2^256 - 2^32 - 979
\* (field.go 1109-1256, 1511-1613).
ChainsEndRight ==
    pc = Len(Program) =>
        /\ chain = "sqrt" =>
               Sum(Sum(reg["f"], Power2(30)), Small(244)) = Power2(254)
        /\ chain = "inverse" =>
               Sum(Sum(reg["f"], Power2(32)), Small(979)) = Power2(256)

=============================================================================
