----------------------------- MODULE CurveArith -----------------------------
(***************************************************************************)
(* One JacobianPoint of pkg/ec/secp256k1 and the calls made on it.         *)
(* exact is the affine point it should stand for, by the chord and tangent *)
(* rule.                                                                   *)
(***************************************************************************)
EXTENDS CurveFormulas

CONSTANT Operands   \* the points added

ASSUME AddedAssumption == Operands \subseteq Group

VARIABLES result, exact

curveVars == <<result, exact>>

CallAdd ==
    \E b \in Operands, z \in ZValues :
        /\ \/ result' = AddNonConst(result, Jacobian(b, z), "p1")
           \/ result' = AddNonConst(Jacobian(b, z), result, "p2")
        /\ exact' = Plus(exact, b)

CallDouble ==
    /\ \E which \in {"none", "p1"} : result' = DoubleNonConst(result, which)
    /\ exact' = Plus(exact, exact)

CallToAffine == result' = ToAffine(result) /\ UNCHANGED exact

CurveInit == \E a \in Group : result = Jacobian(a, 1) /\ exact = a

CurveNext == CallAdd \/ CallDouble \/ CallToAffine

CurveSpec == CurveInit /\ [][CurveNext]_curveVars

-----------------------------------------------------------------------------
\* Whatever points have been added, doubled or made affine, in whatever
\* coordinates and wherever the result was stored, the point is that of the
\* chord and tangent rule; and no formula on the way is given or leaves numbers
\* of a larger magnitude than it may have, declares a smaller one when it
\* negates, or compares numbers that are not normalized (curve.go 136-631, the
\* preconditions of field.go).
PointIsSum ==
    /\ Affine(result) = exact
    /\ result.X.ok /\ result.Y.ok /\ result.Z.ok
    /\ Usable(result)

\* k times the point, from two short halves of k.
Short(n) == n * n <= 4 * N \/ (N - n) * (N - n) <= 4 * N
IsMultiple(k, m) == Affine(m) = Times(k, exact) /\ m.X.ok /\ m.Y.ok /\ m.Z.ok
RightMultiple(k) ==
    /\ IsMultiple(k, ScalarMultNonConst(k, result))
    /\ Short(splitK(k).k1) /\ Short(splitK(k).k2)

\* The form of k has the value k and no two digits next to each other.
HasValue(form, m, k) ==
    LET value[bit \in 0..(m * ByteBits)] ==
            IF bit = 0 THEN 0
            ELSE 2 * value[bit - 1] + SignAt(form, m, bit - 1)
    IN  /\ value[m * ByteBits] = k
        /\ \A bit \in 1..(m * ByteBits - 1) :
               SignAt(form, m, bit - 1) = 0 \/ SignAt(form, m, bit) = 0
IsForm(form, k) == HasValue(form, Len(form.pos), k)
RightForm(k) == IsForm(naf(k), k)

\* Sums, doubles and multiples of big integers.
BigIntegersAgree ==
    /\ BigDouble(exact) = Plus(exact, exact)
    /\ \A b \in Operands : /\ BigAdd(exact, b) = Plus(exact, b)
                           /\ BigAdd(b, exact) = Plus(exact, b)
    /\ BigScalarMult(exact, N + 3) = Times(3, exact)
    /\ BigScalarBaseMult(Log[exact]) = exact

\* The second coordinate, of either oddness, where there is one.
RightRoot(found, odd) ==
    /\ found.ok = (\E pt \in OnCurve : pt[1] = result.X.v)
    /\ found.ok => isOnCurve(result.X.v, found.y) /\ (found.y % 2 = 1) = odd

\* Any multiple of any point, by the endomorphism and the non-adjacent form,
\* is the right one, and the two halves of a factor are short; that form
\* stands for its number and no two digits next to each other are used.  On
\* big integers, where (0, 0) is infinity, the same results are reached, for
\* factors of the order or more too; a first coordinate and the parity of the
\* second are enough to find the point again (curve.go 674-1273,
\* ellipticadaptor.go 65-184).
MultiplesAreRight ==
    ~IsNowhere(result) =>
        /\ result.Z.v \in {1, 2} => \A k \in 0..(N - 1) : RightMultiple(k)
        /\ IsNowhere(ScalarMultNonConst(result.X.v, Jacobian(Infinity, 1)))
        /\ RightForm(result.X.v * P + result.Y.v)
        /\ result.Z.v = 1 => BigIntegersAgree
        /\ \A odd \in BOOLEAN : RightRoot(DecompressY(result.X.v, odd), odd)

=============================================================================
