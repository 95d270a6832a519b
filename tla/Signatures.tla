----------------------------- MODULE Signatures -----------------------------
(***************************************************************************)
(* One signature from the secret key to the party that checks it: the      *)
(* nonces (pkg/ec/secp256k1/nonce.go), ECDSA (pkg/ec/ecdsa) and Schnorr    *)
(* signing (pkg/ec/schnorr), the bytes they are written as, and what is    *)
(* read out of bytes that may have been altered on the way.                *)
(*                                                                         *)
(* A number on the wire is Width digits of base 2^WireBits, the highest    *)
(* first.  SHA-256 is not modelled: the stream of candidates for a nonce   *)
(* may be any, as long as it is always the same for the same key, and the  *)
(* challenge of a Schnorr signature is any function of what it commits to. *)
(* Which error a parser returns is left out.                               *)
(*                                                                         *)
(* A definition marked "seeded fault" is a mistake one could make in the   *)
(* definition after it; no action uses it.                                 *)
(***************************************************************************)
EXTENDS CurveFormulas, SequencesExt

CONSTANTS
    AnyZ,                     \* the third coordinate of a sum of multiples
    WireBits, Width,
    SequenceID, IntegerID,    \* the two tags of DER
    MagicOffset,              \* what a compact signature's code starts from (27)
    Hashes,                   \* the messages' hashes, as numbers
    Candidates,               \* what the nonces' stream may contain
    MaxStream,                \* bound: candidates drawn
    ChallengeHash(_, _, _),   \* the tagged hash of r, the key's x and the message
    Keys,                     \* the numbers drawn for a secret key
    Altered, MaxAltered       \* bound: what a byte becomes, how many bytes

Byte == 2^WireBits

ASSUME WireAssumption ==
    /\ Width \in Nat \ {0} /\ Byte^Width > P /\ AnyZ \in 1..(P - 1)
    /\ Byte % 2 = 0 /\ 4 + 2 * (Width + 3) < Byte
    /\ {SequenceID, IntegerID, MagicOffset, MagicOffset + 7} \subseteq 0..(Byte - 1)
    /\ Candidates \cup Hashes \cup Keys \subseteq 0..(Byte^Width - 1)
    /\ Altered \subseteq 0..(Byte - 1)

\* What the provers have to know of powers.
ASSUME PowerAssumption ==
    /\ Byte \in Nat /\ Byte^0 = 1
    /\ \A n \in 0..(Width - 1) : Byte^n \in Nat /\ Byte^(n + 1) = Byte^n * Byte

\* A hash is a number.
ASSUME HashAssumption ==
    \A r, x \in 0..(P - 1), h \in Hashes : ChallengeHash(r, x, h) \in Nat

VARIABLES
    scheme,     \* "ecdsa", "schnorr" or "aux": Schnorr with a custom nonce
    d, hash,    \* the secret key (0: not drawn yet) and the hash signed
    drawn,      \* how many candidates HMAC has given for this key and hash
    nonces,     \* those of them that may be nonces, in their order
    iteration,  \* how many nonces have failed
    made,       \* the signature
    wire        \* the bytes sent, the form they are in, how many were altered

sigVars == <<scheme, d, hash, drawn, nonces, iteration, made, wire>>

-----------------------------------------------------------------------------
(* Scalars and points.                                                     *)

InvN(a) == CHOOSE b \in 0..(N - 1) : (a * b) % N = 1
IsOverHalfOrder(a) == 2 * a > N

\* What the formulas of CurveFormulas compute, at some third coordinate.
MulAdd(k, l, pt) == Jacobian(Plus(Times(k, G), Times(l, pt)), AnyZ)
PubKey(k) == Times(k, G)
GenerateSharedSecret(k, pt) == Times(k, pt)[1]

IsOdd(a) == a % 2 = 1

-----------------------------------------------------------------------------
(* Bytes.                                                                  *)

PutBytes(a) == [i \in 1..Width |-> (a \div Byte^(Width - i)) % Byte]
FromBytes(b) ==
    LET v[i \in 0..Len(b)] == IF i = 0 THEN 0 ELSE v[i - 1] * Byte + b[i]
    IN  v[Len(b)]

IsHigh(b) == b >= Byte \div 2

\* Whether the first n bytes can go: zeros before one that is not high.
Trims(b, n) == n < Len(b) /\ \A i \in 1..n : b[i] = 0 /\ ~IsHigh(b[i + 1])
Trimmed(b) ==
    LET n == CHOOSE n \in 0..Len(b) : Trims(b, n) /\ ~Trims(b, n + 1)
    IN  SubSeq(b, n + 1, Len(b))

\* As few bytes as keep the first one from being high.
Canonical(a) == Trimmed(<<0>> \o PutBytes(a))

Sequence(r, s) ==
    LET body == <<IntegerID, Len(r)>> \o r \o <<IntegerID, Len(s)>> \o s
    IN  <<SequenceID, Len(body)>> \o body

DER(r, s) == Sequence(Canonical(r), Canonical(s))

Serialize(sig) == DER(sig.r, IF IsOverHalfOrder(sig.s) THEN N - sig.s ELSE sig.s)

None == [ok |-> FALSE]
InOrder(a) == a \in 1..(N - 1)

\* What ParseDERSignature asks of one integer.
IntegerOK(tag, b) ==
    /\ tag = IntegerID
    /\ Len(b) > 0
    /\ ~IsHigh(b[1])
    /\ ~(Len(b) > 1 /\ b[1] = 0 /\ ~IsHigh(b[2]))

\* Leading zeros do not count; SetByteSlice would truncate a longer one.
IntegerInRange(b) ==
    /\ Len(b) - (IF b[1] = 0 THEN 1 ELSE 0) <= Width
    /\ InOrder(FromBytes(b))

LengthsFit(b) ==
    /\ Len(b) \in 8..(6 + 2 * (Width + 1))
    /\ b[1] = SequenceID
    /\ b[2] = Len(b) - 2
    /\ 4 + b[4] < Len(b)
    /\ 5 + b[4] < Len(b)
    /\ 6 + b[4] + b[6 + b[4]] = Len(b)

ParseDERSignature(b) ==
    LET rLen == b[4]
        r == SubSeq(b, 5, 4 + rLen)
        s == SubSeq(b, 7 + rLen, 6 + rLen + b[6 + rLen])
    IN  IF /\ LengthsFit(b)
           /\ IntegerOK(b[3], r) /\ IntegerOK(b[5 + rLen], s)
           /\ IntegerInRange(r) /\ IntegerInRange(s)
        THEN [ok |-> TRUE, r |-> FromBytes(r), s |-> FromBytes(s)]
        ELSE None

\* r and s one after the other.
Fixed(sig) == PutBytes(sig.r) \o PutBytes(sig.s)
First(b) == FromBytes(SubSeq(b, 1, Width))
Second(b) == FromBytes(SubSeq(b, Width + 1, 2 * Width))

\* Schnorr: s is reduced, whatever SetByteSlice says of an overflow.
ParseSignature(b) ==
    IF Len(b) = 2 * Width /\ First(b) < P
    THEN [ok |-> TRUE, r |-> First(b), s |-> Second(b) % N]
    ELSE None

SerializeCompressed(pt) == <<IF IsOdd(pt[2]) THEN 3 ELSE 2>> \o PutBytes(pt[1])
SerializeUncompressed(pt) == <<4>> \o PutBytes(pt[1]) \o PutBytes(pt[2])

\* The formats of 65 bytes: uncompressed, and hybrid with the oddness of y.
FormatFits(format, y) == format = 4 \/ format = (IF IsOdd(y) THEN 7 ELSE 6)

ParsePubKey(b) ==
    LET body == Tail(b)
        y == DecompressY(First(body), b[1] = 3)
    IN  CASE /\ Len(b) = 1 + 2 * Width
             /\ First(body) < P /\ Second(body) < P
             /\ FormatFits(b[1], Second(body))
             /\ isOnCurve(First(body), Second(body)) ->
               [ok |-> TRUE, pt |-> <<First(body), Second(body)>>]
          [] Len(b) = 1 + Width /\ b[1] \in {2, 3} /\ First(body) < P /\ y.ok ->
               [ok |-> TRUE, pt |-> <<First(body), y.y>>]
          [] OTHER -> None

-----------------------------------------------------------------------------
(* Nonces.                                                                 *)

\* The nonce of this iteration: as many as have failed are passed over.
NonceRFC6979 == nonces[iteration + 1]

HasNonce == Len(nonces) > iteration

-----------------------------------------------------------------------------
(* ECDSA.                                                                  *)

\* A signature, or None if this nonce gives none.  code: bit 0 is the oddness
\* of the nonce's point, bit 1 whether its x was of the order or more.
sign(key, k, h) ==
    LET kG == PubKey(k)
        r == kG[1] % N
        s == (InvN(k) * (key * r + h)) % N
        over == IsOverHalfOrder(s)
    IN  IF r = 0 \/ s = 0 THEN None
        ELSE [ok |-> TRUE, kind |-> "ecdsa",
              r |-> r, s |-> IF over THEN N - s ELSE s,
              code |-> (IF kG[1] >= N THEN 2 ELSE 0)
                       + (IF IsOdd(kG[2]) # over THEN 1 ELSE 0)]

IsGtOrEqPrimeMinusOrder(r) == r >= P - N

\* Seeded fault: the order is added whether or not the sum is a field element.
IsRemainderUnbounded(r, X) ==
    LET z == Mod(X.Z.v * X.Z.v)
    IN  Mod(r * z) = X.X.v \/ Mod((r + N) * z) = X.X.v

\* The two numbers that r may have been the remainder of, against x / z^2.
IsRemainder(r, X) ==
    LET z == Mod(X.Z.v * X.Z.v)
    IN  \/ Mod(r * z) = X.X.v
        \/ ~IsGtOrEqPrimeMinusOrder(r) /\ Mod((r + N) * z) = X.X.v

Verify(sig, h, pt) ==
    LET w == InvN(sig.s)
        X == MulAdd((h * w) % N, (sig.r * w) % N, pt)
    IN  /\ sig.r # 0 /\ sig.s # 0
        /\ ~IsNowhere(X)
        /\ IsRemainder(sig.r, X)

SignCompact(sig, isCompressedKey) ==
    <<MagicOffset + sig.code + (IF isCompressedKey THEN 4 ELSE 0)>> \o Fixed(sig)

RecoverCompact(b, h) ==
    LET code == b[1] - MagicOffset
        r == First(Tail(b))
        s == Second(Tail(b))
        overflow == (code \div 2) % 2 = 1
        x == IF overflow THEN r + N ELSE r
        y == DecompressY(x, IsOdd(code))
        w == InvN(r)
        key == MulAdd((N - ((h * w) % N)) % N, (s * w) % N, <<x, y.y>>)
    IN  IF /\ Len(b) = 1 + 2 * Width
           /\ code \in 0..7
           /\ InOrder(r) /\ InOrder(s)
           /\ overflow => ~IsGtOrEqPrimeMinusOrder(r)
           /\ y.ok
           /\ ~IsNowhere(key)
        THEN [ok |-> TRUE, pt |-> Affine(key), wasCompressed |-> code >= 4,
              r |-> r, s |-> s]
        ELSE None

-----------------------------------------------------------------------------
(* Schnorr.  A public key is its x; the point meant is the one of even y.  *)

Lift(x) == ParsePubKey(<<2>> \o PutBytes(x))

schnorrVerify(sig, h, x) ==
    LET key == Lift(x)
        e == ChallengeHash(sig.r, x, h) % N
        R == MulAdd(sig.s, (N - e) % N, key.pt)
    IN  /\ key.ok
        /\ ~IsNowhere(R)
        /\ ~IsOdd(Affine(R)[2])
        /\ Affine(R)[1] = sig.r

\* Seeded fault: the secret key is used as it is.
NotNegated(key) == key

\* The secret key of the point of even y.
EvenKey(key) == IF IsOdd(PubKey(key)[2]) THEN N - key ELSE key

\* The signature is not sent out before it has been verified, unless fastSign.
schnorrSign(key, k, h, fastSign) ==
    LET R == PubKey(k)
        even == IF IsOdd(R[2]) THEN N - k ELSE k
        e == ChallengeHash(R[1], PubKey(key)[1], h)
        sig == [ok |-> TRUE, kind |-> "schnorr",
                r |-> R[1], s |-> (e * EvenKey(key) + even) % N]
    IN  IF e < N /\ (fastSign \/ schnorrVerify(sig, h, PubKey(key)[1]))
        THEN sig ELSE None

-----------------------------------------------------------------------------
NotMade == [kind |-> "none"]
Failed == [kind |-> "failed"]
NotSent == [form |-> "none", bytes |-> <<>>, altered |-> 0]

SigInit ==
    /\ scheme \in {"ecdsa", "schnorr", "aux"}
    /\ d = 0 /\ hash \in Hashes
    /\ drawn = 0 /\ nonces = <<>> /\ iteration = 0
    /\ made = NotMade /\ wire = NotSent

\* Numbers are drawn until one is a secret key.
GenerateSecretKey ==
    /\ d = 0
    /\ \E b \in Keys : d' = IF InOrder(b) THEN b ELSE 0
    /\ UNCHANGED <<scheme, hash, drawn, nonces, iteration, made, wire>>

\* The next candidate for a nonce.
Hmac ==
    /\ d # 0 /\ made = NotMade /\ scheme # "aux"
    /\ ~HasNonce /\ drawn < MaxStream
    /\ drawn' = drawn + 1
    /\ \E c \in Candidates : nonces' = IF InOrder(c) THEN Append(nonces, c) ELSE nonces
    /\ UNCHANGED <<scheme, d, hash, iteration, made, wire>>

\* One turn of the loops of signRFC6979 and of schnorr's Sign.
Try(sig) ==
    IF sig.ok THEN made' = sig /\ UNCHANGED iteration
              ELSE iteration' = iteration + 1 /\ UNCHANGED made

signRFC6979 ==
    /\ made = NotMade /\ scheme = "ecdsa" /\ HasNonce
    /\ Try(sign(d, NonceRFC6979, hash % N))
    /\ UNCHANGED <<scheme, d, hash, drawn, nonces, wire>>

SignSchnorr ==
    /\ made = NotMade /\ scheme = "schnorr" /\ HasNonce
    /\ \E fastSign \in BOOLEAN :
           Try(schnorrSign(d, NonceRFC6979, hash, fastSign))
    /\ UNCHANGED <<scheme, d, hash, drawn, nonces, wire>>

\* With a custom nonce a failure is an error: there is no other nonce.
SignAux ==
    /\ d # 0 /\ made = NotMade /\ scheme = "aux"
    /\ \E c \in Candidates, fastSign \in BOOLEAN :
          LET k == c % N
              sig == schnorrSign(d, k, hash, fastSign)
          IN  made' = IF k # 0 /\ sig.ok THEN sig ELSE Failed
    /\ UNCHANGED <<scheme, d, hash, drawn, nonces, iteration, wire>>

Sent(form, b) == [form |-> form, bytes |-> b, altered |-> 0]

\* How another program may write an integer: as it is, with zeros before it,
\* or without the zero that keeps it from being negative; and s may be high.
Writings(a) ==
    LET c == Canonical(a)
    IN  {c, <<0>> \o c, <<0, 0>> \o c, IF c[1] = 0 THEN Tail(c) ELSE c}

Forms ==
    CASE made.kind = "ecdsa" ->
             {Sent("compact", SignCompact(made, TRUE))}
             \cup {Sent("der", Sequence(r, s)) :
                      r \in Writings(made.r),
                      s \in Writings(made.s) \cup {Canonical(N - made.s)}}
      [] made.kind = "schnorr" -> {Sent("schnorr", Fixed(made))}
      [] made.kind \in {"none", "failed"} -> {}

KeyForms(pt) ==
    {Sent("key", b) : b \in {SerializeCompressed(pt), SerializeUncompressed(pt)}}

Send ==
    /\ wire = NotSent /\ d # 0
    /\ wire' \in (Forms \cup KeyForms(PubKey(d)))
    /\ UNCHANGED <<scheme, d, hash, drawn, nonces, iteration, made>>

\* A byte is changed, lost or added on the way.
Alter ==
    /\ wire # NotSent /\ wire.altered < MaxAltered
    /\ \E i \in 1..Len(wire.bytes), b \in Altered :
         wire' = [wire EXCEPT !.altered = @ + 1, !.bytes[i] = b]
    /\ UNCHANGED <<scheme, d, hash, drawn, nonces, iteration, made>>

AlterLength ==
    /\ wire # NotSent /\ wire.altered < MaxAltered
    /\ \E i \in 1..Len(wire.bytes), b \in Altered :
         wire' = [wire EXCEPT !.altered = @ + 1,
                     !.bytes = IF b = 0 THEN RemoveAt(@, i) ELSE InsertAt(@, i, b)]
    /\ UNCHANGED <<scheme, d, hash, drawn, nonces, iteration, made>>

SigNext ==
    \/ GenerateSecretKey \/ Hmac
    \/ signRFC6979 \/ SignSchnorr \/ SignAux
    \/ Send \/ Alter \/ AlterLength

SigSpec == SigInit /\ [][SigNext]_sigVars

-----------------------------------------------------------------------------
Q == PubKey(d)
Exact(k, l) == Plus(Times(k, G), Times(l, Q))

\* A signature that was made is accepted, after being written and read in each
\* form, and took the first nonce of the stream that gives one.  An ECDSA
\* signature gives the key back; a Schnorr signature holds for the key and for
\* its negation.  Two parties reach the same secret (nonce.go 211-263,
\* ecdsa/signature.go 68-994, schnorr/signature.go 113-543, ecdh.go 14-21).
SignaturesHold ==
    /\ made.kind = "ecdsa" =>
          LET read == ParseDERSignature(Serialize(made)) IN
          /\ sign(d, nonces[iteration + 1], hash % N).s = made.s
          /\ \A i \in 1..iteration : ~sign(d, nonces[i], hash % N).ok
          /\ Verify(made, hash % N, Q)
          /\ Verify([made EXCEPT !.s = N - @], hash % N, Q)
          /\ read.ok /\ read.r = made.r /\ read.s = made.s
          /\ \A compressed \in BOOLEAN :
                LET rec == RecoverCompact(SignCompact(made, compressed), hash % N)
                IN  rec.ok /\ rec.pt = Q /\ rec.wasCompressed = compressed
    /\ made.kind = "schnorr" =>
          LET read == ParseSignature(Fixed(made)) IN
          /\ read.ok /\ read.r = made.r /\ read.s = made.s
          /\ schnorrVerify(made, hash, Q[1])
    /\ d # 0 /\ drawn = 0 =>
          /\ \A form \in KeyForms(Q) : ParsePubKey(form.bytes).pt = Q
          /\ \A k \in 1..(N - 1) :
                GenerateSharedSecret(d, PubKey(k)) = GenerateSharedSecret(k, Q)

\* However its bytes were altered, what is read as a signature or a key would be
\* written as the same bytes again, except that s may be written low, a hybrid
\* key without its oddness, and the s of a Schnorr signature without the order:
\* for those, and no others, other bytes stand for the same signature.  What is
\* read is accepted if and only if r is the remainder of the x of the point that
\* the chord and tangent rule gives; and a key is recovered only from a signature
\* that holds for it (ecdsa/signature.go 163-535 and 786-994, pubkey.go 109-189,
\* schnorr/signature.go 69-95 and 113-224).
ReadExactly ==
    LET der == ParseDERSignature(wire.bytes)
        rec == RecoverCompact(wire.bytes, hash % N)
        key == ParsePubKey(wire.bytes)
        sch == ParseSignature(wire.bytes)
        even == IF IsOdd(Q[2]) THEN N - 1 ELSE 1
    IN  /\ wire.form = "der" /\ der.ok =>
              LET w == InvN(der.s)
                  X == Exact(hash * w, der.r * w)
              IN  /\ DER(der.r, der.s) = wire.bytes
                  /\ Verify(der, hash % N, Q) = (X # Infinity /\ X[1] % N = der.r)
        /\ wire.form = "compact" /\ rec.ok =>
              /\ Fixed(rec) = Tail(wire.bytes) /\ rec.pt \in OnCurve
              /\ Verify(rec, hash % N, rec.pt)
        /\ wire.form = "key" /\ key.ok =>
              /\ key.pt \in OnCurve
              /\ \/ wire.bytes \in {SerializeCompressed(key.pt),
                                    SerializeUncompressed(key.pt)}
                 \/ /\ Tail(wire.bytes) = Tail(SerializeUncompressed(key.pt))
                    /\ wire.bytes[1] = (IF IsOdd(key.pt[2]) THEN 7 ELSE 6)
        /\ wire.form = "schnorr" /\ sch.ok =>
              LET R == Exact(sch.s, even * (N - (ChallengeHash(sch.r, Q[1], hash) % N)))
              IN  /\ (Fixed(sch) = wire.bytes) = (Second(wire.bytes) < N)
                  /\ schnorrVerify(sch, hash, Q[1]) =
                         (R # Infinity /\ R[1] = sch.r /\ ~IsOdd(R[2]))

=============================================================================
