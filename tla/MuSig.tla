------------------------------- MODULE MuSig -------------------------------
(***************************************************************************)
(* Signing by several parties (pkg/ec/musig2): each has a Context that     *)
(* gathers the keys, and Sessions that gather the nonces and the partial   *)
(* signatures.  Messages may be taken in any order, each once; messages of *)
(* one session are not taken for another's.                                *)
(*                                                                         *)
(* Points are elements of the group of CurveFormulas; the final signature  *)
(* is checked by schnorrVerify of Signatures.  The other tagged hashes     *)
(* are functions given as constants, of what they commit to; the secret    *)
(* nonces are given too, since GenNonces hashes random bytes.              *)
(*                                                                         *)
(* A definition marked "seeded fault" is a mistake one could make in the   *)
(* definition after it; no action uses it.                                 *)
(***************************************************************************)
EXTENDS Signatures

CONSTANTS
    Scenarios,          \* what the parties agree on, see below
    Messages,
    Nonce(_, _, _),     \* the secret nonces of a party and key, by number
    CoefHash(_, _), BlindHash(_, _, _), TapHash(_, _)

\* A scenario: the parties' secret keys; whether the keys are sorted; whether
\* all are known when the context is made, or only their number; whether a
\* nonce is generated then; the tweak of the key; how many sessions there are;
\* for a party and a session, which nonce of its own the caller gives, or 0.
\* Keys that are not sorted all parties list in one order (context.go 328), so
\* none of them registers its own first.
\* A tweak is a sequence of [t, xOnly], or for "taproot" and "bip86" one whose
\* t is found once the keys are combined.
ASSUME ScenariosAssumption ==
    \A sc \in Scenarios :
        /\ sc.keys \in Seq(1..(N - 1)) /\ Len(sc.keys) > 0
        /\ {sc.sort, sc.known, sc.early} \subseteq BOOLEAN /\ (sc.sort \/ sc.known)
        /\ sc.kind \in {"plain", "taproot", "bip86"}
        /\ sc.tweaks \in Seq([t : Nat, xOnly : BOOLEAN])
        /\ sc.kind = "taproot" => sc.tweaks # <<>>
        /\ sc.sessions \in Nat \ {0}
        /\ sc.given \in [1..Len(sc.keys) -> [1..sc.sessions -> Nat]]

-----------------------------------------------------------------------------
(* Keys (keys.go).                                                         *)

\* 1, or -1 for a point that is not the one its x stands for.
Sign1(pt) == IF IsOdd(pt[2]) THEN N - 1 ELSE 1

\* The compressed form as a number: first the oddness of y, then x.
Compressed(pt) == (IF IsOdd(pt[2]) THEN P ELSE 0) + pt[1]
Less(a, b) == Compressed(a) < Compressed(b)
sortKeys(keys) ==
    LET D == 1..Len(keys)
        p == CHOOSE p \in Bijection(D, D) :
                 \A i, j \in D : i < j => ~Less(keys[p[j]], keys[p[i]])
    IN  [i \in D |-> keys[p[i]]]

\* 0 if all keys are the same.
secondUniqueKeyIndex(keys) == SelectInSeq(keys, LAMBDA k : k # keys[1])

\* The keys' fingerprint is the sequence of them.
aggregationCoefficient(keys, key) ==
    LET second == secondUniqueKeyIndex(keys)
    IN  IF second # 0 /\ keys[second] = key THEN 1 ELSE CoefHash(keys, key) % N

\* Only a tweak of the x coordinate sees the even one of two keys.
tweakKey(acc, tweak) ==
    LET factor == IF tweak.xOnly THEN Sign1(acc.key) ELSE 1
        key == Plus(Times(tweak.t, G), Times(factor, acc.key))
    IN  [key |-> key,
         parityAcc |-> (acc.parityAcc * factor) % N,
         tweakAcc |-> (acc.tweakAcc * factor + tweak.t) % N,
         ok |-> acc.ok /\ tweak.t < N /\ key # Infinity]

\* A taproot tweak commits to the combined key before it.
Tweaks(kind, tweaks, combined) ==
    IF kind = "plain" THEN tweaks
    ELSE <<[t |-> TapHash(combined[1],
                          IF kind = "bip86" THEN 0 ELSE tweaks[1].t),
            xOnly |-> TRUE]>>

\* The sums of a sequence's first elements.
PointSums(pts) ==
    LET sum[n \in 0..Len(pts)] == IF n = 0 THEN Infinity ELSE Plus(sum[n - 1], pts[n])
    IN  sum
Totals(ns) ==
    LET sum[n \in 0..Len(ns)] == IF n = 0 THEN 0 ELSE sum[n - 1] + ns[n]
    IN  sum

Combined(keys) ==
    PointSums([n \in 1..Len(keys) |->
                   Times(aggregationCoefficient(keys, keys[n]), keys[n])])[Len(keys)]

\* The key after so many tweaks; the first that fails ends it.
Tweaked(combined, tweaks) ==
    LET acc[n \in 0..Len(tweaks)] ==
            IF n = 0
            THEN [key |-> combined, parityAcc |-> 1, tweakAcc |-> 0, ok |-> TRUE]
            ELSE IF acc[n - 1].ok THEN tweakKey(acc[n - 1], tweaks[n]) ELSE acc[n - 1]
    IN  acc

AggregateFor(s, keys) ==
    LET combined == Combined(keys)
        tweaks == Tweaks(s.kind, s.tweaks, combined)
    IN  Tweaked(combined, tweaks)[Len(tweaks)]

-----------------------------------------------------------------------------
(* Nonces and partial signatures (nonces.go, sign.go).                     *)

PubNonce(k) == <<Times(k[1], G), Times(k[2], G)>>

AggregateNonces(pubs) ==
    LET Summed(c) == PointSums([j \in 1..Len(pubs) |-> pubs[j][c]])[Len(pubs)]
    IN  <<Summed(1), Summed(2)>>

\* The nonce that is signed with; the generator stands for infinity.
computeSigningNonce(combinedNonce, key, m) ==
    LET b == BlindHash(combinedNonce, key[1], m) % N
        R == Plus(combinedNonce[1], Times(b, combinedNonce[2]))
    IN  [R |-> IF R = Infinity THEN G ELSE R, b |-> b]

challenge(R, key, m) == ChallengeHash(R[1], key[1], m) % N

\* One party's part of the sum.
PartialSig(agg, keys, sec, k, nonce, m) ==
    LET e == challenge(nonce.R, agg.key, m)
        a == aggregationCoefficient(keys, Times(sec, G))
        g == (Sign1(agg.key) * agg.parityAcc) % N
    IN  (Sign1(nonce.R) * (k[1] + nonce.b * k[2]) + e * a * g * sec) % N

verifyPartialSig(agg, keys, s, key, pubNonce, nonce, m) ==
    LET e == challenge(nonce.R, agg.key, m)
        a == aggregationCoefficient(keys, key)
        g == (Sign1(agg.key) * agg.parityAcc) % N
        own == Plus(pubNonce[1], Times(nonce.b, pubNonce[2]))
    IN  Times(s, G) = Plus(Times(e * a * g, key),
                           IF IsOdd(nonce.R[2]) THEN Neg(own) ELSE own)

\* None if a nonce is zero or the signature does not verify.
NoSig == -1
SignWith(agg, keys, sec, k, combinedNonce, m) ==
    LET nonce == computeSigningNonce(combinedNonce, agg.key, m)
        s == PartialSig(agg, keys, sec, k, nonce, m)
    IN  IF /\ k[1] # 0 /\ k[2] # 0
           /\ verifyPartialSig(agg, keys, s, Times(sec, G), PubNonce(k), nonce, m)
        THEN s ELSE NoSig

\* Seeded fault: the tweak is added whatever the oddness of the key.
TweakAddedPlain(agg, R, m) == (challenge(R, agg.key, m) * agg.tweakAcc) % N

\* What the tweaks add to the sum.
TweakProduct(agg, R, m) ==
    (challenge(R, agg.key, m) * agg.tweakAcc * Sign1(agg.key)) % N

CombineSigs(agg, R, sigs, m) ==
    (Totals(sigs)[Len(sigs)] + TweakProduct(agg, R, m)) % N

-----------------------------------------------------------------------------
\* The keys of a scenario in any order.
Orders(s) ==
    LET D == 1..Len(s.keys)
    IN  {[n \in D |-> Times(s.keys[p[n]], G)] : p \in Bijection(D, D)}

\* A hash is a number, and a nonce a scalar.
ASSUME TaggedHashes ==
    /\ \A m \in Messages, x \in 0..(P - 1) :
          /\ \A r \in 0..(P - 1) : ChallengeHash(r, x, m) \in Nat
          /\ \A a, b \in Group : BlindHash(<<a, b>>, x, m) \in Nat
    /\ \A s \in Scenarios :
          /\ \A keys \in Orders(s) : \A n \in 1..Len(keys) :
                CoefHash(keys, keys[n]) \in Nat
          /\ \A x \in 0..(P - 1), t \in {0} \cup {s.tweaks[n].t : n \in DOMAIN s.tweaks} :
                TapHash(x, t) \in Nat
          /\ \A i \in 1..Len(s.keys), k \in 1..s.sessions :
                \A n \in {k, s.sessions + s.given[i][k]} :
                    Nonce(i, s.keys[i], n) \in (0..(N - 1)) \X (0..(N - 1))

\* The keys of no scenario cancel each other.
ASSUME KeysCombine ==
    \A s \in Scenarios : \A keys \in Orders(s) : Combined(keys) # Infinity

-----------------------------------------------------------------------------
(* Contexts and sessions (context.go).  A nonce is known by its number:    *)
(* one that is generated by the number of the session it is for, and those *)
(* the caller has generated come after these.                              *)

VARIABLES
    sc,
    ctx,    \* by party: the Context
    ses,    \* by party and session: the Session
    used    \* ghost: which nonce of whom has signed what

musigVars == <<sc, ctx, ses, used>>

Parties == 1..Len(sc.keys)
Sessions == 1..sc.sessions
Key(i) == Times(sc.keys[i], G)
AggregateKeys(keys) == AggregateFor(sc, keys)

Absent == [made |-> FALSE]

MuSigInit ==
    /\ sc \in Scenarios
    /\ ctx = [i \in Parties |-> Absent]
    /\ ses = [i \in Parties |-> [k \in Sessions |-> Absent]]
    /\ used = {}

\* Seeded fault: what is sorted is a copy.
SortedCopy(keySet) == keySet

\* sort.Sort works on the caller's slice: the context keeps it sorted.
InPlace(keySet) == IF sc.sort THEN sortKeys(keySet) ELSE keySet

\* The keys are complete: they are sorted where they are, and combined.
combineSignerKeys(c) ==
    LET agg == AggregateKeys(IF sc.sort THEN sortKeys(c.keySet) ELSE c.keySet)
    IN  [c EXCEPT !.keySet = InPlace(@), !.combinedKey = agg.key, !.ok = agg.ok]

Complete(c) == Len(c.keySet) = Len(sc.keys)
Completed(c) == IF Complete(c) THEN combineSignerKeys(c) ELSE c

\* Known keys may be listed in another order if they are to be sorted.
KeyLists ==
    LET list == [j \in Parties |-> Key(j)]
    IN  IF sc.sort THEN {list, Reverse(list)} ELSE {list}

NewContext(i) ==
    /\ ~ctx[i].made
    /\ \E keySet \in IF sc.known THEN KeyLists ELSE {<<Key(i)>>} :
           ctx' = [ctx EXCEPT ![i] = Completed(
                      [made |-> TRUE, keySet |-> keySet, from |-> {i},
                       combinedKey |-> Infinity, ok |-> TRUE,
                       sessionNonce |-> IF sc.early THEN 1 ELSE 0])]
    /\ UNCHANGED <<sc, ses, used>>

WithSigner(c, j) ==
    [c EXCEPT !.keySet = Append(@, Key(j)), !.from = @ \cup {j}]

RegisterSigner(i, j) ==
    /\ ctx[i].made /\ ~Complete(ctx[i]) /\ j \notin ctx[i].from
    /\ ctx' = [ctx EXCEPT ![i] = Completed(WithSigner(ctx[i], j))]
    /\ UNCHANGED <<sc, ses, used>>

\* Seeded fault: the early nonce stays in the context.
EarlyKept(c) == c

\* The early nonce is for the first session only.
EarlyTaken(c) == [c EXCEPT !.sessionNonce = 0]

\* The nonce that the caller gives to a session, 0 if none.
externalNonce(i, k) == IF sc.given[i][k] = 0 THEN 0 ELSE sc.sessions + sc.given[i][k]

\* An early nonce goes first, then the caller's; without both one is generated.
NewSession(i, k) ==
    /\ ctx[i].made /\ Complete(ctx[i]) /\ ctx[i].ok
    /\ ~ses[i][k].made /\ (k > 1 => ses[i][k - 1].made)
    /\ LET early == ctx[i].sessionNonce
           given == externalNonce(i, k)
           number == IF early # 0 THEN early ELSE IF given # 0 THEN given ELSE k
       IN  ses' = [ses EXCEPT ![i][k] =
               [made |-> TRUE, number |-> number, local |-> number,
                pubNonces |-> {i}, msg |-> 0, ourSig |-> NoSig,
                sigs |-> {}, final |-> "none"]]
    /\ ctx' = [ctx EXCEPT ![i] = EarlyTaken(ctx[i])]
    /\ UNCHANGED <<sc, used>>

\* A party's nonce for a session may be out before the session: an early one,
\* or one of the caller's.
TakesEarly(k) == sc.early /\ k = 1
NonceReady(j, k) ==
    \/ ses[j][k].made
    \/ TakesEarly(k) /\ ctx[j].made
    \/ ~TakesEarly(k) /\ externalNonce(j, k) # 0
NonceNumber(j, k) ==
    IF ses[j][k].made THEN ses[j][k].number
    ELSE IF TakesEarly(k) THEN 1 ELSE externalNonce(j, k)
SecNonce(j, k) == Nonce(j, sc.keys[j], NonceNumber(j, k))

CombinedNonce(k) == AggregateNonces([j \in Parties |-> PubNonce(SecNonce(j, k))])

RegisterPubNonce(i, k, j) ==
    /\ ses[i][k].made /\ j \notin ses[i][k].pubNonces /\ NonceReady(j, k)
    /\ ses' = [ses EXCEPT ![i][k].pubNonces = @ \cup {j}]
    /\ UNCHANGED <<sc, ctx, used>>

\* Whatever comes of it, the nonce is not for another signature.
SignSession(i, k, m) ==
    /\ ses[i][k].made /\ ses[i][k].local # 0 /\ ses[i][k].pubNonces = Parties
    /\ LET sig == SignWith(AggregateKeys(ctx[i].keySet), ctx[i].keySet, sc.keys[i],
                           SecNonce(i, k), CombinedNonce(k), m)
           s == [ses[i][k] EXCEPT !.local = 0]
       IN  IF sig = NoSig
           THEN ses' = [ses EXCEPT ![i][k] = s] /\ UNCHANGED used
           ELSE /\ ses' = [ses EXCEPT ![i][k] =
                       [s EXCEPT !.msg = m, !.ourSig = sig, !.sigs = @ \cup {i}]]
                /\ used' = used \cup {<<i, ses[i][k].local, k, m>>}
    /\ UNCHANGED <<sc, ctx>>

FinalSig(i, k) ==
    LET s == ses[i][k]
        agg == AggregateKeys(ctx[i].keySet)
        R == computeSigningNonce(CombinedNonce(k), agg.key, s.msg).R
        sum == CombineSigs(agg, R, [j \in Parties |-> ses[j][k].ourSig], s.msg)
        valid == schnorrVerify([r |-> R[1], s |-> sum], s.msg, ctx[i].combinedKey[1])
    IN  IF valid THEN "valid" ELSE "invalid"

\* Only the call that completes the signatures combines them.
CombineSig(i, k, j) ==
    /\ ses[i][k].made /\ i # j /\ j \notin ses[i][k].sigs
    /\ ses[j][k].made /\ ses[j][k].ourSig # NoSig
    /\ ses' = [ses EXCEPT ![i][k].sigs = @ \cup {j},
                          ![i][k].final = IF ses[i][k].sigs \cup {j} = Parties
                                          THEN FinalSig(i, k) ELSE @]
    /\ UNCHANGED <<sc, ctx, used>>

MuSigNext ==
    \E i \in Parties :
        \/ NewContext(i)
        \/ \E j \in Parties : RegisterSigner(i, j)
        \/ \E k \in Sessions :
              \/ NewSession(i, k)
              \/ \E m \in Messages : SignSession(i, k, m)
              \/ \E j \in Parties : RegisterPubNonce(i, k, j) \/ CombineSig(i, k, j)

MuSigSpec == MuSigInit /\ [][MuSigNext]_musigVars

-----------------------------------------------------------------------------
\* The parties' nonces cancel each other: the generator was signed with, which
\* is nobody's nonce.
Cancelled(i, k) ==
    LET c == CombinedNonce(k)
    IN  Plus(c[1], Times(BlindHash(c, ctx[i].combinedKey[1], ses[i][k].msg) % N, c[2]))
            = Infinity

\* Parties that hold all the keys hold them in the same order, and the same
\* combined key, in whatever order they were listed or registered; and a
\* partial signature satisfies every other party that signs the same message
\* (keys.go 61-458, sign.go 253-594, context.go 201-348).
PartiesAgree ==
    /\ \A i, j \in Parties :
          ctx[i].made /\ Complete(ctx[i]) /\ ctx[j].made /\ Complete(ctx[j]) =>
              /\ ctx[i].keySet = ctx[j].keySet
              /\ ctx[i].combinedKey = ctx[j].combinedKey
    /\ \A i \in Parties : \A k \in Sessions :
          LET s == ses[i][k] IN
          s.made /\ s.local = 0 =>
              \/ s.ourSig = NoSig /\ 0 \in {SecNonce(i, k)[1], SecNonce(i, k)[2]}
              \/ \A j \in Parties :
                    ctx[j].made /\ Complete(ctx[j]) =>
                        LET agg == AggregateKeys(ctx[j].keySet)
                        IN  verifyPartialSig(agg, ctx[j].keySet, s.ourSig, Key(i),
                                PubNonce(SecNonce(i, k)),
                                computeSigningNonce(CombinedNonce(k), agg.key, s.msg),
                                s.msg)

\* The sum of the partial signatures is a Schnorr signature of the message for
\* the combined key, tweaked or not and whatever the oddness of the keys and
\* of the nonce, unless the parties signed different messages or their nonces
\* cancel (sign.go 679-737, context.go 607-665).
FinalIsValid ==
    \A i \in Parties : \A k \in Sessions :
        ses[i][k].made /\ ses[i][k].final = "invalid" =>
            \/ \E j \in Parties : ses[j][k].msg # ses[i][k].msg
            \/ Cancelled(i, k)

\* A nonce of a party is in one signature only, unless the caller gave it to
\* the sessions of both: not twice in one session, early or not, and neither
\* an early one nor one generated for a session ever comes back (context.go
\* 450-507 and 555-602).
NonceUsedOnce ==
    \A a, b \in used :
        a[1] = b[1] /\ a[2] = b[2] /\ a # b =>
            /\ a[3] # b[3]
            /\ externalNonce(a[1], a[3]) = a[2] /\ externalNonce(b[1], b[3]) = a[2]

=============================================================================
