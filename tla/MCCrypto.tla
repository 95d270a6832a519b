------------------------------- MODULE MCCrypto -------------------------------
(* The curve of 31 points y^2 = x^3 + 7 over the field of 43 elements, and   *)
(* on it, each on its own, sums and multiples of points, single signatures   *)
(* and signatures of two or three parties: part says which.                  *)
(*                                                                           *)
(* The stand-ins for the tagged hashes may be of the order or more.  The     *)
(* party of key 17 gets a nonce of zero, and those of keys 5 and 9 get       *)
(* nonces that cancel in their second session.                               *)
EXTENDS CurveArith, MuSig

VARIABLE part

MCOperands == {Times(k, G) : k \in {0, 1, 2, 7, 24, 30}}

MCChallengeHash(r, x, h) == (7 * r + 5 * x + 3 * h) % 40
MCCoefHash(keys, key) ==
    (FoldLeft(LAMBDA acc, k : 3 * acc + k[1] + 5 * k[2], 1, keys)
        + 7 * key[1] + key[2]) % 40
MCBlindHash(c, x, m) ==
    LET n(p) == IF p = Infinity THEN 0 ELSE p[1] + 2 * p[2]
    IN  (3 * n(c[1]) + 5 * n(c[2]) + x + 11 * m) % 40
MCTapHash(x, root) == (9 * x + 5 * root + 1) % 33

MCNonce(i, key, n) ==
    CASE key = 17 -> <<0, 3>>
      [] i = 2 /\ key = 9 /\ n = 2 -> <<N - 17, N - 23>>
      [] i = 1 /\ key = 5 /\ n = 2 -> <<17, 23>>
      [] OTHER -> <<(7 * i + 5 * n) % N, (11 * i + 3 * n * n + 4) % N>>

T(t, xOnly) == [t |-> t, xOnly |-> xOnly]
Tweak(kind, tweaks) == [kind |-> kind, tweaks |-> tweaks]
NoTweak == Tweak("plain", <<>>)
SomeTweaks ==
    {NoTweak, Tweak("plain", <<T(6, TRUE), T(13, FALSE)>>),
     Tweak("plain", <<T(8, FALSE), T(3, TRUE)>>), Tweak("plain", <<T(33, FALSE)>>),
     Tweak("taproot", <<T(2, TRUE)>>), Tweak("bip86", <<>>)}
Ways ==
    {[sort |-> TRUE, known |-> TRUE, early |-> FALSE],
     [sort |-> FALSE, known |-> TRUE, early |-> FALSE],
     [sort |-> TRUE, known |-> FALSE, early |-> TRUE]}
Given(given) == [sessions |-> Len(given[1]), given |-> given]
MCScenarios ==
    {[keys |-> k] @@ Given(<<<<0>>, <<0>>>>) @@ w @@ t :
        k \in {<<1, 2>>, <<5, 9>>, <<9, 30>>, <<4, 4>>, <<17, 3>>},
        w \in Ways, t \in SomeTweaks}
    \cup {[keys |-> <<5, 9>>] @@ Given(g) @@ w @@ NoTweak :
            g \in {<<<<0, 0>>, <<0, 0>>>>, <<<<1, 1>>, <<0, 2>>>>}, w \in Ways}
    \cup {[keys |-> <<3, 8, 3>>] @@ Given(<<<<0>>, <<0>>, <<0>>>>) @@ w @@ NoTweak : w \in Ways}

IdleCurve == result = Jacobian(Infinity, 1) /\ exact = Infinity
IdleSig ==
    /\ scheme = "none" /\ d = 0 /\ hash = 0 /\ drawn = 0 /\ nonces = <<>>
    /\ iteration = 0
    /\ made = NotMade /\ wire = NotSent
IdleMuSig ==
    sc = [keys |-> <<>>, sessions |-> 0, given |-> <<>>] /\ ctx = <<>> /\ ses = <<>> /\ used = {}

Init ==
    \/ part = "curve" /\ CurveInit /\ IdleSig /\ IdleMuSig
    \/ part = "signature" /\ SigInit /\ IdleCurve /\ IdleMuSig
    \/ part = "musig" /\ MuSigInit /\ IdleCurve /\ IdleSig

Next ==
    /\ \/ part = "curve" /\ CurveNext /\ UNCHANGED <<sigVars, musigVars>>
       \/ part = "signature" /\ SigNext /\ UNCHANGED <<curveVars, musigVars>>
       \/ part = "musig" /\ MuSigNext /\ UNCHANGED <<curveVars, sigVars>>
    /\ UNCHANGED part

Spec == Init /\ [][Next]_<<part, curveVars, sigVars, musigVars>>
=============================================================================
