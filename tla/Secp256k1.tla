----------------------------- MODULE Secp256k1 -----------------------------
(***************************************************************************)
(* Signing and recovery (src/priceright/secp256k1.py) over any curve        *)
(* y^2 = x^3 + B of prime order N whose prime P is 3 modulo 4; the code's   *)
(* has B = 7 and N < P.  The digest is a number that may exceed N.  The     *)
(* nonce of RFC 6979 is any number in range, and an address stands for the  *)
(* public key it is the hash of.                                            *)
(***************************************************************************)
EXTENDS Integers, Sequences

CONSTANTS
    P, B, N, G,         \* the curve and its generator
    Key, Digest,        \* the private keys that sign, and what they sign
    Sent                \* signatures from elsewhere: [v, r, s, digest]

Bits == CHOOSE i \in 1..N : 2^i > N /\ 2^(i - 1) <= N
Infinity == <<>>
Point == {q \in (0..(P - 1)) \X (0..(P - 1)) : (q[2] * q[2]) % P = (q[1] * q[1] * q[1] + B) % P}
Element == Point \cup {Infinity}

CurveAssumption ==
    /\ P % 4 = 3 /\ G \in Point /\ Key \subseteq 1..(N - 1) /\ Digest \subseteq Nat
    /\ \A d \in 2..(N - 1) : N % d # 0

VARIABLES
    at,         \* "idle", "trying", "signed", "raised" or "received"
    key, nonce, \* while it signs
    sig         \* [v, r, s, digest]

vars == <<at, key, nonce, sig>>

-----------------------------------------------------------------------------
(* The curve. *)

Inv(x, m) == CHOOSE y \in 1..(m - 1) : (x * y) % m = 1

Add[p \in Element, q \in Element] ==
    LET slope == IF p = q THEN (3 * p[1] * p[1] * Inv((2 * p[2]) % P, P)) % P
                 ELSE ((q[2] - p[2]) * Inv((q[1] - p[1]) % P, P)) % P
        x3 == (slope * slope - p[1] - q[1]) % P
    IN  IF p = Infinity THEN q
        ELSE IF q = Infinity THEN p
        ELSE IF p[1] = q[1] /\ (p[2] + q[2]) % P = 0 THEN Infinity
        ELSE <<x3, (slope * (p[1] - x3) - p[2]) % P>>

Double[p \in Element] == Add[p, p]

\* Double and add, from the lowest bit.
Mul[k \in 0..(N - 1), p \in Element] ==
    LET doubled[i \in 0..Bits] == IF i = 0 THEN p ELSE Double[doubled[i - 1]]
        sum[i \in 0..Bits] ==
            IF i = 0 THEN Infinity
            ELSE IF (k \div 2^(i - 1)) % 2 = 1 THEN Add[sum[i - 1], doubled[i - 1]] ELSE sum[i - 1]
    IN  sum[Bits]

Pow(x, e) == LET pow[i \in 0..e] == IF i = 0 THEN 1 ELSE (x * pow[i - 1]) % P IN pow[e]

\* The point with abscissa x and a y of this parity, if there is one.
Decompress(x, odd) ==
    LET alpha == (x * x * x + B) % P
        beta == Pow(alpha, (P + 1) \div 4)
    IN  IF x >= P \/ (beta * beta) % P # alpha THEN Infinity
        ELSE <<x, IF (beta % 2 = 1) = odd THEN beta ELSE P - beta>>

PublicKey(priv) == Mul[priv, G]

-----------------------------------------------------------------------------
(* Signing. *)

R(k) == Mul[k, G][1] % N
S(k) == (Inv(k, N) * (sig.digest + R(k) * key)) % N

\* The parity of y; a large x turns it over.
Recovery(k) == (Mul[k, G][2] + (IF Mul[k, G][1] >= N THEN 1 ELSE 0)) % 2

\* Keeps the recovery id when it takes the other s.
SignatureUnturned(k) ==
    IF S(k) > N \div 2 THEN [sig EXCEPT !.v = 27 + Recovery(k), !.r = R(k), !.s = N - S(k)]
    ELSE [sig EXCEPT !.v = 27 + Recovery(k), !.r = R(k), !.s = S(k)]

\* Only the lower s is canonical; the other one belongs to the other parity.
Signature(k) ==
    IF S(k) > N \div 2 THEN [sig EXCEPT !.v = 28 - Recovery(k), !.r = R(k), !.s = N - S(k)]
    ELSE [sig EXCEPT !.v = 27 + Recovery(k), !.r = R(k), !.s = S(k)]

Sign(priv, digest, k) ==
    /\ at = "idle"
    /\ at' = "trying" /\ key' = priv /\ nonce' = k
    /\ sig' = [v |-> 0, r |-> 0, s |-> 0, digest |-> digest]

NextNonce == (nonce + 1) % N

\* One turn of the loop; a nonce that has become 0 has no point, and the assertion fails.
Try ==
    /\ at = "trying"
    /\ \/ nonce = 0 /\ at' = "raised" /\ UNCHANGED <<nonce, sig>>
       \/ /\ nonce # 0 /\ R(nonce) # 0 /\ S(nonce) # 0
          /\ at' = "signed" /\ sig' = Signature(nonce)
          /\ UNCHANGED nonce
       \/ /\ nonce # 0 /\ (R(nonce) = 0 \/ S(nonce) = 0)
          /\ nonce' = NextNonce
          /\ UNCHANGED <<at, sig>>
    /\ UNCHANGED key

Receive(given) == at = "idle" /\ at' = "received" /\ sig' = given /\ UNCHANGED <<key, nonce>>

-----------------------------------------------------------------------------
(* Recovery. *)

Acceptable(g) == g.v \in {27, 28} /\ g.r \in 1..(N - 1) /\ g.s \in 1..(N \div 2)

\* None is the point at infinity here too.
Recover(g) ==
    LET point == Decompress(g.r, g.v = 28)
    IN  IF ~Acceptable(g) \/ point = Infinity THEN Infinity
        ELSE Add[Mul[(g.s * Inv(g.r, N)) % N, point], Mul[((N - g.digest) * Inv(g.r, N)) % N, G]]

-----------------------------------------------------------------------------
Init == at = "idle" /\ key = 0 /\ nonce = 0 /\ sig = [v |-> 0, r |-> 0, s |-> 0, digest |-> 0]

Next ==
    \/ \E priv \in Key, digest \in Digest, k \in 1..(N - 1) : Sign(priv, digest, k)
    \/ Try
    \/ \E given \in Sent : Receive(given)

\* The loop runs on.
Spec == Init /\ [][Next]_vars /\ WF_vars(Try)

-----------------------------------------------------------------------------
TypeOK ==
    /\ at \in {"idle", "trying", "signed", "raised", "received"}
    /\ key \in Key \cup {0} /\ nonce \in 0..(N - 1)
    /\ at = "signed" => sig.v \in {27, 28} /\ sig.r \in 1..(N - 1) /\ sig.s \in 1..(N \div 2)

\* The nonce's point has an abscissa that r can tell.
Telling == Mul[nonce, G][1] < N

\* A signature gives its signer's key back, whatever the digest, the nonce and the turns
\* of the loop were, as long as r tells the abscissa (secp256k1.py:110-153).
SignerRecovered == at = "signed" /\ Telling => Recover(sig) = PublicKey(key)

\* Of the forms that stand for one signature the canonical one alone gives the signer
\* back: not the other s, not the other parity, not both (secp256k1.py:126, 142).
OneFormOnly ==
    at = "signed" =>
        \A v \in {27, 28}, s \in {sig.s, N - sig.s} :
            Recover([sig EXCEPT !.v = v, !.s = s]) = PublicKey(key) => v = sig.v /\ s = sig.s

\* ECDSA's verification, with multiples added up one by one.
Multiple[k \in 0..(N - 1), p \in Element] == IF k = 0 THEN Infinity ELSE Add[Multiple[k - 1, p], p]
Verifies(q, g) ==
    LET w == Inv(g.s, N)
        sum == Add[Multiple[(g.digest * w) % N, G], Multiple[(g.r * w) % N, q]]
    IN  sum # Infinity /\ sum[1] % N = g.r

\* Whatever signature comes in, the key that is recovered is one it verifies under
\* (secp256k1.py:132-153).
RecoveredKeyVerifies ==
    at \in {"signed", "received"} /\ Recover(sig) # Infinity => Verifies(Recover(sig), sig)
=============================================================================
