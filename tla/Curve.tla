------------------------------- MODULE Curve -------------------------------
(***************************************************************************)
(* X25519 and Ed25519 as impl/crypto computes them: the chains of powers   *)
(* in field_25519, montgomery_point, edwards_point, x25519 and eddsa, over *)
(* a small field with the same relations between its constants: P is 5     *)
(* modulo 8, the curve has 8 L points with L prime and its twist 4 times a *)
(* prime, d is not a square.  Field elements are numbers below P: module   *)
(* LimbField has the limbs.  A key or an encoded point is the number that  *)
(* its bytes stand for.                                                    *)
(***************************************************************************)
EXTENDS Integers, Sequences

CONSTANTS
    P, A24,      \* 2^255 - 19 and 121665
    L,           \* order of the base point
    BaseU,       \* 9
    FieldBits,   \* bits of P, 255
    ScalarBits   \* bits of a secret scalar, 256

-----------------------------------------------------------------------------
(* The chains of squarings and products, as what they do to an exponent    *)
(* modulo m.                                                               *)
TwoTo(n, m) ==
    LET f[i \in 0 .. n] == IF i = 0 THEN 1 ELSE LET h == f[i \div 2] IN (h * h * (1 + (i % 2))) % m
    IN  f[n] % m
sq_n(e, n, m) == (e * TwoTo(n, m)) % m
Powers(m) ==
    LET z     == 1 % m
        z2    == 2 % m
        z9    == sq_n(z2, 2, m) + z
        z11   == z9 + z2
        z5    == sq_n(z11, 1, m) + z9
        z10   == sq_n(z5, 5, m) + z5
        z20   == sq_n(z10, 10, m) + z10
        z40   == sq_n(z20, 20, m) + z20
        z50   == sq_n(z40, 10, m) + z10
        z100  == sq_n(z50, 50, m) + z50
        z200  == sq_n(z100, 100, m) + z100
        z250  == sq_n(z200, 50, m) + z50
    IN  [invert |-> (sq_n(z250, 5, m) + z11) % m,
         sqrt   |-> (sq_n(z250, 2, m) + z2) % m,
         i      |-> (sq_n(z250, 3, m) + z + z2) % m]

(* p - 2, (p + 3) / 8 and (p - 1) / 4 for p = 2^255 - 19.  Numbers below   *)
(* 2^256 that agree modulo every m up to 200 are equal.                    *)
ChainsAreRight(m) ==
    LET two(n) == TwoTo(n, m)
    IN  Powers(m) = [invert |-> (two(255) - 21) % m,
                     sqrt   |-> (two(252) - 2) % m,
                     i      |-> (two(253) - 5) % m]

(* x^e by squaring, which the chains stand for.                            *)
Pow(x, e) ==
    LET f[n \in 0 .. e] == IF n = 0 THEN 1
                           ELSE LET h == f[n \div 2]
                                IN  IF n % 2 = 0 THEN (h * h) % P ELSE (((h * h) % P) * x) % P
    IN  f[e]
invert(x) == Pow(x, P - 2)

None == -1

(* A root, or that there is none.                                          *)
sqrt(z) ==
    LET a  == Pow(z, (P + 3) \div 8)
        a2 == (a * a) % P
    IN  IF a2 = z THEN a
        ELSE IF a2 = (P - z) % P THEN (a * Pow(2, (P - 1) \div 4)) % P
        ELSE None

Bit(s, i) == (s \div 2 ^ i) % 2

-----------------------------------------------------------------------------
(* montgomery_point::operator*: <<x, z>> pairs, with swaps delayed until   *)
(* the bit changes.                                                        *)
Step(u, p0, p1) ==
    LET A  == p0[1] + p0[2]
        B  == p0[1] - p0[2]
        AA == (A * A) % P
        BB == (B * B) % P
        E  == AA - BB
        DA == ((p1[1] - p1[2]) * A) % P
        CB == ((p1[1] + p1[2]) * B) % P
        d  == (DA - CB) % P
    IN  << <<(AA * BB) % P, (E * (AA + A24 * E)) % P>>,
           <<((DA + CB) * (DA + CB)) % P, (u * ((d * d) % P)) % P>> >>

(* Faulty variant: no swap after the last bit.                             *)
Ladder_NoLastSwap(u, s) ==
    LET go[i \in 0 .. ScalarBits] ==
          IF i = ScalarBits THEN << <<1, 0>>, <<u, 1>> >>
          ELSE LET q == go[i + 1]
               IN  IF Bit(s, i) # Bit(s, i + 1) THEN Step(u, q[2], q[1]) ELSE Step(u, q[1], q[2])
        q == go[0]
    IN  q[1]

Ladder(u, s) ==
    LET go[i \in 0 .. ScalarBits] ==
          IF i = ScalarBits THEN << <<1, 0>>, <<u, 1>> >>
          ELSE LET q == go[i + 1]
               IN  IF Bit(s, i) # Bit(s, i + 1) THEN Step(u, q[2], q[1]) ELSE Step(u, q[1], q[2])
        q == go[0]
    IN  IF Bit(s, 0) = 1 THEN q[2] ELSE q[1]

to_affine(q) == (q[1] * invert(q[2])) % P

(* field_q::clamp: multiples of 8 with the last bit but one set.           *)
clamp(k) == 8 * ((k % 2 ^ (ScalarBits - 2)) \div 8) + 2 ^ (ScalarBits - 2)

(* field_25519::from_bytes ignores the top bit and accepts what is above P.*)
FromBytes(b) == (b % 2 ^ FieldBits) % P

derive_x25519(k) == to_affine(Ladder(BaseU, clamp(k)))
exchange(k, pk) ==
    LET r == to_affine(Ladder(FromBytes(pk), clamp(k))) IN IF r = 0 THEN None ELSE r

(* The reference: chords and tangents on B y^2 = x^3 + A x^2 + x, where B  *)
(* is chosen so that <<u, 1>> is on it; <<>> is the point at infinity.     *)
CurveA == (4 * A24 + 2) % P
ChordAdd(B, q, r) ==
    IF q = <<>> THEN r ELSE IF r = <<>> THEN q
    ELSE IF q[1] = r[1] /\ (q[2] + r[2]) % P = 0 THEN <<>>
    ELSE LET m == IF q = r
                  THEN ((3 * q[1] * q[1] + 2 * CurveA * q[1] + 1) * invert((2 * B * q[2]) % P)) % P
                  ELSE ((r[2] - q[2]) * invert((r[1] - q[1]) % P)) % P
             x == (B * m * m - CurveA - q[1] - r[1]) % P
         IN  <<x, (m * (q[1] - x) - q[2]) % P>>
XOf(u, s) ==
    LET B == (u * u * u + CurveA * u * u + u) % P
        f[n \in 0 .. s] == IF n = 0 THEN <<>>
                           ELSE IF n % 2 = 1 THEN ChordAdd(B, f[n - 1], <<u, 1>>)
                           ELSE LET h == f[n \div 2] IN ChordAdd(B, h, h)
    IN  IF B = 0 THEN (IF s % 2 = 0 THEN 0 ELSE u)
        ELSE IF f[s] = <<>> THEN 0 ELSE f[s][1]

LadderIsRight(u, s) == to_affine(Ladder(u, s)) = XOf(u, s)

(* Two sides get the same secret, and one that answers with a point of     *)
(* small order, on the curve or its twist, is refused.                     *)
ExchangeIsRight(a, b, pk) ==
    /\ exchange(a, derive_x25519(b)) = exchange(b, derive_x25519(a))
    /\ XOf(FromBytes(pk), 8) = 0 => exchange(a, pk) = None
    /\ exchange(a, pk) = None <=> XOf(FromBytes(pk), clamp(a)) = 0

-----------------------------------------------------------------------------
(* edwards_point: extended coordinates <<X, Y, Z, T>>.                     *)
d == (-A24 * invert((A24 + 1) % P)) % P
Identity == <<0, 1, 1, 0>>
NoPoint  == <<>>

PointAdd(q, r) ==
    LET A == ((q[2] - q[1]) * (r[2] - r[1])) % P
        B == ((q[2] + q[1]) * (r[2] + r[1])) % P
        C == (((q[4] * 2 * d) % P) * r[4]) % P
        D == (q[3] * 2 * r[3]) % P
        E == B - A  F == D - C  G == D + C  H == B + A
    IN  <<(E * F) % P, (G * H) % P, (F * G) % P, (E * H) % P>>
dbl(q) ==
    LET A == (q[1] * q[1]) % P
        B == (q[2] * q[2]) % P
        C == (2 * q[3] * q[3]) % P
        H == A + B
        E == H - (((q[1] + q[2]) * (q[1] + q[2])) % P)
        G == A - B
        F == C + G
    IN  <<(E * F) % P, (G * H) % P, (F * G) % P, (E * H) % P>>

(* operator*: doubling from the top bit down.                              *)
PointMult(q, s) ==
    LET go[i \in 0 .. ScalarBits] ==
          IF i = ScalarBits THEN Identity
          ELSE LET r == dbl(go[i + 1]) IN IF Bit(s, i) = 1 THEN PointAdd(r, q) ELSE r
    IN  go[0]
SamePoint(q, r) ==
    (q[1] * r[3] - r[1] * q[3]) % P = 0 /\ (q[2] * r[3] - r[2] * q[3]) % P = 0

(* The sign of x is the bit above y.                                       *)
to_bytes(q) ==
    LET zi == invert(q[3]) IN ((q[2] * zi) % P) + 2 ^ FieldBits * (((q[1] * zi) % P) % 2)
from_bytes(b) ==
    LET y  == b % 2 ^ FieldBits
        s  == Bit(b, FieldBits)
        x2 == ((y * y - 1) * invert((d * y * y + 1) % P)) % P
        x  == sqrt(x2)
    IN  IF y >= P \/ x = None \/ (x = 0 /\ s = 1) THEN NoPoint
        ELSE LET xs == IF x % 2 = s THEN x ELSE P - x
             IN  <<xs, y, 1, (xs * y) % P>>
base_point ==
    LET y == ((BaseU - 1) * invert(BaseU + 1)) % P IN from_bytes(y)

-----------------------------------------------------------------------------
(* eddsa.  The three hashes are numbers that the caller chooses: the       *)
(* secret scalar k, the nonce n and the challenge h, each reduced modulo L *)
(* where the code does (field_q::reduce_512).                              *)
derive_ed25519(k) == to_bytes(PointMult(base_point, clamp(k)))
sign(k, n, h) ==
    [R |-> to_bytes(PointMult(base_point, n % L)),
     S |-> ((n % L) + (h % L) * (clamp(k) % L)) % L]

(* Faulty variant: an S that is not reduced is accepted.                   *)
verify_AnyS(pub, h, sig) ==
    LET A == from_bytes(pub)
        R == from_bytes(sig.R)
    IN  /\ A # NoPoint /\ R # NoPoint
        /\ SamePoint(dbl(dbl(dbl(PointMult(base_point, sig.S % L)))),
                     dbl(dbl(dbl(PointAdd(R, PointMult(A, h % L))))))

verify(pub, h, sig) ==
    LET A == from_bytes(pub)
        R == from_bytes(sig.R)
    IN  /\ A # NoPoint /\ R # NoPoint
        /\ sig.S % L = sig.S
        /\ SamePoint(dbl(dbl(dbl(PointMult(base_point, sig.S % L)))),
                     dbl(dbl(dbl(PointAdd(R, PointMult(A, h % L))))))

(* The encodings that are accepted are those of the points of the curve    *)
(* -x^2 + y^2 = 1 + d x^2 y^2, each has one, and a point gets it back      *)
(* whatever its projective form.                                           *)
EncodingIsRight(b) ==
    LET y  == b % 2 ^ FieldBits
        xs == {x \in 0 .. P - 1 : /\ (y * y - x * x - 1 - d * x * x * y * y) % P = 0
                                  /\ x % 2 = Bit(b, FieldBits)}
        q  == from_bytes(b)
    IN  IF y >= P \/ xs = {} THEN q = NoPoint
        ELSE /\ q[1] \in xs /\ q[2] = y
             /\ to_bytes(q) = b
             /\ to_bytes(PointAdd(dbl(q), q)) = to_bytes(PointMult(q, 3))
             /\ SamePoint(PointMult(q, 8 * L), Identity)

(* With the key of the signer and the hash of the signed message exactly   *)
(* one S is accepted.                                                      *)
SignatureIsRight(k, n, h, S) ==
    LET sig == sign(k, n, h)
    IN  verify(derive_ed25519(k), h, [sig EXCEPT !.S = S]) <=> S = sig.S
=============================================================================
