----------------------------- MODULE LimbField -----------------------------
(***************************************************************************)
(* Arithmetic modulo P = 2^(5 W) - C in five limbs of W bits, as           *)
(* field_25519 (W = 51, C = 19) and field_1305 (W = 26, C = 5) do it.  A   *)
(* limb is held in a word of the machine, so that it can exceed W bits:    *)
(* sums are not reduced, products nearly.  The columns of a product are    *)
(* words too, __uint128_t in field_25519 and uint64_t in field_1305: all   *)
(* that is added up in a word is taken modulo its size.  Two classes with  *)
(* one structure are one module with two instances; where they differ (the *)
(* last step of reduce_inplace) it has both.                               *)
(***************************************************************************)
EXTENDS Integers, Sequences

CONSTANTS
    W, C,
    WORD,   \* a limb is in 0 .. WORD - 1
    DWORD   \* a column of a product is in 0 .. DWORD - 1

Base  == 2 ^ W
P     == Base ^ 5 - C
Index == 1 .. 5

p == <<Base - C, Base - 1, Base - 1, Base - 1, Base - 1>>
Small(n) == <<n, 0, 0, 0, 0>>

(* The element that limbs stand for, and products of such: the reference.  *)
Value(a) ==
    LET v[i \in 1 .. 6] == IF i = 6 THEN 0 ELSE (v[i + 1] * Base + a[i]) % P IN v[1]
TimesMod(x, a) ==
    LET v[i \in 1 .. 6] == IF i = 6 THEN 0 ELSE (((v[i + 1] * Base) % P) + x * a[i]) % P IN v[1]
Canonical(a) == (\A i \in Index : a[i] < Base) /\ \E i \in Index : a[i] < p[i]

-----------------------------------------------------------------------------
(* choice(uint64_t): zero is told from the rest without a branch, by the   *)
(* sign bits of diff and of its negative.                                  *)
IsZeroChoice(diff) == ~(diff >= WORD \div 2 \/ (WORD - diff) % WORD >= WORD \div 2)
from_equal(x, y) == IsZeroChoice((x - y) % WORD)
ct_select(a, b, c) == IF c THEN a ELSE b

(* Each digit but the last keeps W bits and passes the rest upwards, in    *)
(* words 0 .. word - 1.                                                    *)
Carry(d, word) ==
    LET go[i \in 0 .. Len(d) - 1] ==
          IF i = 0 THEN <<<<>>, 0>>
          ELSE LET low == go[i - 1]
                   x   == (d[i] + low[2]) % word
               IN  <<Append(low[1], x % Base), x \div Base>>
        all == go[Len(d) - 1]
    IN  Append(all[1], (d[Len(d)] + all[2]) % word)

(* What the top limb has above W bits comes back in, C times.              *)
FoldTop(a, word) ==
    <<(a[1] + C * (a[5] \div Base)) % word, a[2], a[3], a[4], a[5] % Base>>

Normalise(a, word) == Carry(FoldTop(Carry(a, word), word), word)

(* field_25519: the values with two forms are P .. P + C - 1.              *)
reduce_25519(a) ==
    LET n == Normalise(a, WORD)
        hits == {i \in 0 .. C - 1 : \A k \in Index : from_equal(n[k], p[k] + Small(i)[k])}
    IN  ct_select(Small(CHOOSE i \in hits \cup {0} : hits # {} => i \in hits), n, hits # {})

(* field_1305: a + C carries out of the top exactly when a >= P.           *)
reduce_1305(a) ==
    LET n == Normalise(a, WORD)
        c == Carry([n EXCEPT ![1] = @ + C], WORD)
    IN  ct_select([c EXCEPT ![5] = @ % Base], n, c[5] \div Base = 1)

Plus(a, b) == [i \in Index |-> (a[i] + b[i]) % WORD]

(* The limbs of P - b + a, one by one as unsigned words.                   *)
Minus(a, b) ==
    LET x == reduce_25519(b) IN [i \in Index |-> (p[i] - x[i] + a[i]) % WORD]
Borrows(a, b) ==
    LET x == reduce_25519(b) IN \E i \in Index : p[i] + a[i] < x[i]
Neg(a) == Minus(p, a)

(* Faulty variant: the columns are as narrow as the limbs.                 *)
Fold_OneWord(columns) ==
    LET d == Carry([n \in 1 .. 9 |-> columns[n] % WORD], WORD)
    IN  Normalise([i \in Index |-> IF i < 5 THEN (d[i] + C * d[i + 5]) % WORD ELSE d[i]], WORD)

(* The columns of the product, then the carries, and the upper columns     *)
(* come back in, C times.  The last step is the cast to uint64_t.          *)
Fold(columns) ==
    LET d == Carry([n \in 1 .. 9 |-> columns[n] % DWORD], DWORD)
        out == [i \in Index |-> IF i < 5 THEN (d[i] + C * d[i + 5]) % DWORD ELSE d[i]]
        n == Normalise(out, DWORD)
    IN  [i \in Index |-> n[i] % WORD]
Times(a, b) ==
    LET term(i, k) == IF k - i \in Index THEN a[i] * b[k - i] ELSE 0
    IN  Fold([n \in 1 .. 9 |-> LET k == n + 1 IN
                term(1, k) + term(2, k) + term(3, k) + term(4, k) + term(5, k)])
Square(a) ==
    LET term(i, k) == IF k - i = i THEN a[i] * a[i]
                      ELSE IF k - i \in i + 1 .. 5 THEN 2 * a[i] * a[k - i] ELSE 0
    IN  Fold([n \in 1 .. 9 |-> LET k == n + 1 IN
                term(1, k) + term(2, k) + term(3, k) + term(4, k) + term(5, k)])

Equal(a, b) ==
    LET x == reduce_25519(a)  y == reduce_25519(b)
    IN  \A i \in Index : from_equal(x[i], y[i])
IsZero(a) == \A i \in Index : reduce_25519(a)[i] = 0

(* from_bytes and to_bytes regroup bits, least significant first; the      *)
(* first ignores what is above 5 W bits.                                   *)
LimbsOf(bits) ==
    LET v(i) == LET from[j \in 0 .. W] ==
                      IF j = W THEN 0 ELSE bits[(i - 1) * W + j + 1] + 2 * from[j + 1]
                IN  from[0]
    IN  [i \in Index |-> v(i)]
BitsOf(a) == [k \in 1 .. 5 * W |-> (a[((k - 1) \div W) + 1] \div 2 ^ ((k - 1) % W)) % 2]
from_bytes_25519(bits) == reduce_25519(LimbsOf(bits))
from_bytes_1305(bits) == reduce_1305(LimbsOf(bits))
to_bytes_25519(a) == BitsOf(reduce_25519(a))
to_bytes_1305(a) == BitsOf(reduce_1305(a))

-----------------------------------------------------------------------------
(* The operations compute modulo P for canonical a and b, from their       *)
(* results the reductions make the one canonical form, which tells         *)
(* equality; sums and products can be multiplied again.                    *)
Reduces(x, to) ==
    \A r \in {reduce_25519(x), reduce_1305(x)} : Canonical(r) /\ Value(r) = to
RingIsRight(a, b) ==
    \A v \in {Value(a)}, w \in {Value(b)}, sum \in {Plus(a, b)} :
       /\ \A x \in {sum} : Reduces(x, (v + w) % P)
       /\ \A x \in {Times(a, b)} : Reduces(x, TimesMod(v, b))
       /\ \A x \in {Times(sum, sum)} : Reduces(x, TimesMod((v + w) % P, sum))
       /\ Square(a) = Times(a, a)
       /\ Equal(a, b) <=> v = w
       /\ IsZero(sum) <=> (v + w) % P = 0
       /\ to_bytes_25519(from_bytes_25519(BitsOf(a))) = BitsOf(a)
       /\ to_bytes_1305(from_bytes_1305(BitsOf(Plus(p, Small(b[1] % C))))) = BitsOf(Small(b[1] % C))

(* A difference of which no limb borrows is right and can be multiplied    *)
(* with a sum, as the ladder does; -b never borrows.                       *)
DifferenceIsRight(a, b) ==
    \A v \in {(Value(a) + P - Value(b)) % P}, d \in {Minus(a, b)}, sum \in {Plus(a, b)} :
       /\ ~Borrows(a, b) =>
            /\ Value(d) = v /\ Canonical(reduce_25519(d))
            /\ Value(Times(d, sum)) = TimesMod(v, sum)
       /\ ~Borrows(p, b) /\ Value(Neg(b)) = (P - Value(b)) % P
=============================================================================
