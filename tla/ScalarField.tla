---------------------------- MODULE ScalarField ----------------------------
(***************************************************************************)
(* Arithmetic modulo L in field_q: four limbs of W bits (52 in the code)   *)
(* and a top limb of T + 1 bits (45), where L is a little above 2^(4W + T) *)
(* and a scalar of 4W + T + 4 bits (256) is loaded without reduction.      *)
(***************************************************************************)
EXTENDS Integers, Sequences

CONSTANTS
    W, T,
    p       \* the limbs of L

Base  == 2 ^ W
Bases == <<Base, Base, Base, Base, 2 ^ (T + 1)>>
characteristic_bits == 4 * W + T + 1
zero == <<0, 0, 0, 0, 0>>
one  == <<1, 0, 0, 0, 0>>

(* The number that limbs stand for.                                        *)
Number(a) == a[1] + Base * (a[2] + Base * (a[3] + Base * (a[4] + Base * a[5])))
L == Number(p)

-----------------------------------------------------------------------------
normalize_low(a) ==
    LET b == a[2] + (a[1] \div Base)
        c == a[3] + (b \div Base)
        e == a[4] + (c \div Base)
    IN  <<a[1] % Base, b % Base, c % Base, e % Base, a[5] + (e \div Base)>>

(* The difference limb by limb, and whether it borrows at the end.         *)
Subtract(a, b) ==
    LET go[i \in 0 .. 5] ==
          IF i = 0 THEN <<<<>>, 0>>
          ELSE LET low == go[i - 1]
                   x   == a[i] - b[i] - low[2]
               IN  IF x < 0 THEN <<Append(low[1], x + Bases[i]), 1>>
                            ELSE <<Append(low[1], x), 0>>
    IN  [diff |-> go[5][1], borrow |-> go[5][2] = 1]

Masked(a) == <<a[1] % Bases[1], a[2] % Bases[2], a[3] % Bases[3], a[4] % Bases[4], a[5] % Bases[5]>>

(* L is taken off n times, unless that borrows.                            *)
TakeOff(a, n) ==
    LET go[i \in 0 .. n, b \in Seq(Nat)] ==
          LET x == normalize_low(b)
              s == Subtract(x, p)
          IN  IF i = 0 THEN Masked(x) ELSE go[i - 1, IF s.borrow THEN x ELSE s.diff]
    IN  go[n, normalize_low(a)]

(* Faulty variant: L is taken off once too few.                            *)
reduce_inplace_OneLess(a) == TakeOff(a, 15)

reduce_inplace(a) == TakeOff(a, 16)

Plus(a, b) == reduce_inplace(<<a[1] + b[1], a[2] + b[2], a[3] + b[3], a[4] + b[4], a[5] + b[5]>>)
Minus(a, b) == reduce_inplace(Plus(a, Subtract(p, reduce_inplace(b)).diff))
Neg(a) == Minus(p, a)

get_bit_i(a, i) ==
    LET k == IF i < 4 * W THEN i \div W ELSE 4
    IN  (a[k + 1] \div 2 ^ (i - k * W)) % 2

(* Double and add, from the top bit of the second factor down.             *)
Times(a, b) ==
    LET go[i \in 0 .. characteristic_bits, acc \in Seq(Nat)] ==
          LET r == Plus(acc, acc)
          IN  IF i = 0 THEN acc
              ELSE go[i - 1, IF get_bit_i(b, i - 1) = 1 THEN Plus(r, a) ELSE r]
    IN  go[characteristic_bits, zero]

(* Multiples of 8 with the last bit but one set.                           *)
clamp(a) ==
    <<a[1] - (a[1] % 8), a[2], a[3], a[4], (a[5] % 2 ^ (T + 2)) + 2 ^ (T + 2)>>

from_bytes(n) ==
    <<n % Base, (n \div Base) % Base, (n \div Base ^ 2) % Base, (n \div Base ^ 3) % Base,
      (n \div Base ^ 4) % 2 ^ (T + 4)>>
to_bytes(a) == Number(reduce_inplace(a))

(* The bits of a hash, the top bit first: a sequence of numbers below      *)
(* 2^part stands for them.                                                 *)
reduce_512(parts, part) ==
    LET bit(i) == (parts[((i - 1) \div part) + 1] \div 2 ^ (part - 1 - ((i - 1) % part))) % 2
        last == part * Len(parts)
        go[i \in 0 .. last, acc \in Seq(Nat)] ==
          LET A == Plus(acc, acc)
          IN  IF i = last THEN acc
              ELSE go[i + 1, reduce_inplace(IF bit(i + 1) = 1 THEN Plus(A, one) ELSE A)]
    IN  go[0, zero]
from_bytes_mod_l(n) == reduce_512(<<0, n>>, 4 * W + T + 4)

Equal(a, b) == reduce_inplace(a) = reduce_inplace(b)

-----------------------------------------------------------------------------
(* The operations compute modulo L on numbers as they are loaded from      *)
(* bytes, reduced or not; a sum must be below 17 L, as that of a reduced   *)
(* and a loaded number is.                                                 *)
ScalarsAreRight(x, y) ==
    LET a == from_bytes(x)  b == from_bytes(y)  q == x % L  r == y % L
    IN  /\ Number(a) = x
        /\ to_bytes(a) = q
        /\ x + y < 17 * L => Number(Plus(a, b)) = (q + r) % L
        /\ Number(Minus(a, b)) = (q + L - r) % L
        /\ Number(Neg(b)) = (L - r) % L
        /\ Equal(a, b) <=> q = r
        /\ Number(from_bytes_mod_l(y)) = r
        /\ get_bit_i(a, 4 * W + T + 3) = x \div 2 ^ (4 * W + T + 3)

(* Products, of reduced factors, and the hash of two halves.               *)
ProductsAreRight(x, y) ==
    LET a == reduce_inplace(from_bytes(x))  b == reduce_inplace(from_bytes(y))
        half == 4 * W + T + 4
        times(m, n) ==  \* m n modulo L in steps that stay small
            LET f[i \in 0 .. half] == IF i = half THEN 0
                  ELSE (2 * f[i + 1] + ((n \div 2 ^ i) % 2) * m) % L
            IN  f[0]
    IN  /\ Number(Times(a, b)) = times(x % L, y % L)
        /\ Number(reduce_512(<<x, y>>, half)) = (times(x % L, (2 ^ half) % L) + y) % L
        /\ LET c == Number(clamp(from_bytes(x)))
           IN  c % 8 = 0 /\ c \div 2 ^ (half - 2) = 1 /\ (x - c) % 2 ^ (half - 2) \in 0 .. 7
=============================================================================
