-------------------------- MODULE PrimitivesProofs --------------------------
(***************************************************************************)
(* Proofs about the hashes, the frames and the boxes of Primitives, for    *)
(* every size of a block, of a word, of a byte and of every field, and for *)
(* all messages and all ways to cut them.                                  *)
(***************************************************************************)
EXTENDS Primitives, SequenceFacts

(* Multiples of b grow with their factor.                                  *)
LEMMA Multiples ==
    ASSUME NEW b \in Nat, NEW n \in Int, NEW k \in Int
    PROVE  /\ k * b \in Int /\ (k + 1) * b = k * b + b
           /\ k \in Nat => k * b \in Nat
           /\ k <= n => k * b <= n * b
           /\ k < n => k * b + b <= n * b
<1>1. k * b \in Int /\ (k + 1) * b = k * b + b /\ (k \in Nat => k * b \in Nat)
  OBVIOUS
<1>2. ASSUME NEW j \in Int, NEW l \in Int, j <= l PROVE j * b <= l * b
  <2>1. PICK d \in Nat : l = j + d
    <3>1. l - j \in Nat /\ l = j + (l - j)
      BY <1>2
    <3> QED
      BY <3>1
  <2>2. l * b = j * b + d * b /\ d * b \in Nat /\ j * b \in Int
    BY <2>1
  <2> QED
    BY <2>2
<1>3. k < n => (k + 1) * b <= n * b
  BY <1>2
<1> QED
  BY <1>1, <1>2, <1>3

(* Quotient and remainder are unique.                                      *)
LEMMA DivMod ==
    ASSUME NEW b \in Nat \ {0}, NEW q \in Int, NEW r \in 0 .. b - 1, NEW a, a = q * b + r
    PROVE  a % b = r /\ a \div b = q
<1>1. a \in Int /\ a % b \in 0 .. b - 1 /\ a \div b \in Int /\ a = b * (a \div b) + (a % b)
  OBVIOUS
<1> DEFINE p == a \div b
           s == a % b
<1>2. p \in Int /\ s \in 0 .. b - 1 /\ p * b + s = q * b + r
  BY <1>1
<1> HIDE DEF p, s
<1>3. ~(p < q)
  <2> SUFFICES ASSUME p < q PROVE FALSE
    OBVIOUS
  <2>1. p * b + b <= q * b /\ p * b \in Int /\ q * b \in Int
    BY <1>2, Multiples
  <2> QED
    BY <1>2, <2>1
<1>4. ~(q < p)
  <2> SUFFICES ASSUME q < p PROVE FALSE
    OBVIOUS
  <2>1. q * b + b <= p * b /\ p * b \in Int /\ q * b \in Int
    BY <1>2, Multiples
  <2> QED
    BY <1>2, <2>1
<1>5. p = q
  BY <1>2, <1>3, <1>4
<1>6. s = r
  BY <1>2, <1>5
<1> QED
  BY <1>5, <1>6 DEF p, s

(* The remainder of a number below 2 * b.                                  *)
LEMMA SmallMod ==
    ASSUME NEW b \in Nat \ {0}
    PROVE  /\ \A a \in 0 .. b - 1 : a % b = a
           /\ \A a \in b .. 2 * b - 1 : a % b = a - b
<1>1. ASSUME NEW a \in 0 .. b - 1 PROVE a % b = a
  <2>1. 0 \in Nat /\ a = 0 * b + a
    OBVIOUS
  <2> QED
    BY <2>1, DivMod
<1>2. ASSUME NEW a \in b .. 2 * b - 1 PROVE a % b = a - b
  <2> DEFINE r == a - b
  <2>1. r \in 0 .. b - 1 /\ 1 \in Nat /\ a = 1 * b + r
    OBVIOUS
  <2> HIDE DEF r
  <2>2. a % b = r
    BY <2>1, DivMod
  <2> QED
    BY <2>2 DEF r
<1> QED
  BY <1>1, <1>2

(* What a concatenation holds, by halves.                                  *)
LEMMA Concat ==
    ASSUME NEW S, NEW s \in Seq(S), NEW t \in Seq(S),
           NEW l, NEW m, l = Len(s), m = Len(t)
    PROVE  /\ l \in Nat /\ m \in Nat
           /\ s \o t \in Seq(S) /\ Len(s \o t) = l + m
           /\ \A i \in 1 .. l : (s \o t)[i] = s[i]
           /\ \A i \in 1 .. m : (s \o t)[l + i] = t[i]
           /\ \A i \in l + 1 .. l + m : (s \o t)[i] = t[i - l]
  OBVIOUS

(* The n elements of a sequence after the first x.                         *)
LEMMA Slice ==
    ASSUME NEW S, NEW s \in Seq(S), NEW x \in Nat, NEW n \in Nat, x + n <= Len(s)
    PROVE  LET q == SubSeq(s, x + 1, x + n)
           IN  /\ q \in Seq(S) /\ Len(q) = n /\ q \in [1 .. n -> S]
               /\ \A i \in 1 .. n : q[i] = s[x + i]
<1> DEFINE q == SubSeq(s, x + 1, x + n)
<1>1. Len(s) \in Nat /\ x + 1 \in Nat /\ x + n \in Nat /\ (x + n) - (x + 1) + 1 = n
  BY LenProperties
<1>2. q \in Seq(S) /\ Len(q) = n
  BY <1>1
<1>3. \A i \in 1 .. n : q[i] = s[x + i]
  <2> SUFFICES ASSUME NEW i \in 1 .. n PROVE q[i] = s[x + i]
    OBVIOUS
  <2>1. x + 1 + i - 1 = x + i
    BY <1>1
  <2> QED
    BY <1>1, <2>1
<1> HIDE DEF q
<1>4. q \in [1 .. n -> S]
  BY <1>2
<1> QED
  BY <1>2, <1>3, <1>4 DEF q

(* Functions of one domain are equal if their values are.                  *)
LEMMA SameValues ==
    ASSUME NEW D, NEW R, NEW f \in [D -> R], NEW g \in [D -> R], \A i \in D : f[i] = g[i]
    PROVE  f = g
  OBVIOUS

-----------------------------------------------------------------------------
(* The objects of a hash.                                                  *)
HashState(alg) ==
    [state : Seq([1 .. alg.block -> Int]), buffer : [1 .. alg.block -> Int],
     buffer_len : Nat, bit_len_low : Nat, bit_len_high : Nat]

(* h has been fed s: n blocks are absorbed, the rest of s is at the start  *)
(* of the buffer, and the bits of the blocks are counted.                  *)
HasFed(alg, h, s, n) ==
    /\ h \in HashState(alg)
    /\ h.buffer_len < alg.block /\ h.bit_len_low < alg.word
    /\ Len(s) = n * alg.block + h.buffer_len
    /\ Len(h.state) = n
    /\ \A k \in 1 .. n, i \in 1 .. alg.block : h.state[k][i] = s[(k - 1) * alg.block + i]
    /\ \A i \in 1 .. h.buffer_len : h.buffer[i] = s[n * alg.block + i]
    /\ h.bit_len_high * alg.word + h.bit_len_low = 8 * (n * alg.block)

(* A new object has been fed nothing.                                      *)
LEMMA NewHasFed ==
    ASSUME NEW alg \in Hash!Algorithm
    PROVE  HasFed(alg, Hash!New(alg), <<>>, 0)
<1>1. alg.block \in Nat \ {0} /\ alg.word \in Nat /\ 8 * alg.block <= alg.word
  BY DEF Hash!Algorithm
<1>2. Hash!New(alg) \in HashState(alg)
  BY <1>1 DEF Hash!New, HashState, Hash!Junk
<1>3. 0 * alg.block = 0 /\ 0 * alg.word = 0
  BY <1>1
<1> QED
  BY <1>1, <1>2, <1>3 DEF HasFed, Hash!New

(* A count of d more in two words: the carry shows in the lower word.      *)
LEMMA Carry ==
    ASSUME NEW w \in Nat \ {0}, NEW low \in 0 .. w - 1, NEW high \in Nat, NEW d \in 0 .. w
    PROVE  LET new == (low + d) % w
           IN  /\ new \in 0 .. w - 1
               /\ (high + (IF low + d < w THEN 0 ELSE 1)) * w + new = high * w + low + d
               /\ d # 0 => (new < d <=> ~(low + d < w))
               /\ d < w => (new < low <=> ~(low + d < w))
<1> DEFINE new == (low + d) % w
<1>1. CASE low + d < w
  <2>2. new = low + d
    BY <1>1, SmallMod
  <2> HIDE DEF new
  <2>3. (high + 0) * w = high * w
    OBVIOUS
  <2>4. /\ new \in 0 .. w - 1
        /\ (high + (IF low + d < w THEN 0 ELSE 1)) * w + new = high * w + low + d
        /\ d # 0 => (new < d <=> ~(low + d < w))
        /\ d < w => (new < low <=> ~(low + d < w))
    BY <1>1, <2>2, <2>3
  <2> QED
    BY <2>4 DEF new
<1>2. CASE ~(low + d < w)
  <2>1. low + d \in w .. 2 * w - 1
    BY <1>2
  <2>2. new = low + d - w
    BY <2>1, SmallMod
  <2> HIDE DEF new
  <2>3. (high + 1) * w = high * w + w
    OBVIOUS
  <2>4. /\ new \in 0 .. w - 1
        /\ (high + (IF low + d < w THEN 0 ELSE 1)) * w + new = high * w + low + d
        /\ d # 0 => (new < d <=> ~(low + d < w))
        /\ d < w => (new < low <=> ~(low + d < w))
    BY <1>2, <2>2, <2>3
  <2> QED
    BY <2>4 DEF new
<1> QED
  BY <1>1, <1>2

(* A byte put into the buffer.                                             *)
LEMMA PutIs ==
    ASSUME NEW alg \in Hash!Algorithm, NEW h \in HashState(alg), NEW b \in Int,
           h.buffer_len < alg.block
    PROVE  LET g == Hash!Put(h, b)
           IN  /\ g \in HashState(alg)
               /\ g.state = h.state /\ g.buffer_len = h.buffer_len + 1
               /\ g.bit_len_low = h.bit_len_low /\ g.bit_len_high = h.bit_len_high
               /\ g.buffer[h.buffer_len + 1] = b
               /\ \A i \in 1 .. h.buffer_len : g.buffer[i] = h.buffer[i]
<1>1. alg.block \in Nat \ {0}
  BY DEF Hash!Algorithm
<1>2. h.buffer_len + 1 \in 1 .. alg.block
  BY <1>1 DEF HashState
<1> DEFINE j == h.buffer_len + 1
           u == [h.buffer EXCEPT ![j] = b]
<1>3. u \in [1 .. alg.block -> Int] /\ u[j] = b /\ \A i \in 1 .. h.buffer_len : u[i] = h.buffer[i]
  BY <1>1, <1>2 DEF HashState
<1>4. Hash!Put(h, b) = [h EXCEPT !.buffer = u, !.buffer_len = j]
  BY DEF HashState, Hash!Put
<1> HIDE DEF u
<1>5. j \in Nat
  BY <1>2
<1> QED
  BY <1>3, <1>4, <1>5 DEF HashState

(* The types of a record are kept when fields are written.                 *)
HashRecord(Q, T) ==
    [state : Q, buffer : T, buffer_len : Nat, bit_len_low : Nat, bit_len_high : Nat]

(* transform keeps them.                                                   *)
LEMMA RecordTransform ==
    ASSUME NEW T, NEW Q, NEW h \in HashRecord(Q, T), NEW a \in Q
    PROVE  [h EXCEPT !.state = a, !.buffer_len = 0] \in HashRecord(Q, T)
  BY DEF HashRecord

(* A full buffer absorbed.                                                 *)
LEMMA TransformIs ==
    ASSUME NEW alg \in Hash!Algorithm, NEW h \in HashState(alg)
    PROVE  LET g == Hash!transform(h)
           IN  /\ g \in HashState(alg)
               /\ g.buffer_len = 0 /\ g.buffer = h.buffer
               /\ g.bit_len_low = h.bit_len_low /\ g.bit_len_high = h.bit_len_high
               /\ Len(g.state) = Len(h.state) + 1
               /\ g.state[Len(h.state) + 1] = h.buffer
               /\ \A k \in 1 .. Len(h.state) : g.state[k] = h.state[k]
<1> DEFINE T == [1 .. alg.block -> Int]
<1>1. h.state \in Seq(T) /\ h.buffer \in T
  BY DEF HashState
<1> DEFINE a == Append(h.state, h.buffer)
<1> HIDE DEF T
<1>2. /\ a \in Seq(T) /\ Len(a) = Len(h.state) + 1 /\ a[Len(h.state) + 1] = h.buffer
      /\ \A k \in 1 .. Len(h.state) : a[k] = h.state[k]
  BY <1>1, AppendProperties
<1> HIDE DEF a
<1>3. Hash!transform(h) = [h EXCEPT !.state = a, !.buffer_len = 0]
  BY DEF Hash!transform, a
<1>4. h.state \in Seq(T) /\ Len(h.state) \in Nat
  BY <1>1, LenProperties
<1> DEFINE g == Hash!transform(h)
<1>5. /\ g.state = a /\ g.buffer = h.buffer /\ g.buffer_len = 0
      /\ g.bit_len_low = h.bit_len_low /\ g.bit_len_high = h.bit_len_high
  BY <1>3 DEF HashState
<1>6. g \in HashState(alg)
  <2>1. HashState(alg) = HashRecord(Seq(T), T)
    BY DEF HashState, HashRecord, T
  <2> DEFINE Q == Seq(T)
  <2>2. h \in HashRecord(Q, T) /\ a \in Q
    BY <1>2, <2>1
  <2> HIDE DEF Q, g
  <2>3. [h EXCEPT !.state = a, !.buffer_len = 0] \in HashRecord(Q, T)
    BY <2>2, RecordTransform
  <2> QED
    BY <1>3, <2>1, <2>3 DEF g, Q
<1> HIDE DEF g
<1> QED
  BY <1>2, <1>5, <1>6 DEF g

(* Positions of the first n blocks are among the first n * b.              *)
LEMMA InBlocks ==
    ASSUME NEW b \in Nat \ {0}, NEW n \in Nat, NEW k \in 1 .. n, NEW i \in 1 .. b
    PROVE  (k - 1) * b + i \in 1 .. n * b
<1>1. k - 1 \in Nat /\ k - 1 < n
  OBVIOUS
<1>2. (k - 1) * b \in Nat /\ n * b \in Nat /\ (k - 1) * b + b <= n * b
  BY <1>1, Multiples
<1> QED
  BY <1>2

(* What feeding a byte does to the fields, by whether it fills the buffer. *)
LEMMA FeedIs ==
    ASSUME NEW alg \in Hash!Algorithm, NEW h \in HashState(alg), NEW b \in Int,
           h.buffer_len < alg.block, h.bit_len_low < alg.word
    PROVE  LET g    == Hash!Put(h, b)
               f    == Hash!Feed(alg, h, b)
           IN  /\ g.buffer_len < alg.block => f = g
               /\ ~(g.buffer_len < alg.block) =>
                    /\ f \in HashState(alg)
                    /\ f.state = Hash!transform(g).state /\ f.buffer_len = 0
                    /\ f.bit_len_low < alg.word
                    /\ f.bit_len_high * alg.word + f.bit_len_low
                         = h.bit_len_high * alg.word + h.bit_len_low + 8 * alg.block
<1> DEFINE g == Hash!Put(h, b)
           f == Hash!Feed(alg, h, b)
           t == Hash!transform(g)
           d == 8 * alg.block
           w == alg.word
           low == (h.bit_len_low + d) % w
           high == IF low < d THEN t.bit_len_high + 1 ELSE t.bit_len_high
<1>1. alg.block \in Nat \ {0} /\ w \in Nat \ {0} /\ d \in 0 .. w /\ d # 0
  BY DEF Hash!Algorithm
<1>2. g.buffer_len < alg.block => f = g
  BY DEF Hash!Feed
<1>3. ASSUME ~(g.buffer_len < alg.block)
      PROVE  /\ f \in HashState(alg)
             /\ f.state = t.state /\ f.buffer_len = 0
             /\ f.bit_len_low < alg.word
             /\ f.bit_len_high * w + f.bit_len_low = h.bit_len_high * w + h.bit_len_low + d
  <2>1. g \in HashState(alg) /\ g.bit_len_high = h.bit_len_high
    BY PutIs
  <2>2. t \in HashState(alg) /\ t.buffer_len = 0 /\ t.bit_len_high = h.bit_len_high
    <3> HIDE DEF g
    <3> QED
      BY <2>1, TransformIs
  <2>3. f = [t EXCEPT !.bit_len_low = low, !.bit_len_high = high]
    BY <1>3 DEF Hash!Feed
  <2>4. h.bit_len_low \in 0 .. w - 1 /\ h.bit_len_high \in Nat
    BY <1>1 DEF HashState
  <2> HIDE DEF f, t, g, d
  <2>5. /\ low \in 0 .. w - 1
        /\ (h.bit_len_high + (IF h.bit_len_low + d < w THEN 0 ELSE 1)) * w + low
             = h.bit_len_high * w + h.bit_len_low + d
        /\ low < d <=> ~(h.bit_len_low + d < w)
    <3> HIDE DEF w
    <3> DEFINE x == h.bit_len_low
               y == h.bit_len_high
    <3>1. x \in 0 .. w - 1 /\ y \in Nat
      BY <2>4
    <3> HIDE DEF x, y
    <3>2. LET new == (x + d) % w
          IN  /\ new \in 0 .. w - 1
              /\ (y + (IF x + d < w THEN 0 ELSE 1)) * w + new = y * w + x + d
              /\ d # 0 => (new < d <=> ~(x + d < w))
      BY <1>1, <3>1, Carry
    <3> QED
      BY <1>1, <3>2 DEF x, y
  <2> HIDE DEF low
  <2>6. high = h.bit_len_high + (IF h.bit_len_low + d < w THEN 0 ELSE 1)
    BY <2>2, <2>4, <2>5
  <2>7. high \in Nat /\ low \in Nat /\ low < w
    BY <1>1, <2>2, <2>4, <2>5
  <2> HIDE DEF high, w
  <2>8. f.state = t.state /\ f.buffer_len = 0 /\ f.bit_len_low = low /\ f.bit_len_high = high
    BY <2>2, <2>3 DEF HashState
  <2>9. f \in HashState(alg)
    BY <2>2, <2>3, <2>7 DEF HashState
  <2>10. high * w + low = h.bit_len_high * w + h.bit_len_low + d
    BY <2>5, <2>6
  <2>11. f.bit_len_low < alg.word
    BY <2>7, <2>8 DEF w
  <2> QED
    BY <2>8, <2>9, <2>10, <2>11
<1> QED
  BY <1>2, <1>3

(* Feeding a byte adds it to what was fed.                                 *)
LEMMA FeedKeeps ==
    ASSUME NEW alg \in Hash!Algorithm, NEW h, NEW s \in Seq(Int), NEW n \in Nat,
           HasFed(alg, h, s, n), NEW b \in Int
    PROVE  \E m \in Nat : HasFed(alg, Hash!Feed(alg, h, b), Append(s, b), m)
<1> DEFINE B == alg.block
           r == h.buffer_len
           g == Hash!Put(h, b)
           f == Hash!Feed(alg, h, b)
           t == Append(s, b)
           N == n * B
<1>1. B \in Nat \ {0} /\ alg.word \in Nat
  BY DEF Hash!Algorithm
<1>2. h \in HashState(alg) /\ r \in Nat /\ r < B /\ h.bit_len_low < alg.word
  BY DEF HasFed, HashState
<1>3. N \in Nat /\ Len(s) = N + r /\ Len(s) \in Nat
  BY <1>1, <1>2 DEF HasFed
<1>4. /\ t \in Seq(Int) /\ Len(t) = N + r + 1 /\ t[N + r + 1] = b
      /\ \A i \in 1 .. N + r : t[i] = s[i]
  BY <1>3, AppendProperties
<1>5. /\ g \in HashState(alg) /\ g.state = h.state /\ g.buffer_len = r + 1
      /\ g.bit_len_low = h.bit_len_low /\ g.bit_len_high = h.bit_len_high
      /\ g.buffer[r + 1] = b
      /\ \A i \in 1 .. r : g.buffer[i] = h.buffer[i]
  BY <1>2, PutIs
<1>6. /\ g.buffer_len < B => f = g
      /\ ~(g.buffer_len < B) =>
           /\ f \in HashState(alg)
           /\ f.state = Hash!transform(g).state /\ f.buffer_len = 0
           /\ f.bit_len_low < alg.word
           /\ f.bit_len_high * alg.word + f.bit_len_low
                = h.bit_len_high * alg.word + h.bit_len_low + 8 * B
  BY <1>2, FeedIs
<1>7. ASSUME NEW k \in 1 .. n, NEW i \in 1 .. B
      PROVE  h.state[k][i] = t[(k - 1) * B + i]
  <2>1. (k - 1) * B + i \in 1 .. N
    BY <1>1, InBlocks
  <2>2. h.state[k][i] = s[(k - 1) * B + i]
    BY DEF HasFed
  <2> DEFINE j == (k - 1) * B + i
  <2> HIDE DEF N, t, B, j, r
  <2>3. j \in 1 .. N + r
    BY <1>2, <1>3, <2>1 DEF j
  <2>4. t[j] = s[j]
    BY <1>4, <2>3
  <2> QED
    BY <2>2, <2>4 DEF j
<1>8. ASSUME NEW i \in 1 .. r + 1
      PROVE  g.buffer[i] = t[N + i]
  <2>1. CASE i = r + 1
    BY <1>2, <1>3, <1>4, <1>5, <2>1
  <2>2. CASE i \in 1 .. r
    <3>1. h.buffer[i] = s[N + i]
      BY <2>2 DEF HasFed
    <3>2. N + i \in 1 .. N + r
      BY <1>2, <1>3, <2>2
    <3> QED
      BY <1>4, <1>5, <2>2, <3>1, <3>2
  <2>3. i = r + 1 \/ i \in 1 .. r
    <3> HIDE DEF r
    <3> QED
      BY <1>2
  <2> QED
    BY <2>1, <2>2, <2>3
<1>9. Len(h.state) = n /\ h.bit_len_high * alg.word + h.bit_len_low = 8 * N
  BY DEF HasFed
<1>10. CASE r + 1 < B
  <2>1. f = g
    BY <1>5, <1>6, <1>10
  <2>2. HasFed(alg, g, t, n)
    <3>1. g.buffer_len < alg.block /\ g.bit_len_low < alg.word
      BY <1>2, <1>5, <1>10
    <3>2. Len(t) = n * alg.block + g.buffer_len
      BY <1>2, <1>3, <1>4, <1>5
    <3>3. g.bit_len_high * alg.word + g.bit_len_low = 8 * (n * alg.block)
      BY <1>5, <1>9
    <3> HIDE DEF g, t
    <3> QED
      BY <1>5, <1>7, <1>8, <1>9, <3>1, <3>2, <3>3 DEF HasFed
  <2> QED
    BY <2>1, <2>2
<1>11. CASE ~(r + 1 < B)
  <2>1. r + 1 = B /\ ~(g.buffer_len < B)
    BY <1>1, <1>2, <1>5, <1>11
  <2> DEFINE v == Hash!transform(g)
  <2>2. /\ Len(v.state) = n + 1 /\ v.state[n + 1] = g.buffer
        /\ \A k \in 1 .. n : v.state[k] = h.state[k]
    <3> HIDE DEF g
    <3>1. /\ Len(v.state) = Len(g.state) + 1 /\ v.state[Len(g.state) + 1] = g.buffer
          /\ \A k \in 1 .. Len(g.state) : v.state[k] = g.state[k]
      BY <1>5, TransformIs
    <3> HIDE DEF v
    <3> QED
      BY <1>5, <1>9, <3>1
  <2>3. /\ f \in HashState(alg) /\ f.state = v.state /\ f.buffer_len = 0
        /\ f.bit_len_low < alg.word
        /\ f.bit_len_high * alg.word + f.bit_len_low = 8 * N + 8 * B
    <3> HIDE DEF f, g, N
    <3> QED
      BY <1>6, <1>9, <2>1
  <2>4. (n + 1) * B = N + B
    <3> HIDE DEF B
    <3> QED
      BY <1>1, Multiples
  <2> HIDE DEF f, g, v, t
  <2>5. Len(t) = (n + 1) * B + f.buffer_len
    <3> HIDE DEF N, r, B
    <3>1. (n + 1) * B \in Nat
      BY <1>1, <1>3, <2>4
    <3> QED
      BY <1>1, <1>2, <1>3, <1>4, <2>1, <2>3, <2>4, <3>1
  <2>6. f.bit_len_high * alg.word + f.bit_len_low = 8 * ((n + 1) * B)
    <3> HIDE DEF N
    <3> QED
      BY <1>1, <1>3, <2>3, <2>4
  <2>7. ASSUME NEW k \in 1 .. n + 1, NEW i \in 1 .. B
        PROVE  f.state[k][i] = t[(k - 1) * B + i]
    <3>1. CASE k \in 1 .. n
      <4>1. h.state[k][i] = t[(k - 1) * B + i]
        BY <1>7, <3>1
      <4>2. f.state[k] = h.state[k]
        BY <2>2, <2>3, <3>1
      <4> QED
        BY <4>1, <4>2
    <3>2. CASE k = n + 1
      <4>1. k - 1 = n
        BY <3>2
      <4>2. g.buffer[i] = t[N + i]
        BY <1>8, <2>1
      <4>3. f.state[k] = g.buffer
        BY <2>2, <2>3, <3>2
      <4> QED
        BY <4>1, <4>2, <4>3
    <3> QED
      BY <3>1, <3>2
  <2>8. HasFed(alg, f, t, n + 1)
    <3>1. Len(f.state) = n + 1 /\ f.buffer_len < alg.block
      BY <1>1, <2>2, <2>3
    <3> HIDE DEF N
    <3> QED
      BY <2>3, <2>5, <2>6, <2>7, <3>1 DEF HasFed
  <2> QED
    BY <2>8 DEF f, t
<1> QED
  BY <1>10, <1>11

(* f is the function go of update, on the first n bytes.                   *)
Feeds(alg, h, data, n, f) ==
    f = [i \in 0 .. n |-> IF i = 0 THEN h ELSE Hash!Feed(alg, f[i - 1], data[i])]

(* The recursion defines a function.                                       *)
LEMMA FeedsExists ==
    ASSUME NEW alg, NEW h, NEW data, NEW n \in Nat
    PROVE  \E f : Feeds(alg, h, data, n, f)
<1> DEFINE S == {k \in Nat : \E f : Feeds(alg, h, data, k, f)}
<1>1. 0 \in S
  <2>1. Feeds(alg, h, data, 0, [i \in 0 .. 0 |-> h])
    BY DEF Feeds
  <2> QED
    BY <2>1
<1>2. ASSUME NEW k \in Nat, k \in S PROVE k + 1 \in S
  <2>1. PICK f : Feeds(alg, h, data, k, f)
    BY <1>2
  <2> DEFINE new == Hash!Feed(alg, f[k], data[k + 1])
             g == [i \in 0 .. k + 1 |-> IF i <= k THEN f[i] ELSE new]
             e == [i \in 0 .. k + 1 |-> IF i = 0 THEN h ELSE Hash!Feed(alg, g[i - 1], data[i])]
  <2>2. \A i \in 0 .. k : f[i] = IF i = 0 THEN h ELSE Hash!Feed(alg, f[i - 1], data[i])
    BY <2>1 DEF Feeds
  <2>3. ASSUME NEW i \in 0 .. k + 1 PROVE g[i] = e[i]
    <3>1. CASE i = 0
      BY <3>1, <2>2
    <3>2. CASE i \in 1 .. k
      <4>1. g[i] = f[i] /\ g[i - 1] = f[i - 1] /\ i \in 0 .. k /\ i # 0
        BY <3>2
      <4>2. f[i] = Hash!Feed(alg, f[i - 1], data[i])
        BY <4>1, <2>2
      <4>3. e[i] = Hash!Feed(alg, g[i - 1], data[i])
        <5> HIDE DEF g
        <5> QED
          BY <4>1
      <4> HIDE DEF g, e
      <4> QED
        BY <4>1, <4>2, <4>3
    <3>3. CASE i = k + 1
      <4>1. g[i] = new /\ g[i - 1] = f[k] /\ i # 0
        BY <3>3
      <4>2. e[i] = Hash!Feed(alg, g[i - 1], data[i])
        <5> HIDE DEF g
        <5> QED
          BY <4>1
      <4> HIDE DEF g, e
      <4> QED
        BY <4>1, <4>2, <3>3
    <3> QED
      BY <3>1, <3>2, <3>3
  <2>4. g = e
    <3> HIDE DEF new
    <3> QED
      BY <2>3
  <2>5. Feeds(alg, h, data, k + 1, g)
    BY <2>4 DEF Feeds
  <2> QED
    BY <2>5
<1>3. Nat \subseteq S
  <2> HIDE DEF S
  <2> QED
    BY <1>1, <1>2, Induct
<1> QED
  BY <1>3

(* update is the value of such a function at the end of the data.          *)
LEMMA UpdateIs ==
    ASSUME NEW alg, NEW h, NEW S, NEW data \in Seq(S)
    PROVE  \E f : Feeds(alg, h, data, Len(data), f) /\ Hash!update(alg, h, data) = f[Len(data)]
<1> DEFINE f == CHOOSE f : Feeds(alg, h, data, Len(data), f)
<1>1. Feeds(alg, h, data, Len(data), f)
  <2> Len(data) \in Nat
    BY LenProperties
  <2> HIDE DEF f
  <2> QED
    BY FeedsExists DEF f
<1>2. Hash!update(alg, h, data) = f[Len(data)]
  BY DEF Hash!update, Feeds
<1> HIDE DEF f
<1> QED
  BY <1>1, <1>2

(* A sequence continued by the next element of another.                    *)
LEMMA NextOf ==
    ASSUME NEW S, NEW s \in Seq(S), NEW data \in Seq(S), NEW k \in Nat, k + 1 <= Len(data)
    PROVE  /\ s \o SubSeq(data, 1, k) \in Seq(S)
           /\ Append(s \o SubSeq(data, 1, k), data[k + 1]) = s \o SubSeq(data, 1, k + 1)
<1> Len(data) \in Nat
  BY LenProperties
<1> DEFINE a == SubSeq(data, 1, k)
           b == SubSeq(data, 1, k + 1)
<1>1. /\ a \in Seq(S) /\ Len(a) = k /\ \A i \in 1 .. k : a[i] = data[i]
      /\ b \in Seq(S) /\ Len(b) = k + 1 /\ \A i \in 1 .. k + 1 : b[i] = data[i]
  OBVIOUS
<1>2. data[k + 1] \in S
  BY ElementOfSeq
<1> HIDE DEF a, b
<1> DEFINE u == Append(s \o a, data[k + 1])
           v == s \o b
           l == Len(s)
<1>3. l \in Nat
  BY LenProperties
<1>4. /\ s \o a \in Seq(S) /\ Len(s \o a) = l + k
      /\ \A i \in 1 .. l + k : (s \o a)[i] = IF i <= l THEN s[i] ELSE a[i - l]
  BY <1>1, ConcatProperties
<1>5. /\ u \in Seq(S) /\ Len(u) = l + k + 1 /\ u[l + k + 1] = data[k + 1]
      /\ \A i \in 1 .. l + k : u[i] = (s \o a)[i]
  <2> DEFINE c == s \o a
  <2> HIDE DEF c
  <2>1. c \in Seq(S) /\ Len(c) = l + k
    BY <1>4 DEF c
  <2>2. /\ Append(c, data[k + 1]) \in Seq(S) /\ Len(Append(c, data[k + 1])) = l + k + 1
        /\ Append(c, data[k + 1])[l + k + 1] = data[k + 1]
        /\ \A i \in 1 .. l + k : Append(c, data[k + 1])[i] = c[i]
    BY <1>2, <1>3, <2>1, AppendProperties
  <2> QED
    BY <2>2 DEF c
<1>6. /\ v \in Seq(S) /\ Len(v) = l + k + 1
      /\ \A i \in 1 .. l : v[i] = s[i]
      /\ \A i \in l + 1 .. l + k + 1 : v[i] = b[i - l]
  <2>1. b \in Seq(S) /\ k + 1 = Len(b)
    BY <1>1
  <2>2. /\ v \in Seq(S) /\ Len(v) = l + (k + 1)
        /\ \A i \in 1 .. l : v[i] = s[i]
        /\ \A i \in l + 1 .. l + (k + 1) : v[i] = b[i - l]
    BY <2>1, Concat
  <2> HIDE DEF v, l
  <2>3. l + (k + 1) = l + k + 1
    BY <1>3
  <2> QED
    BY <2>2, <2>3
<1> HIDE DEF u, v, l
<1>7. ASSUME NEW i \in 1 .. l + k + 1 PROVE u[i] = v[i]
  <2>1. CASE i \in 1 .. l
    <3>1. i \in 1 .. l + k /\ i <= l
      BY <1>3, <2>1
    <3>2. u[i] = (s \o a)[i] /\ (s \o a)[i] = s[i]
      BY <1>4, <1>5, <3>1
    <3> QED
      BY <1>6, <2>1, <3>2
  <2>2. CASE i \in l + 1 .. l + k
    <3>1. /\ i \in 1 .. l + k /\ ~(i <= l) /\ i - l \in 1 .. k /\ i - l \in 1 .. k + 1
          /\ i \in l + 1 .. l + k + 1
      BY <1>3, <2>2
    <3>2. u[i] = a[i - l] /\ v[i] = b[i - l]
      BY <1>4, <1>5, <1>6, <3>1
    <3> QED
      BY <1>1, <3>1, <3>2
  <2>3. CASE i = l + k + 1
    <3>1. i \in l + 1 .. l + k + 1 /\ i - l = k + 1
      BY <1>3, <2>3
    <3>2. v[i] = b[k + 1]
      BY <1>6, <3>1
    <3> QED
      BY <1>1, <1>5, <2>3, <3>2
  <2> QED
    BY <1>3, <2>1, <2>2, <2>3
<1>8. u = v
  BY <1>5, <1>6, <1>7, SeqEqual
<1> QED
  BY <1>4, <1>8 DEF u, v, a, b

(* Feeding in pieces adds the pieces up.                                   *)
LEMMA UpdateKeeps ==
    ASSUME NEW alg \in Hash!Algorithm, NEW h, NEW s \in Seq(Int), NEW n \in Nat,
           HasFed(alg, h, s, n), NEW data \in Seq(Int)
    PROVE  \E m \in Nat : HasFed(alg, Hash!update(alg, h, data), s \o data, m)
<1>1. PICK f : /\ Feeds(alg, h, data, Len(data), f)
               /\ Hash!update(alg, h, data) = f[Len(data)]
  BY UpdateIs
<1>2. Len(data) \in Nat
  BY LenProperties
<1> DEFINE to(k) == s \o SubSeq(data, 1, k)
           S == {k \in Nat : k <= Len(data) => \E m \in Nat : HasFed(alg, f[k], to(k), m)}
<1>3. f[0] = h /\ \A i \in 1 .. Len(data) : f[i] = Hash!Feed(alg, f[i - 1], data[i])
  <2>1. \A i \in 0 .. Len(data) : f[i] = IF i = 0 THEN h ELSE Hash!Feed(alg, f[i - 1], data[i])
    BY <1>1 DEF Feeds
  <2>2. \A i \in 1 .. Len(data) : i \in 0 .. Len(data) /\ i # 0
    BY <1>2
  <2>3. 0 \in 0 .. Len(data)
    BY <1>2
  <2> QED
    BY <2>1, <2>2, <2>3
<1>4. 0 \in S
  <2>1. SubSeq(data, 1, 0) = <<>>
    OBVIOUS
  <2>2. to(0) = s
    BY <2>1
  <2> HIDE DEF to
  <2> QED
    BY <1>3, <2>2
<1>5. ASSUME NEW k \in Nat, k \in S PROVE k + 1 \in S
  <2> SUFFICES ASSUME k + 1 <= Len(data)
               PROVE  \E m \in Nat : HasFed(alg, f[k + 1], to(k + 1), m)
    OBVIOUS
  <2>1. PICK m \in Nat : HasFed(alg, f[k], to(k), m)
    BY <1>2, <1>5
  <2>2. to(k) \in Seq(Int) /\ Append(to(k), data[k + 1]) = to(k + 1)
    BY NextOf
  <2>3. data[k + 1] \in Int /\ f[k + 1] = Hash!Feed(alg, f[k], data[k + 1])
    BY <1>2, <1>3, ElementOfSeq
  <2> DEFINE g == f[k]
             t == to(k)
             b == data[k + 1]
  <2>4. HasFed(alg, g, t, m) /\ t \in Seq(Int) /\ b \in Int
    BY <2>1, <2>2, <2>3
  <2>5. Hash!Feed(alg, g, b) = f[k + 1] /\ Append(t, b) = to(k + 1)
    BY <2>2, <2>3
  <2> HIDE DEF to, g, t, b
  <2>6. \E c \in Nat : HasFed(alg, Hash!Feed(alg, g, b), Append(t, b), c)
    BY <2>4, FeedKeeps
  <2> QED
    BY <2>5, <2>6
<1>6. Len(data) \in S
  <2> HIDE DEF S
  <2> QED
    BY <1>2, <1>4, <1>5, Induct
<1>7. to(Len(data)) = s \o data
  <2>1. SubSeq(data, 1, Len(data)) = data
    BY <1>2
  <2> QED
    BY <2>1
<1>8. \E m \in Nat : HasFed(alg, f[Len(data)], to(Len(data)), m)
  BY <1>2, <1>6
<1> HIDE DEF to
<1> QED
  BY <1>1, <1>7, <1>8

-----------------------------------------------------------------------------
(* g is h with zeros in the buffer up to c bytes.                          *)
IsZeros(alg, h, c, g) ==
    /\ g \in HashState(alg)
    /\ g.state = h.state /\ g.buffer_len = c
    /\ \A i \in 1 .. alg.block :
         g.buffer[i] = IF i \in h.buffer_len + 1 .. c THEN 0 ELSE h.buffer[i]

(* The padding loop of finalize makes it.                                  *)
LEMMA ZerosIs ==
    ASSUME NEW alg \in Hash!Algorithm, NEW h \in HashState(alg), NEW c \in Nat
    PROVE  IsZeros(alg, h, c, Hash!ZerosTo(alg, h, c))
<1> DEFINE T == [1 .. alg.block -> Int]
           u == [i \in 1 .. alg.block |-> IF i \in h.buffer_len + 1 .. c THEN 0 ELSE h.buffer[i]]
<1>1. h.buffer \in T
  BY DEF HashState
<1>2. u \in T
  <2>1. ASSUME NEW i \in 1 .. alg.block
        PROVE  (IF i \in h.buffer_len + 1 .. c THEN 0 ELSE h.buffer[i]) \in Int
    <3>1. h.buffer[i] \in Int
      <4> DEFINE b == h.buffer
      <4> HIDE DEF b
      <4>1. b[i] \in Int
        BY <1>1 DEF b
      <4> QED
        BY <4>1 DEF b
    <3> QED
      BY <3>1
  <2> QED
    BY <2>1
<1>3. Hash!ZerosTo(alg, h, c) = [h EXCEPT !.buffer = u, !.buffer_len = c]
  BY DEF HashState, Hash!ZerosTo
<1>4. \A i \in 1 .. alg.block :
        u[i] = IF i \in h.buffer_len + 1 .. c THEN 0 ELSE h.buffer[i]
  OBVIOUS
<1> HIDE DEF u
<1> DEFINE g == Hash!ZerosTo(alg, h, c)
<1>5. g.state = h.state /\ g.buffer = u /\ g.buffer_len = c
  BY <1>3 DEF HashState
<1>6. g \in HashState(alg)
  BY <1>2, <1>3 DEF HashState
<1> HIDE DEF g
<1>7. IsZeros(alg, h, c, g)
  BY <1>4, <1>5, <1>6 DEF IsZeros
<1> QED
  BY <1>7 DEF g

(* st is what x absorbed and a last block: zeros where x has not been      *)
(* written, and the length.                                                *)
IsLast(alg, x, low, high, st) ==
    LET n == Len(x.state)
    IN  /\ st \in Seq([1 .. alg.block -> Int]) /\ Len(st) = n + 1
        /\ \A k \in 1 .. n : st[k] = x.state[k]
        /\ \A i \in 1 .. alg.block :
             st[n + 1][i] = IF i = alg.block THEN low
                            ELSE IF i > alg.lenat THEN high
                            ELSE IF i \in x.buffer_len + 1 .. alg.lenat THEN 0
                            ELSE x.buffer[i]

(* The last block of finalize is that.                                     *)
LEMMA LastIs ==
    ASSUME NEW alg \in Hash!Algorithm, NEW x \in HashState(alg), NEW low \in Int, NEW high \in Int
    PROVE  LET room == Hash!ZerosTo(alg, x, alg.lenat)
               last == [room EXCEPT !.buffer = [i \in 1 .. alg.block |->
                          IF i = alg.block THEN low
                          ELSE IF i > alg.lenat THEN high ELSE room.buffer[i]]]
           IN  IsLast(alg, x, low, high, Hash!transform(last).state)
<1> DEFINE room == Hash!ZerosTo(alg, x, alg.lenat)
           u == [i \in 1 .. alg.block |->
                   IF i = alg.block THEN low ELSE IF i > alg.lenat THEN high ELSE room.buffer[i]]
           last == [room EXCEPT !.buffer = u]
           st == Hash!transform(last).state
           n  == Len(x.state)
<1>1. alg.lenat \in Nat
  BY DEF Hash!Algorithm
<1>2. /\ room \in HashState(alg) /\ room.state = x.state
      /\ \A i \in 1 .. alg.block :
           room.buffer[i] = IF i \in x.buffer_len + 1 .. alg.lenat THEN 0 ELSE x.buffer[i]
  <2>1. IsZeros(alg, x, alg.lenat, room)
    BY <1>1, ZerosIs
  <2> HIDE DEF room
  <2> QED
    BY <2>1 DEF IsZeros
<1> HIDE DEF room
<1>3. room.buffer \in [1 .. alg.block -> Int]
  BY <1>2 DEF HashState
<1>4. u \in [1 .. alg.block -> Int]
  BY <1>3
<1>5. \A i \in 1 .. alg.block :
        u[i] = IF i = alg.block THEN low
               ELSE IF i > alg.lenat THEN high
               ELSE IF i \in x.buffer_len + 1 .. alg.lenat THEN 0
               ELSE x.buffer[i]
  BY <1>2
<1> HIDE DEF u
<1>6. last.state = x.state /\ last.buffer = u
  BY <1>2 DEF HashState
<1>7. last \in HashState(alg)
  BY <1>2, <1>4 DEF HashState
<1> HIDE DEF last
<1>8. /\ Hash!transform(last) \in HashState(alg) /\ Len(st) = Len(last.state) + 1
      /\ st[Len(last.state) + 1] = last.buffer
      /\ \A k \in 1 .. Len(last.state) : st[k] = last.state[k]
  BY <1>7, TransformIs
<1>9. st \in Seq([1 .. alg.block -> Int])
  <2> DEFINE v == Hash!transform(last)
  <2> HIDE DEF v
  <2>1. v \in HashState(alg)
    BY <1>8 DEF v
  <2>2. v.state \in Seq([1 .. alg.block -> Int])
    BY <2>1 DEF HashState
  <2> QED
    BY <2>2 DEF v
<1> HIDE DEF st
<1>10. /\ st \in Seq([1 .. alg.block -> Int]) /\ Len(st) = n + 1
       /\ \A k \in 1 .. n : st[k] = x.state[k]
       /\ st[n + 1] = u
  BY <1>6, <1>8, <1>9
<1>11. ASSUME NEW i \in 1 .. alg.block
       PROVE  st[n + 1][i] = IF i = alg.block THEN low
                             ELSE IF i > alg.lenat THEN high
                             ELSE IF i \in x.buffer_len + 1 .. alg.lenat THEN 0
                             ELSE x.buffer[i]
  BY <1>5, <1>10
<1>12. IsLast(alg, x, low, high, st)
  BY <1>10, <1>11 DEF IsLast
<1> QED
  BY <1>12 DEF st, last, u, room

(* A function that has the values of a slice is the slice.                 *)
LEMMA IsSlice ==
    ASSUME NEW S, NEW p \in Seq(S), NEW x \in Nat, NEW n \in Nat, x + n <= Len(p)
    PROVE  \A e \in [1 .. n -> S] :
              (\A i \in 1 .. n : e[i] = p[x + i]) => e = SubSeq(p, x + 1, x + n)
<1> DEFINE q == SubSeq(p, x + 1, x + n)
<1>1. q \in [1 .. n -> S] /\ \A i \in 1 .. n : q[i] = p[x + i]
  BY Slice
<1> HIDE DEF q
<1>2. ASSUME NEW e \in [1 .. n -> S], \A i \in 1 .. n : e[i] = p[x + i] PROVE e = q
  BY <1>1, <1>2
<1> QED
  BY <1>2 DEF q

(* st are the m blocks of p.                                               *)
Cut(p, B, m, st) ==
    /\ Len(p) = m * B /\ Len(st) = m
    /\ \A k \in 1 .. m, i \in 1 .. B : st[k][i] = p[(k - 1) * B + i]

(* The blocks of p, given by their cells.                                  *)
LEMMA BlocksIs ==
    ASSUME NEW alg \in Hash!Algorithm, NEW p \in Seq(Int), NEW m \in Nat,
           NEW st \in Seq([1 .. alg.block -> Int]), Cut(p, alg.block, m, st)
    PROVE  st = Hash!Blocks(alg, p)
<1> DEFINE B == alg.block
           a == Len(p)
           c == Hash!Blocks(alg, p)
<1>1. B \in Nat \ {0}
  BY DEF Hash!Algorithm
<1>0. st \in Seq([1 .. B -> Int]) /\ Cut(p, B, m, st)
  OBVIOUS
<1>2. a \div B = m
  <2>1. a = m * B
    BY DEF Cut
  <2> HIDE DEF B, a
  <2>2. m * B \in Nat
    BY <1>1
  <2>3. a = m * B + 0 /\ 0 \in 0 .. B - 1
    BY <1>1, <2>1, <2>2
  <2> QED
    BY <1>1, <2>3, DivMod
<1>3. c = [k \in 1 .. m |-> SubSeq(p, (k - 1) * B + 1, k * B)]
  BY <1>2 DEF Hash!Blocks
<1> HIDE DEF B
<1>4. ASSUME NEW k \in 1 .. m PROVE st[k] = SubSeq(p, (k - 1) * B + 1, k * B)
  <2> DEFINE x == (k - 1) * B
             e == st[k]
  <2>1. x \in Nat /\ k * B = x + B /\ x + B <= a
    <3>1. k - 1 \in Nat /\ k - 1 < m /\ (k - 1) + 1 = k
      OBVIOUS
    <3>2. x \in Nat /\ ((k - 1) + 1) * B = x + B /\ x + B <= m * B
      BY <1>1, <3>1, Multiples
    <3>3. a = m * B
      BY <1>0 DEF Cut
    <3> QED
      BY <3>1, <3>2, <3>3
  <2>2. e \in [1 .. B -> Int]
    <3>1. m = Len(st)
      BY <1>0 DEF Cut
    <3> QED
      BY <1>0, <3>1, ElementOfSeq
  <2>3. \A i \in 1 .. B : e[i] = p[x + i]
    BY <1>0 DEF Cut
  <2> HIDE DEF x, e
  <2>4. B \in Nat /\ a = Len(p)
    BY <1>1
  <2> HIDE DEF a
  <2>5. e = SubSeq(p, x + 1, x + B)
    BY <2>1, <2>2, <2>3, <2>4, IsSlice
  <2> QED
    BY <2>1, <2>5 DEF e, x
<1>5. st = [k \in 1 .. m |-> st[k]]
  BY <1>0 DEF Cut
<1> QED
  BY <1>3, <1>4, <1>5

(* q continues s by t.                                                     *)
Continues(q, s, l, t, m) ==
    /\ Len(q) = l + m
    /\ \A i \in 1 .. l : q[i] = s[i]
    /\ \A i \in 1 .. m : q[l + i] = t[i]

(* A concatenation continues its first half by its second.                 *)
LEMMA ConcatContinues ==
    ASSUME NEW S, NEW s \in Seq(S), NEW t \in Seq(S), NEW l, NEW m, l = Len(s), m = Len(t)
    PROVE  s \o t \in Seq(S) /\ Continues(s \o t, s, l, t, m)
  BY Concat DEF Continues

(* Remainder and quotient.                                                 *)
Rem(a, b) == a % b
Quo(a, b) == a \div b
Zeros(lenat, l, b) == (lenat - l - 1) % b

(* p is s with a marker, z zeros and the words of a length.                *)
IsPadded(p, s, z, t, low, high) ==
    LET l == Len(s)
    IN  /\ p \in Seq(Int) /\ z \in Nat /\ t \in Nat
        /\ Len(p) = l + 1 + z + t
        /\ \A i \in 1 .. l : p[i] = s[i]
        /\ p[l + 1] = Hash!Marker
        /\ \A i \in 1 .. z : p[l + 1 + i] = 0
        /\ \A i \in 1 .. t : p[l + 1 + z + i] = IF i = t THEN low ELSE high

(* The padded message, cell by cell.                                       *)
LEMMA PaddedIs ==
    ASSUME NEW alg \in Hash!Algorithm, NEW s \in Seq(Int)
    PROVE  IsPadded(Hash!Padded(alg, s), s, Zeros(alg.lenat, Len(s), alg.block),
                    alg.block - alg.lenat, Rem(8 * Len(s), alg.word), Quo(8 * Len(s), alg.word))
<1> DEFINE l == Len(s)
           z == (alg.lenat - l - 1) % alg.block
           low == (8 * l) % alg.word
           high == (8 * l) \div alg.word
<1> DEFINE p == Hash!Padded(alg, s)
           t == alg.block - alg.lenat
           M == <<Hash!Marker>>
           Z == [i \in 1 .. z |-> 0]
           H == IF alg.lenat = alg.block - 2 THEN <<high>> ELSE <<>>
           W == <<low>>
           a == s \o M
           b == a \o Z
           c == b \o H
<1>1. /\ alg.block \in Nat \ {0} /\ alg.lenat \in Nat /\ alg.word \in Nat \ {0} /\ l \in Nat
      /\ alg.lenat \in {alg.block - 1, alg.block - 2}
  BY LenProperties DEF Hash!Algorithm
<1>2. z \in Nat /\ low \in Int /\ high \in Int
  <2> DEFINE x == alg.lenat - l - 1
             y == 8 * l
             B == alg.block
             w == alg.word
  <2>1. x \in Int /\ y \in Int /\ B \in Nat \ {0} /\ w \in Nat \ {0}
    BY <1>1
  <2>2. z = x % B /\ low = y % w /\ high = y \div w
    OBVIOUS
  <2> HIDE DEF x, y, B, w, z, low, high
  <2> QED
    BY <2>1, <2>2
<1>3. p = c \o W
  BY DEF Hash!Padded
<1> HIDE DEF l, z, low, high
<1>4. M \in Seq(Int) /\ Len(M) = 1 /\ M[1] = Hash!Marker
  BY DEF Hash!Marker
<1>5. Z \in Seq(Int) /\ Len(Z) = z /\ \A i \in 1 .. z : Z[i] = 0
  BY <1>2
<1>6. W \in Seq(Int) /\ Len(W) = 1 /\ W[1] = low
  BY <1>2
<1>7. t \in {1, 2} /\ H \in Seq(Int) /\ Len(H) = t - 1 /\ (t = 2 => H[1] = high)
  <2>1. CASE alg.lenat = alg.block - 2
    <3>1. H = <<high>> /\ t = 2
      BY <1>1, <2>1
    <3> HIDE DEF H, t
    <3> QED
      BY <1>2, <3>1
  <2>2. CASE alg.lenat = alg.block - 1
    <3>1. H = <<>> /\ t = 1
      BY <1>1, <2>2
    <3> HIDE DEF H, t
    <3> QED
      BY <3>1
  <2> QED
    BY <1>1, <2>1, <2>2
<1> HIDE DEF M, Z, H, W, t, p
<1>8. a \in Seq(Int) /\ Continues(a, s, l, M, 1)
  BY <1>4, ConcatContinues DEF l
<1> HIDE DEF a
<1>9. l + 1 = Len(a) /\ l + 1 \in Nat
  BY <1>1, <1>8 DEF Continues
<1>10. b \in Seq(Int) /\ Continues(b, a, l + 1, Z, z)
  BY <1>5, <1>8, <1>9, ConcatContinues
<1> HIDE DEF b
<1>11. l + 1 + z = Len(b) /\ l + 1 + z \in Nat
  BY <1>2, <1>9, <1>10 DEF Continues
<1>12. c \in Seq(Int) /\ Continues(c, b, l + 1 + z, H, t - 1)
  BY <1>7, <1>10, <1>11, ConcatContinues
<1> HIDE DEF c
<1>13. l + 1 + z + (t - 1) = Len(c) /\ l + 1 + z + (t - 1) \in Nat
  BY <1>7, <1>11, <1>12 DEF Continues
<1>14. p \in Seq(Int) /\ Continues(p, c, l + 1 + z + (t - 1), W, 1)
  BY <1>3, <1>6, <1>12, <1>13, ConcatContinues
<1>15. \A i \in 1 .. l + 1 + z : p[i] = b[i]
  <2>1. \A i \in 1 .. l + 1 + z : i \in 1 .. l + 1 + z + (t - 1)
    BY <1>7, <1>11
  <2> QED
    BY <1>12, <1>14, <2>1 DEF Continues
<1>16. \A i \in 1 .. l + 1 : p[i] = a[i]
  <2>1. \A i \in 1 .. l + 1 : i \in 1 .. l + 1 + z
    BY <1>1, <1>2
  <2> QED
    BY <1>10, <1>15, <2>1 DEF Continues
<1>17. \A i \in 1 .. l : p[i] = s[i]
  <2>1. \A i \in 1 .. l : i \in 1 .. l + 1
    BY <1>1
  <2> QED
    BY <1>8, <1>16, <2>1 DEF Continues
<1>18. p[l + 1] = Hash!Marker
  <2>1. l + 1 \in 1 .. l + 1 /\ 1 \in 1 .. 1
    BY <1>1
  <2>2. a[l + 1] = M[1]
    BY <1>8, <2>1 DEF Continues
  <2> QED
    BY <1>4, <1>16, <2>1, <2>2
<1>19. ASSUME NEW i \in 1 .. z PROVE p[l + 1 + i] = 0
  <2>1. l + 1 + i \in 1 .. l + 1 + z
    BY <1>1, <1>2
  <2>2. b[l + 1 + i] = Z[i]
    BY <1>10 DEF Continues
  <2> QED
    BY <1>5, <1>15, <2>1, <2>2
<1>20. ASSUME NEW i \in 1 .. t PROVE p[l + 1 + z + i] = IF i = t THEN low ELSE high
  <2>1. CASE i = t
    <3>1. l + 1 + z + (t - 1) + 1 = l + 1 + z + i /\ 1 \in 1 .. 1
      BY <1>7, <1>11, <2>1
    <3>2. p[l + 1 + z + (t - 1) + 1] = W[1]
      BY <1>14, <3>1 DEF Continues
    <3> QED
      BY <1>6, <2>1, <3>1, <3>2
  <2>2. CASE i # t
    <3>1. t = 2 /\ i = 1 /\ i \in 1 .. t - 1 /\ l + 1 + z + i \in 1 .. l + 1 + z + (t - 1)
      BY <1>7, <1>11, <2>2
    <3>2. c[l + 1 + z + i] = H[i]
      BY <1>12, <3>1 DEF Continues
    <3>3. p[l + 1 + z + i] = c[l + 1 + z + i]
      BY <1>14, <3>1 DEF Continues
    <3> QED
      BY <1>7, <2>2, <3>1, <3>2, <3>3
  <2> QED
    BY <2>1, <2>2
<1>21. Len(p) = l + 1 + z + t /\ t \in Nat
  BY <1>7, <1>11, <1>14 DEF Continues
<1>22. IsPadded(p, s, z, t, low, high)
  BY <1>2, <1>14, <1>17, <1>18, <1>19, <1>20, <1>21 DEF IsPadded, l
<1> QED
  BY <1>22 DEF p, t, z, low, high, l, Rem, Quo, Zeros

(* The count of all bits, in two words.                                    *)
Totals(w, low, high, r, N) ==
    LET new == (low + 8 * r) % w
    IN  high * w + low = 8 * N =>
          /\ new = Rem(8 * (N + r), w) /\ new \in Nat
          /\ high + (IF new < low THEN 1 ELSE 0) = Quo(8 * (N + r), w)

(* The two counters of bits are its remainder and its quotient.            *)
LEMMA TotalIs ==
    ASSUME NEW w \in Nat \ {0}, NEW low \in 0 .. w - 1, NEW high \in Nat, NEW r \in Nat, 8 * r < w,
           NEW N \in Nat
    PROVE  Totals(w, low, high, r, N)
<1> DEFINE d == 8 * r
           new == (low + d) % w
           top == high + (IF low + d < w THEN 0 ELSE 1)
           a == 8 * (N + r)
<1>1. d \in 0 .. w /\ d < w
  OBVIOUS
<1>2. a = 8 * N + d
  OBVIOUS
<1> HIDE DEF d, a
<1>3. /\ new \in 0 .. w - 1 /\ top * w + new = high * w + low + d
      /\ new < low <=> ~(low + d < w)
  BY <1>1, Carry
<1> HIDE DEF new
<1>4. top \in Int /\ top = high + (IF new < low THEN 1 ELSE 0)
  BY <1>1, <1>3
<1> HIDE DEF top
<1>5. high * w + low = 8 * N => a = top * w + new
  BY <1>1, <1>2, <1>3
<1>6. ASSUME a = top * w + new PROVE a % w = new /\ a \div w = top
  <2>1. new \in 0 .. w - 1 /\ top \in Int
    BY <1>3, <1>4
  <2> QED
    BY <1>6, <2>1, DivMod
<1> QED
  BY <1>3, <1>4, <1>5, <1>6 DEF new, a, d, Rem, Quo, Totals

(* s is n blocks of B cells and r more.                                    *)
Over(s, B, n, r) == r < B /\ Len(s) = n * B + r

(* The number of zeros.                                                    *)
LEMMA ZerosAre ==
    ASSUME NEW B \in Nat \ {0}, NEW lenat \in 0 .. B - 1, NEW n \in Nat, NEW r \in 0 .. B - 1,
           NEW s, Over(s, B, n, r)
    PROVE  Zeros(lenat, Len(s), B) = IF r + 1 > lenat THEN lenat - r - 1 + B ELSE lenat - r - 1
<1> DEFINE N == n * B
           l == Len(s)
           z == IF r + 1 > lenat THEN lenat - r - 1 + B ELSE lenat - r - 1
           x == lenat - l - 1
           q == IF r + 1 > lenat THEN - n - 1 ELSE - n
<1>1. N \in Nat /\ (- n) * B = - N /\ (- n - 1) * B = - N - B
  <2>1. N \in Nat
    OBVIOUS
  <2> DEFINE m == - n
  <2>2. m \in Int /\ m * B + n * B = (m + n) * B /\ m + n = 0 /\ 0 * B = 0
    OBVIOUS
  <2>3. m * B = - N
    BY <2>1, <2>2
  <2> HIDE DEF m
  <2>4. (m - 1) * B = m * B - B
    BY <2>2
  <2> QED
    BY <2>1, <2>3, <2>4 DEF m
<1>2. q \in Int /\ q * B = IF r + 1 > lenat THEN - N - B ELSE - N
  BY <1>1
<1>3. l = N + r
  BY DEF Over
<1> HIDE DEF N, q, l
<1>4. z \in 0 .. B - 1
  OBVIOUS
<1>5. x = q * B + z
  BY <1>1, <1>2, <1>3
<1> HIDE DEF x, z
<1>6. x % B = z
  BY <1>2, <1>4, <1>5, DivMod
<1> QED
  BY <1>6 DEF x, z, l, Zeros

(* The cells of the padded message from its last, unfinished block on.     *)
Tail2(p, N, r, c, e, low, high) ==
    /\ p[N + (r + 1)] = Hash!Marker
    /\ \A j \in r + 2 .. c : p[N + j] = 0
    /\ \A j \in c + 1 .. e : p[N + j] = IF j = e THEN low ELSE high

(* The padding of such a message, and where the length is in it.           *)
LEMMA PaddedTail ==
    ASSUME NEW alg \in Hash!Algorithm, NEW s \in Seq(Int), NEW n \in Nat, NEW r \in Nat,
           Over(s, alg.block, n, r)
    PROVE  LET p == Hash!Padded(alg, s)
               N == n * alg.block
               o == IF r + 1 > alg.lenat THEN alg.block ELSE 0
           IN  /\ p \in Seq(Int) /\ Len(p) = N + o + alg.block
               /\ \A i \in 1 .. N + r : p[i] = s[i]
               /\ Tail2(p, N, r, o + alg.lenat, o + alg.block,
                        Rem(8 * Len(s), alg.word), Quo(8 * Len(s), alg.word))
<1> DEFINE p == Hash!Padded(alg, s)
           B == alg.block
           e == alg.lenat
           N == n * B
           o == IF r + 1 > e THEN B ELSE 0
           l == Len(s)
           z == Zeros(e, l, B)
           t == B - e
           low == Rem(8 * l, alg.word)
           high == Quo(8 * l, alg.word)
<1>1. B \in Nat \ {0} /\ e \in 0 .. B - 1 /\ r \in 0 .. B - 1
  <2>1. B \in Nat \ {0} /\ e \in Nat /\ e \in {B - 1, B - 2}
    BY DEF Hash!Algorithm
  <2>2. r < B
    BY DEF Over
  <2> HIDE DEF B, e
  <2> QED
    BY <2>1, <2>2
<1>2. l \in Nat /\ l = N + r /\ N \in Nat
  <2>1. l = N + r
    BY DEF Over
  <2>2. l \in Nat
    BY LenProperties
  <2> HIDE DEF B, l
  <2>3. N \in Nat
    BY <1>1
  <2> QED
    BY <2>1, <2>2, <2>3
<1>3. IsPadded(p, s, z, t, low, high)
  BY PaddedIs
<1>4. z = IF r + 1 > e THEN e - r - 1 + B ELSE e - r - 1
  <2>1. Over(s, B, n, r)
    OBVIOUS
  <2> HIDE DEF B, e
  <2> QED
    BY <1>1, <2>1, ZerosAre
<1> HIDE DEF p, B, e, N, l, z, t, low, high
<1>11. /\ p \in Seq(Int) /\ t \in Nat
       /\ Len(p) = l + 1 + z + t
       /\ \A i \in 1 .. l : p[i] = s[i]
       /\ p[l + 1] = Hash!Marker
       /\ \A i \in 1 .. z : p[l + 1 + i] = 0
       /\ \A i \in 1 .. t : p[l + 1 + z + i] = IF i = t THEN low ELSE high
  BY <1>3 DEF IsPadded, l
<1>5. /\ o \in Nat /\ z \in Nat /\ r + 1 + z = o + e /\ e + t = B
      /\ o + e \in Nat
  <2> e + t = B
    BY <1>1 DEF t
  <2>1. CASE r + 1 > e
    <3>1. o = B /\ z = e - r - 1 + B
      BY <1>4, <2>1
    <3> HIDE DEF o
    <3> QED
      BY <1>1, <2>1, <3>1
  <2>2. CASE ~(r + 1 > e)
    <3>1. o = 0 /\ z = e - r - 1
      BY <1>4, <2>2
    <3> HIDE DEF o
    <3> QED
      BY <1>1, <2>2, <3>1
  <2> QED
    BY <2>1, <2>2
<1> HIDE DEF o, t
<1>6. Len(p) = N + o + B
  BY <1>1, <1>2, <1>5, <1>11
<1>7. p[N + (r + 1)] = Hash!Marker
  BY <1>2, <1>11
<1>8. ASSUME NEW j \in r + 2 .. o + e PROVE p[N + j] = 0
  <2> DEFINE i == j - r - 1
  <2>1. i \in 1 .. z /\ l + 1 + i = N + j
    BY <1>2, <1>5
  <2> HIDE DEF i
  <2> QED
    BY <1>11, <2>1
<1>9. ASSUME NEW j \in o + e + 1 .. o + B PROVE p[N + j] = IF j = o + B THEN low ELSE high
  <2> DEFINE i == j - (o + e)
  <2>1. i \in 1 .. t /\ l + 1 + z + i = N + j /\ (i = t <=> j = o + B)
    BY <1>1, <1>2, <1>5, <1>11
  <2> HIDE DEF i
  <2> QED
    BY <1>11, <2>1
<1>10. Tail2(p, N, r, o + e, o + B, low, high)
  BY <1>7, <1>8, <1>9 DEF Tail2
<1> QED
  BY <1>2, <1>6, <1>10, <1>11 DEF p, B, e, N, o, l, low, high

(* What finalize absorbs: the rest of the message with the marker, then    *)
(* the length, in a further block if the marker left no room for it.       *)
Absorbed(h, n, B, e, st, low, high) ==
    LET r == h.buffer_len
        o == IF r + 1 > e THEN 1 ELSE 0
    IN  /\ st \in Seq([1 .. B -> Int]) /\ Len(st) = n + o + 1
        /\ \A k \in 1 .. n : st[k] = h.state[k]
        /\ \A i \in 1 .. r : st[n + 1][i] = h.buffer[i]
        /\ st[n + 1][r + 1] = Hash!Marker
        /\ o = 0 => \A i \in r + 2 .. e : st[n + 1][i] = 0
        /\ o = 1 => \A i \in r + 2 .. B : st[n + 1][i] = 0
        /\ o = 1 => \A i \in 1 .. e : st[n + 2][i] = 0
        /\ \A i \in e + 1 .. B : st[n + o + 1][i] = IF i = B THEN low ELSE high

(* finalize absorbs this.                                                  *)
LEMMA FinalizeIs ==
    ASSUME NEW alg \in Hash!Algorithm, NEW h, NEW s \in Seq(Int), NEW n \in Nat,
           HasFed(alg, h, s, n)
    PROVE  Absorbed(h, n, alg.block, alg.lenat, Hash!finalize(alg, h),
                    Rem(8 * Len(s), alg.word), Quo(8 * Len(s), alg.word))
<1> DEFINE B == alg.block
           e == alg.lenat
           w == alg.word
           r == h.buffer_len
           N == n * B
           low == (h.bit_len_low + 8 * r) % w
           high == h.bit_len_high + (IF low < h.bit_len_low THEN 1 ELSE 0)
           m == Hash!Put(h, Hash!Marker)
           y == Hash!ZerosTo(alg, m, B)
           x == IF m.buffer_len > e THEN Hash!transform(y) ELSE m
           st == Hash!finalize(alg, h)
           room == Hash!ZerosTo(alg, x, alg.lenat)
           last == [room EXCEPT !.buffer = [i \in 1 .. alg.block |->
                          IF i = alg.block THEN low
                          ELSE IF i > alg.lenat THEN high ELSE room.buffer[i]]]
<1>1. B \in Nat \ {0} /\ e \in 0 .. B - 1 /\ w \in Nat \ {0} /\ 8 * B <= w
  <2>1. B \in Nat \ {0} /\ e \in Nat /\ e \in {B - 1, B - 2} /\ w \in Nat /\ 8 * B <= w
    BY DEF Hash!Algorithm
  <2> HIDE DEF B, e, w
  <2> QED
    BY <2>1
<1>2. /\ h \in HashState(alg) /\ r \in Nat /\ r < B
      /\ h.bit_len_low \in 0 .. w - 1 /\ h.bit_len_high \in Nat
      /\ h.bit_len_high * w + h.bit_len_low = 8 * N
      /\ Len(h.state) = n /\ Len(s) = N + r
  <2>1. /\ h \in HashState(alg) /\ r \in Nat /\ r < B
        /\ h.bit_len_low \in Nat /\ h.bit_len_low < w /\ h.bit_len_high \in Nat
    BY DEF HasFed, HashState
  <2>2. /\ h.bit_len_high * w + h.bit_len_low = 8 * N
        /\ Len(h.state) = n /\ Len(s) = N + r
    BY DEF HasFed
  <2> HIDE DEF N, w
  <2> QED
    BY <1>1, <2>1, <2>2
<1>3. low = Rem(8 * Len(s), w) /\ low \in Nat /\ high = Quo(8 * Len(s), w) /\ high \in Nat
  <2> DEFINE l0 == h.bit_len_low
             h0 == h.bit_len_high
  <2>1. l0 \in 0 .. w - 1 /\ h0 \in Nat /\ h0 * w + l0 = 8 * N /\ Len(s) = N + r
    BY <1>2
  <2> HIDE DEF l0, h0, r, B, w
  <2>2. N \in Nat
    BY <1>1, Multiples
  <2> HIDE DEF N
  <2>3. 8 * r < w
    BY <1>1, <1>2
  <2>4. LET new == (l0 + 8 * r) % w
        IN  /\ new = Rem(8 * (N + r), w) /\ new \in Nat
            /\ h0 + (IF new < l0 THEN 1 ELSE 0) = Quo(8 * (N + r), w)
    <3>1. Totals(w, l0, h0, r, N)
      BY <1>1, <1>2, <2>1, <2>2, <2>3, TotalIs
    <3> QED
      BY <2>1, <3>1 DEF Totals
  <2>5. low = (l0 + 8 * r) % w /\ high = h0 + (IF low < l0 THEN 1 ELSE 0)
    BY DEF l0, h0
  <2> HIDE DEF low, high
  <2>6. high \in Nat
    BY <2>1, <2>5
  <2> QED
    BY <2>1, <2>4, <2>5, <2>6
<1>4. st = Hash!transform(last).state
  BY DEF Hash!finalize, Hash!Finish
<1> HIDE DEF low, high
<1>5. /\ m \in HashState(alg) /\ m.state = h.state /\ m.buffer_len = r + 1
      /\ m.buffer[r + 1] = Hash!Marker
      /\ \A i \in 1 .. r : m.buffer[i] = h.buffer[i]
  <2>1. Hash!Marker \in Int
    BY DEF Hash!Marker
  <2> QED
    BY <1>2, <2>1, PutIs
<1> HIDE DEF m
<1>6. /\ y \in HashState(alg) /\ y.state = h.state
      /\ \A i \in 1 .. B : y.buffer[i] = IF i \in r + 2 .. B THEN 0 ELSE m.buffer[i]
  <2>1. /\ y \in HashState(alg) /\ y.state = m.state
        /\ \A i \in 1 .. B : y.buffer[i] = IF i \in m.buffer_len + 1 .. B THEN 0 ELSE m.buffer[i]
    <3>1. B \in Nat /\ m \in HashState(alg)
      BY <1>1, <1>5
    <3>2. IsZeros(alg, m, B, y)
      BY <3>1, ZerosIs
    <3> HIDE DEF y
    <3> QED
      BY <3>2 DEF IsZeros
  <2>2. m.buffer_len + 1 = r + 2
    BY <1>2, <1>5
  <2> HIDE DEF y, r
  <2> QED
    BY <1>5, <2>1, <2>2
<1> HIDE DEF y
<1>7. ASSUME x \in HashState(alg)
      PROVE  /\ st \in Seq([1 .. B -> Int]) /\ Len(st) = Len(x.state) + 1
             /\ \A k \in 1 .. Len(x.state) : st[k] = x.state[k]
             /\ \A i \in 1 .. B :
                  st[Len(x.state) + 1][i] = IF i = B THEN low
                                            ELSE IF i > e THEN high
                                            ELSE IF i \in x.buffer_len + 1 .. e THEN 0
                                            ELSE x.buffer[i]
  <2> HIDE DEF x
  <2>1. low \in Int /\ high \in Int
    BY <1>3
  <2> DEFINE g == Hash!transform(last).state
  <2>2. /\ g \in Seq([1 .. B -> Int]) /\ Len(g) = Len(x.state) + 1
        /\ \A k \in 1 .. Len(x.state) : g[k] = x.state[k]
        /\ \A i \in 1 .. B :
             g[Len(x.state) + 1][i] = IF i = B THEN low
                                      ELSE IF i > e THEN high
                                      ELSE IF i \in x.buffer_len + 1 .. e THEN 0
                                      ELSE x.buffer[i]
    <3>1. IsLast(alg, x, low, high, g)
      BY <1>7, <2>1, LastIs
    <3> HIDE DEF g
    <3> QED
      BY <3>1 DEF IsLast
  <2> QED
    BY <1>4, <2>2
<1> HIDE DEF st
<1>8. CASE ~(r + 1 > e)
  <2>1. x = m
    BY <1>5, <1>8
  <2> HIDE DEF x
  <2>2. /\ st \in Seq([1 .. B -> Int]) /\ Len(st) = n + 1
        /\ \A k \in 1 .. n : st[k] = h.state[k]
        /\ \A i \in 1 .. B :
             st[n + 1][i] = IF i = B THEN low
                            ELSE IF i > e THEN high
                            ELSE IF i \in r + 1 + 1 .. e THEN 0
                            ELSE m.buffer[i]
    <3>1. x \in HashState(alg) /\ Len(x.state) = n /\ x.state = h.state
      BY <1>2, <1>5, <2>1
    <3>2. x.buffer_len = r + 1 /\ x.buffer = m.buffer
      BY <1>5, <2>1
    <3>3. /\ st \in Seq([1 .. B -> Int]) /\ Len(st) = n + 1
          /\ \A k \in 1 .. n : st[k] = x.state[k]
          /\ \A i \in 1 .. B :
               st[n + 1][i] = IF i = B THEN low
                              ELSE IF i > e THEN high
                              ELSE IF i \in x.buffer_len + 1 .. e THEN 0
                              ELSE x.buffer[i]
      BY <1>7, <3>1
    <3> HIDE DEF B, e, r
    <3> QED
      BY <3>1, <3>2, <3>3
  <2> HIDE DEF B, e, r
  <2>3. ASSUME NEW i \in 1 .. r + 1 PROVE st[n + 1][i] = m.buffer[i]
    <3>1. i \in 1 .. B /\ i # B /\ ~(i > e) /\ i \notin r + 1 + 1 .. e
      BY <1>1, <1>2, <1>8
    <3> QED
      BY <2>2, <3>1
  <2>4. ASSUME NEW i \in r + 2 .. e PROVE st[n + 1][i] = 0
    <3>1. i \in 1 .. B /\ i # B /\ ~(i > e) /\ i \in r + 1 + 1 .. e
      BY <1>1, <1>2, <1>8
    <3> QED
      BY <2>2, <3>1
  <2>5. ASSUME NEW i \in e + 1 .. B PROVE st[n + 1][i] = IF i = B THEN low ELSE high
    <3>1. i \in 1 .. B /\ i > e
      BY <1>1
    <3> QED
      BY <2>2, <3>1
  <2>6. ASSUME NEW i \in 1 .. r PROVE st[n + 1][i] = h.buffer[i]
    <3>1. i \in 1 .. r + 1
      BY <1>2
    <3> QED
      BY <1>5, <2>3, <3>1
  <2>7. st[n + 1][r + 1] = Hash!Marker
    <3>1. r + 1 \in 1 .. r + 1
      BY <1>2
    <3> QED
      BY <1>5, <2>3, <3>1
  <2>8. n + 0 + 1 = n + 1
    OBVIOUS
  <2>9. Absorbed(h, n, B, e, st, low, high)
    <3>1. h.buffer_len = r
      BY DEF r
    <3> QED
      BY <1>8, <2>2, <2>4, <2>5, <2>6, <2>7, <2>8, <3>1 DEF Absorbed
  <2> QED
    BY <1>3, <2>9 DEF B, e, st, w
<1>9. CASE r + 1 > e
  <2>1. x = Hash!transform(y)
    BY <1>5, <1>9
  <2> HIDE DEF x
  <2>2. /\ x \in HashState(alg) /\ x.buffer_len = 0
        /\ Len(x.state) = n + 1 /\ x.state[n + 1] = y.buffer
        /\ \A k \in 1 .. n : x.state[k] = h.state[k]
    <3> DEFINE v == Hash!transform(y)
               k0 == Len(y.state)
    <3>1. k0 = n
      BY <1>2, <1>6
    <3>2. /\ v \in HashState(alg) /\ v.buffer_len = 0
          /\ Len(v.state) = k0 + 1 /\ v.state[k0 + 1] = y.buffer
          /\ \A k \in 1 .. k0 : v.state[k] = y.state[k]
      BY <1>6, TransformIs
    <3> HIDE DEF v, k0
    <3>3. x = v
      BY <2>1 DEF v
    <3> QED
      BY <1>6, <3>1, <3>2, <3>3
  <2>3. /\ st \in Seq([1 .. B -> Int]) /\ Len(st) = n + 1 + 1
        /\ \A k \in 1 .. n + 1 : st[k] = x.state[k]
        /\ \A i \in 1 .. B :
             st[n + 1 + 1][i] = IF i = B THEN low
                                ELSE IF i > e THEN high
                                ELSE IF i \in 0 + 1 .. e THEN 0
                                ELSE x.buffer[i]
    BY <1>7, <2>2
  <2>4. n + 1 + 1 = n + 2 /\ n + 1 \in 1 .. n + 1 /\ \A k \in 1 .. n : k \in 1 .. n + 1
    OBVIOUS
  <2>5. st[n + 1] = y.buffer /\ \A k \in 1 .. n : st[k] = h.state[k]
    BY <2>2, <2>3, <2>4
  <2> HIDE DEF B, e, r
  <2>6. ASSUME NEW i \in 1 .. r + 1 PROVE st[n + 1][i] = m.buffer[i]
    <3>1. i \in 1 .. B /\ i \notin r + 2 .. B
      BY <1>1, <1>2
    <3> QED
      BY <1>6, <2>5, <3>1
  <2>7. ASSUME NEW i \in r + 2 .. B PROVE st[n + 1][i] = 0
    <3>1. i \in 1 .. B
      BY <1>1, <1>2
    <3> QED
      BY <1>6, <2>5, <3>1
  <2>8. ASSUME NEW i \in 1 .. e PROVE st[n + 2][i] = 0
    <3>1. i \in 1 .. B /\ i # B /\ ~(i > e) /\ i \in 0 + 1 .. e
      BY <1>1
    <3> QED
      BY <2>3, <2>4, <3>1
  <2>9. ASSUME NEW i \in e + 1 .. B PROVE st[n + 2][i] = IF i = B THEN low ELSE high
    <3>1. i \in 1 .. B /\ i > e
      BY <1>1
    <3> QED
      BY <2>3, <2>4, <3>1
  <2>10. ASSUME NEW i \in 1 .. r PROVE st[n + 1][i] = h.buffer[i]
    <3>1. i \in 1 .. r + 1
      BY <1>2
    <3> QED
      BY <1>5, <2>6, <3>1
  <2>11. st[n + 1][r + 1] = Hash!Marker
    <3>1. r + 1 \in 1 .. r + 1
      BY <1>2
    <3> QED
      BY <1>5, <2>6, <3>1
  <2>12. Absorbed(h, n, B, e, st, low, high)
    <3>1. h.buffer_len = r
      BY DEF r
    <3> QED
      BY <1>9, <2>3, <2>4, <2>5, <2>7, <2>8, <2>9, <2>10, <2>11, <3>1 DEF Absorbed
  <2> QED
    BY <1>3, <2>12 DEF B, e, st, w
<1> QED
  BY <1>8, <1>9

(* finalize hashes what was fed with the padding of the standard.          *)
LEMMA FinalizePads ==
    ASSUME NEW alg \in Hash!Algorithm, NEW h, NEW s \in Seq(Int), NEW n \in Nat,
           HasFed(alg, h, s, n)
    PROVE  Hash!finalize(alg, h) = Hash!Blocks(alg, Hash!Padded(alg, s))
<1> DEFINE B == alg.block
           e == alg.lenat
           r == h.buffer_len
           N == n * B
           st == Hash!finalize(alg, h)
           p == Hash!Padded(alg, s)
           low == Rem(8 * Len(s), alg.word)
           high == Quo(8 * Len(s), alg.word)
           o == IF r + 1 > e THEN B ELSE 0
<1>1. B \in Nat \ {0} /\ e \in 0 .. B - 1
  <2>1. B \in Nat \ {0} /\ e \in Nat /\ e \in {B - 1, B - 2}
    BY DEF Hash!Algorithm
  <2> HIDE DEF B, e
  <2> QED
    BY <2>1
<1>2. Absorbed(h, n, B, e, st, low, high)
  BY FinalizeIs
<1>3. /\ r \in Nat /\ r < B /\ Over(s, B, n, r)
      /\ \A k \in 1 .. n, i \in 1 .. B : h.state[k][i] = s[(k - 1) * B + i]
      /\ \A i \in 1 .. r : h.buffer[i] = s[N + i]
  BY DEF HasFed, HashState, Over
<1>4. /\ p \in Seq(Int) /\ Len(p) = N + o + B
      /\ \A i \in 1 .. N + r : p[i] = s[i]
      /\ Tail2(p, N, r, o + e, o + B, low, high)
  <2> HIDE DEF r
  <2> QED
    BY <1>3, PaddedTail
<1> HIDE DEF st, p, low, high, B, e
<1>5. N \in Nat /\ (n + 1) * B = N + B /\ (n + 1 + 1) * B = N + B + B
  BY <1>1, Multiples
<1>6. \A k \in 1 .. n : st[k] = h.state[k]
  BY <1>2 DEF Absorbed
<1>7. ASSUME NEW k \in 1 .. n, NEW i \in 1 .. B PROVE st[k][i] = p[(k - 1) * B + i]
  <2> DEFINE j == (k - 1) * B + i
  <2>1. j \in 1 .. N
    BY <1>1, InBlocks
  <2>2. st[k][i] = s[j]
    BY <1>3, <1>6
  <2> HIDE DEF j, N, r
  <2>3. j \in 1 .. N + r
    BY <1>3, <1>5, <2>1
  <2> QED
    BY <1>4, <2>2, <2>3 DEF j
<1> HIDE DEF N
<1>8. st \in Seq([1 .. B -> Int])
  BY <1>2 DEF Absorbed
<1>9. /\ \A i \in 1 .. r : st[n + 1][i] = h.buffer[i]
      /\ st[n + 1][r + 1] = Hash!Marker
  BY <1>2 DEF Absorbed
<1>10. ASSUME NEW i \in 1 .. r + 1 PROVE st[n + 1][i] = p[N + i]
  <2> HIDE DEF r
  <2>1. CASE i \in 1 .. r
    <3>1. N + i \in 1 .. N + r
      BY <1>3, <1>5, <2>1
    <3> QED
      BY <1>3, <1>4, <1>9, <2>1, <3>1
  <2>2. CASE i = r + 1
    BY <1>4, <1>9, <2>2 DEF Tail2
  <2>3. i \in 1 .. r \/ i = r + 1
    BY <1>3
  <2> QED
    BY <2>1, <2>2, <2>3
<1>11. CASE ~(r + 1 > e)
  <2>1. /\ Len(st) = n + 1
        /\ \A i \in r + 2 .. e : st[n + 1][i] = 0
        /\ \A i \in e + 1 .. B : st[n + 1][i] = IF i = B THEN low ELSE high
    BY <1>2, <1>11 DEF Absorbed
  <2> HIDE DEF r
  <2>2. o = 0
    BY <1>11
  <2>3. /\ Len(p) = N + B
        /\ \A j \in r + 2 .. e : p[N + j] = 0
        /\ \A j \in e + 1 .. B : p[N + j] = IF j = B THEN low ELSE high
    <3> HIDE DEF o
    <3>1. o + e = e /\ o + B = B /\ N + o + B = N + B
      BY <1>1, <1>5, <2>2
    <3> QED
      BY <1>4, <3>1 DEF Tail2
  <2>4. ASSUME NEW i \in 1 .. B PROVE st[n + 1][i] = p[N + i]
    <3>1. i \in 1 .. r + 1 \/ i \in r + 2 .. e \/ i \in e + 1 .. B
      BY <1>1, <1>3
    <3>2. CASE i \in 1 .. r + 1
      BY <1>10, <3>2 DEF r
    <3>3. CASE i \in r + 2 .. e
      BY <2>1, <2>3, <3>3
    <3>4. CASE i \in e + 1 .. B
      BY <2>1, <2>3, <3>4
    <3> QED
      BY <3>1, <3>2, <3>3, <3>4
  <2>5. ASSUME NEW k \in 1 .. n + 1, NEW i \in 1 .. B PROVE st[k][i] = p[(k - 1) * B + i]
    <3>1. CASE k \in 1 .. n
      BY <1>7, <3>1
    <3>2. CASE k = n + 1
      <4>1. k - 1 = n
        BY <3>2
      <4>2. st[k][i] = p[N + i]
        BY <2>4, <3>2
      <4> QED
        BY <4>1, <4>2 DEF N
    <3> QED
      BY <3>1, <3>2
  <2>6. Cut(p, B, n + 1, st)
    BY <1>5, <2>1, <2>3, <2>5 DEF Cut
  <2>7. n + 1 \in Nat
    OBVIOUS
  <2> QED
    BY <1>4, <1>8, <2>6, <2>7, BlocksIs DEF B, p, st
<1>12. CASE r + 1 > e
  <2>1. /\ Len(st) = n + 1 + 1
        /\ \A i \in r + 2 .. B : st[n + 1][i] = 0
        /\ \A i \in 1 .. e : st[n + 2][i] = 0
        /\ \A i \in e + 1 .. B : st[n + 1 + 1][i] = IF i = B THEN low ELSE high
    BY <1>2, <1>12 DEF Absorbed
  <2> HIDE DEF r
  <2>2. o = B
    BY <1>12
  <2>3. /\ Len(p) = N + B + B
        /\ \A j \in r + 2 .. B + e : p[N + j] = 0
        /\ \A j \in B + e + 1 .. B + B : p[N + j] = IF j = B + B THEN low ELSE high
    <3> HIDE DEF o
    <3> QED
      BY <1>4, <2>2 DEF Tail2
  <2>4. ASSUME NEW i \in 1 .. B PROVE st[n + 1][i] = p[N + i]
    <3>1. i \in 1 .. r + 1 \/ (i \in r + 2 .. B /\ i \in r + 2 .. B + e)
      BY <1>1, <1>3
    <3>2. CASE i \in 1 .. r + 1
      BY <1>10, <3>2 DEF r
    <3>3. CASE i \in r + 2 .. B /\ i \in r + 2 .. B + e
      BY <2>1, <2>3, <3>3
    <3> QED
      BY <3>1, <3>2, <3>3
  <2>5. ASSUME NEW i \in 1 .. B PROVE st[n + 2][i] = p[N + B + i]
    <3>1. N + B + i = N + (B + i) /\ n + 2 = n + 1 + 1
      BY <1>1, <1>5
    <3>2. CASE i \in 1 .. e
      <4>1. B + i \in r + 2 .. B + e
        BY <1>1, <1>3, <3>2
      <4> QED
        BY <2>1, <2>3, <3>1, <3>2, <4>1
    <3>3. CASE i \in e + 1 .. B
      <4>1. B + i \in B + e + 1 .. B + B /\ (B + i = B + B <=> i = B)
        BY <1>1, <3>3
      <4>2. st[n + 2][i] = IF i = B THEN low ELSE high
        BY <2>1, <3>1, <3>3
      <4>3. p[N + (B + i)] = IF i = B THEN low ELSE high
        BY <2>3, <4>1
      <4> QED
        BY <3>1, <4>2, <4>3
    <3> QED
      BY <1>1, <3>2, <3>3
  <2>6. ASSUME NEW k \in 1 .. n + 1 + 1, NEW i \in 1 .. B PROVE st[k][i] = p[(k - 1) * B + i]
    <3>1. CASE k \in 1 .. n
      BY <1>7, <3>1
    <3>2. CASE k = n + 1
      <4>1. k - 1 = n
        BY <3>2
      <4>2. st[k][i] = p[N + i]
        BY <2>4, <3>2
      <4> QED
        BY <4>1, <4>2 DEF N
    <3>3. CASE k = n + 2
      <4>1. k - 1 = n + 1
        BY <3>3
      <4>2. st[k][i] = p[N + B + i]
        BY <2>5, <3>3
      <4>3. (k - 1) * B = N + B
        BY <1>5, <4>1
      <4> QED
        BY <4>2, <4>3
    <3> QED
      BY <3>1, <3>2, <3>3
  <2>7. Cut(p, B, n + 1 + 1, st)
    BY <1>5, <2>1, <2>3, <2>6 DEF Cut
  <2>8. n + 1 + 1 \in Nat
    OBVIOUS
  <2> QED
    BY <1>4, <1>8, <2>7, <2>8, BlocksIs DEF B, p, st
<1> QED
  BY <1>11, <1>12

-----------------------------------------------------------------------------
(* The hash objects hold what was fed since they were new.                 *)
HashInv ==
    /\ fed \in Seq(Int)
    /\ \E n \in Nat : HasFed(sha_256, h256, fed, n)
    /\ \E n \in Nat : HasFed(sha_512, h512, fed, n)
    /\ HashPads

(* The steps that only call something leave the hash objects alone.        *)
LEMMA CallsKeepHash ==
    ASSUME \/ FieldArithmetic \/ ScalarArithmetic \/ ScalarProducts \/ Chain \/ Multiply
           \/ Exchange \/ Decode \/ SignAndVerify \/ SealAndOpen \/ Authenticate \/ ExchangeFrames
    PROVE  UNCHANGED <<fed, h256, h512, digests>>
  BY DEF FieldArithmetic, ScalarArithmetic, ScalarProducts, Chain, Multiply, Exchange, Decode,
         SignAndVerify, SealAndOpen, Authenticate, ExchangeFrames, Call

(* sha_256 and sha_512 hash, after any calls of update and finalize, the   *)
(* bytes they were fed since the last finalize, with the padding of the    *)
(* standard: for every size of a block and of a word, every message, and   *)
(* every way to cut it.                                                    *)
THEOREM HashPadsAlways == Spec => []HashPads
<1>0. sha_256 \in Hash!Algorithm /\ sha_512 \in Hash!Algorithm
  BY HashAssumption
<1>1. Init => HashInv
  <2> SUFFICES ASSUME Init PROVE HashInv
    OBVIOUS
  <2>1. fed = <<>> /\ h256 = Hash!New(sha_256) /\ h512 = Hash!New(sha_512) /\ digests = <<>>
    BY DEF Init
  <2>2. HasFed(sha_256, h256, fed, 0) /\ HasFed(sha_512, h512, fed, 0)
    BY <1>0, <2>1, NewHasFed
  <2>3. fed \in Seq(Int)
    BY <2>1
  <2> QED
    BY <2>1, <2>2, <2>3 DEF HashInv, HashPads
<1>2. HashInv /\ [Next]_vars => HashInv'
  <2> SUFFICES ASSUME HashInv, [Next]_vars PROVE HashInv'
    OBVIOUS
  <2>0. PICK n \in Nat, m \in Nat :
          HasFed(sha_256, h256, fed, n) /\ HasFed(sha_512, h512, fed, m)
    BY DEF HashInv
  <2>1. CASE UNCHANGED <<fed, h256, h512, digests>>
    BY <2>1 DEF HashInv, HashPads
  <2>2. CASE Update
    <3>1. PICK c \in Piece :
            LET data == SubSeq(Stream, Len(fed) + 1, Len(fed) + c)
            IN  /\ Len(fed) + c <= Len(Stream)
                /\ fed' = fed \o data
                /\ h256' = Hash!update(sha_256, h256, data)
                /\ h512' = Hash!update(sha_512, h512, data)
                /\ digests' = digests
      BY <2>2 DEF Update
    <3> DEFINE data == SubSeq(Stream, Len(fed) + 1, Len(fed) + c)
    <3>2. data \in Seq(Int)
      <4>1. Stream \in Seq(Int) /\ c \in Nat
        BY HashAssumption
      <4>2. Len(fed) \in Nat
        BY LenProperties DEF HashInv
      <4> QED
        BY <3>1, <4>1, <4>2, Slice
    <3> HIDE DEF data
    <3>3. /\ fed' = fed \o data /\ digests' = digests
          /\ h256' = Hash!update(sha_256, h256, data)
          /\ h512' = Hash!update(sha_512, h512, data)
      BY <3>1 DEF data
    <3>4. fed \in Seq(Int)
      BY DEF HashInv
    <3>5. fed' \in Seq(Int)
      BY <3>2, <3>3, <3>4, ConcatProperties
    <3>6. \E k \in Nat : HasFed(sha_256, h256', fed', k)
      BY <1>0, <2>0, <3>2, <3>3, <3>4, UpdateKeeps
    <3>7. \E k \in Nat : HasFed(sha_512, h512', fed', k)
      BY <1>0, <2>0, <3>2, <3>3, <3>4, UpdateKeeps
    <3>8. HashPads'
      BY <3>3 DEF HashInv, HashPads
    <3> QED
      BY <3>5, <3>6, <3>7, <3>8 DEF HashInv
  <2>3. CASE Finalize
    <3>1. /\ digests' = [of |-> fed, h256 |-> Hash!finalize(sha_256, h256),
                         h512 |-> Hash!finalize(sha_512, h512)]
          /\ fed' = <<>> /\ h256' = Hash!New(sha_256) /\ h512' = Hash!New(sha_512)
      BY <2>3 DEF Finalize
    <3>2. fed \in Seq(Int)
      BY DEF HashInv
    <3>3. /\ Hash!finalize(sha_256, h256) = Hash!Blocks(sha_256, Hash!Padded(sha_256, fed))
          /\ Hash!finalize(sha_512, h512) = Hash!Blocks(sha_512, Hash!Padded(sha_512, fed))
      BY <1>0, <2>0, <3>2, FinalizePads
    <3>4. HashPads'
      BY <3>1, <3>3 DEF HashPads
    <3>5. HasFed(sha_256, h256', fed', 0) /\ HasFed(sha_512, h512', fed', 0)
      BY <1>0, <3>1, NewHasFed
    <3>6. fed' \in Seq(Int)
      BY <3>1
    <3> QED
      BY <3>4, <3>5, <3>6 DEF HashInv
  <2> QED
    BY <2>1, <2>2, <2>3, CallsKeepHash DEF Next, vars
<1>3. HashInv => HashPads
  BY DEF HashInv
<1> QED
  BY <1>1, <1>2, <1>3, PTL DEF Spec

-----------------------------------------------------------------------------
(* Two bytes hold a number modulo BYTE squared.                            *)
Sq == BYTE * BYTE

(* u16be writes that number, its high byte first.                          *)
LEMMA U16Is ==
    ASSUME NEW n \in Nat
    PROVE  LET a == Frame!u16be(n)
           IN  /\ a \in Seq(Int) /\ Len(a) = 2 /\ Sq \in Nat \ {0} /\ n % Sq \in 0 .. Sq - 1
               /\ a[1] * BYTE + a[2] = n % Sq
<1>0. BYTE \in Nat \ {0, 1}
  BY FrameAssumption
<1> DEFINE r == n % BYTE
           q == n \div BYTE
           t == q % BYTE
           u == q \div BYTE
<1>1. r \in 0 .. BYTE - 1 /\ q \in Nat /\ n = q * BYTE + r
  BY <1>0
<1> HIDE DEF q, r
<1>2. t \in 0 .. BYTE - 1 /\ u \in Nat /\ q = u * BYTE + t
  BY <1>0, <1>1
<1> HIDE DEF t, u
<1>3. Frame!u16be(n) = <<t, r>>
  BY DEF Frame!u16be, t, q, r
<1> DEFINE low == t * BYTE + r
<1>4. low \in Int /\ 0 <= low
  BY <1>0, <1>1, <1>2, Multiples
<1>5. low <= Sq - 1 /\ Sq \in Nat \ {0}
  <2>1. t * BYTE + BYTE <= BYTE * BYTE /\ t * BYTE \in Nat /\ BYTE * BYTE \in Nat
    <3>1. t \in Int /\ BYTE \in Nat /\ BYTE \in Int /\ t < BYTE /\ t \in Nat
      BY <1>0, <1>2
    <3> QED
      BY <3>1, Multiples
  <2> DEFINE w == BYTE * BYTE
             x == t * BYTE
  <2> HIDE DEF w, x
  <2>2. x + BYTE <= w /\ x \in Nat /\ w \in Nat
    BY <2>1 DEF w, x
  <2>3. x + r <= w - 1 /\ w # 0
    BY <1>0, <1>1, <2>2
  <2> QED
    BY <2>2, <2>3 DEF Sq, w, x
<1>6. n = u * Sq + low
  <2>1. n = (u * BYTE + t) * BYTE + r
    BY <1>1, <1>2
  <2>2. (u * BYTE + t) * BYTE = u * (BYTE * BYTE) + t * BYTE
    BY <1>0, <1>2
  <2> QED
    BY <1>0, <1>1, <1>2, <2>1, <2>2 DEF Sq
<1> HIDE DEF low
<1>7. n % Sq = low
  <2>1. low \in 0 .. Sq - 1 /\ u \in Int
    BY <1>2, <1>4, <1>5
  <2> QED
    BY <1>5, <1>6, <2>1, DivMod
<1>8. <<t, r>> \in Seq(Int) /\ Len(<<t, r>>) = 2 /\ <<t, r>>[1] = t /\ <<t, r>>[2] = r
  BY <1>1, <1>2
<1>9. low = t * BYTE + r /\ low \in 0 .. Sq - 1
  BY <1>4, <1>5 DEF low
<1> QED
  BY <1>3, <1>5, <1>7, <1>8, <1>9

(* A number below BYTE squared is its own remainder.                       *)
LEMMA PortIs ==
    ASSUME NEW port \in Frame!Port
    PROVE  port \in Nat /\ port % Sq = port
<1>1. port \in 0 .. Sq - 1
  BY DEF Frame!Port, Sq
<1>2. Sq \in Nat \ {0} /\ port \in Nat
  BY <1>1, U16Is
<1> QED
  BY <1>1, <1>2, SmallMod

-----------------------------------------------------------------------------
(* The types of the frames are told apart.                                 *)
Types == {Frame!register_node, Frame!peer_list, Frame!hs_init, Frame!hs_resp,
          Frame!hs_finish, Frame!encrypted}

(* Sizes of the fields.                                                    *)
LEMMA Sizes == {KEY, SIG, NONCE, TAG, IP} \subseteq Nat \ {0}
  BY FrameAssumption, BoxAssumption

(* A parser of another type than q's, or one that needs more than q has,   *)
(* returns nothing.                                                        *)
LEMMA OtherTypes ==
    ASSUME NEW q
    PROVE  /\ ~Frame!Fits(q, 3 + KEY, Frame!register_node) => Frame!parse_register(q) = Frame!nullopt
           /\ ~Frame!Fits(q, 3, Frame!peer_list) => Frame!parse_peer_list(q) = Frame!nullopt
           /\ ~Frame!Fits(q, 1 + KEY, Frame!hs_init) => Frame!parse_hs_init(q) = Frame!nullopt
           /\ ~Frame!Fits(q, 1 + 2 * KEY + SIG, Frame!hs_resp) => Frame!parse_hs_resp(q) = Frame!nullopt
           /\ ~Frame!Fits(q, 1 + KEY + SIG, Frame!hs_finish) => Frame!parse_hs_finish(q) = Frame!nullopt
           /\ ~Frame!Fits(q, 1 + NONCE + TAG, Frame!encrypted) => Frame!parse_encrypted(q) = Frame!nullopt
  BY DEF Frame!parse_register, Frame!parse_peer_list, Frame!parse_hs_init, Frame!parse_hs_resp,
         Frame!parse_hs_finish, Frame!parse_encrypted

(* Nothing is read from an empty frame.                                    *)
LEMMA EmptyParsed ==
    ASSUME NEW q \in Seq(Int), Len(q) = 0
    PROVE  Frame!Parsed(q) = {}
<1>1. /\ 3 + KEY > 0 /\ 1 + KEY > 0 /\ 1 + 2 * KEY + SIG > 0 /\ 1 + KEY + SIG > 0
      /\ 1 + NONCE + TAG > 0
  BY Sizes
<1>2. \A n \in Int : \A type : n > 0 => ~Frame!Fits(q, n, type)
  BY DEF Frame!Fits
<1>3. /\ 3 + KEY \in Int /\ 1 + KEY \in Int /\ 1 + 2 * KEY + SIG \in Int /\ 1 + KEY + SIG \in Int
      /\ 1 + NONCE + TAG \in Int
  <2>1. KEY \in Int /\ SIG \in Int /\ NONCE \in Int /\ TAG \in Int
    BY Sizes
  <2> QED
    BY <2>1
<1>4. /\ Frame!parse_register(q) = Frame!nullopt
      /\ Frame!parse_peer_list(q) = Frame!nullopt
      /\ Frame!parse_hs_init(q) = Frame!nullopt
      /\ Frame!parse_hs_resp(q) = Frame!nullopt
      /\ Frame!parse_hs_finish(q) = Frame!nullopt
      /\ Frame!parse_encrypted(q) = Frame!nullopt
  BY <1>1, <1>2, <1>3, OtherTypes
<1> QED
  BY <1>4 DEF Frame!Parsed

(* Only the parser of its type reads a frame.                              *)
LEMMA OneParser ==
    ASSUME NEW q
    PROVE  /\ q[1] = Frame!register_node => Frame!Parsed(q) = {Frame!parse_register(q)} \ {Frame!nullopt}
           /\ q[1] = Frame!peer_list => Frame!Parsed(q) = {Frame!parse_peer_list(q)} \ {Frame!nullopt}
           /\ q[1] = Frame!hs_init => Frame!Parsed(q) = {Frame!parse_hs_init(q)} \ {Frame!nullopt}
           /\ q[1] = Frame!hs_resp => Frame!Parsed(q) = {Frame!parse_hs_resp(q)} \ {Frame!nullopt}
           /\ q[1] = Frame!hs_finish => Frame!Parsed(q) = {Frame!parse_hs_finish(q)} \ {Frame!nullopt}
           /\ q[1] = Frame!encrypted => Frame!Parsed(q) = {Frame!parse_encrypted(q)} \ {Frame!nullopt}
           /\ q[1] \notin Types => Frame!Parsed(q) = {}
<1> DEFINE a == Frame!parse_register(q)
           b == Frame!parse_peer_list(q)
           c == Frame!parse_hs_init(q)
           d == Frame!parse_hs_resp(q)
           e == Frame!parse_hs_finish(q)
           f == Frame!parse_encrypted(q)
           none == Frame!nullopt
<1>1. /\ q[1] # Frame!register_node => a = none
      /\ q[1] # Frame!peer_list => b = none
      /\ q[1] # Frame!hs_init => c = none
      /\ q[1] # Frame!hs_resp => d = none
      /\ q[1] # Frame!hs_finish => e = none
      /\ q[1] # Frame!encrypted => f = none
  BY OtherTypes DEF Frame!Fits
<1>2. Frame!Parsed(q) = {r \in {a, b, c, d, e, f} : r # none}
  BY DEF Frame!Parsed
<1> HIDE DEF a, b, c, d, e, f, none
<1>3. /\ q[1] = Frame!register_node => Frame!Parsed(q) = {a} \ {none}
      /\ q[1] = Frame!peer_list => Frame!Parsed(q) = {b} \ {none}
      /\ q[1] = Frame!hs_init => Frame!Parsed(q) = {c} \ {none}
      /\ q[1] = Frame!hs_resp => Frame!Parsed(q) = {d} \ {none}
      /\ q[1] = Frame!hs_finish => Frame!Parsed(q) = {e} \ {none}
      /\ q[1] = Frame!encrypted => Frame!Parsed(q) = {f} \ {none}
  BY <1>1, <1>2 DEF Frame!register_node, Frame!peer_list, Frame!hs_init, Frame!hs_resp,
                    Frame!hs_finish, Frame!encrypted
<1>4. q[1] \notin Types => Frame!Parsed(q) = {}
  BY <1>1, <1>2 DEF Types
<1> QED
  BY <1>3, <1>4 DEF a, b, c, d, e, f, none

(* The bytes of a field.                                                   *)
LEMMA BytesAre ==
    ASSUME NEW q \in Seq(Int), NEW x \in Nat, NEW n \in Nat, x + n <= Len(q),
           NEW key \in [1 .. n -> Int], \A i \in 1 .. n : q[x + i] = key[i]
    PROVE  Frame!Bytes(q, x + 1, n) = key
<1>1. (x + 1) + n - 1 = x + n
  OBVIOUS
<1>2. \A i \in 1 .. n : key[i] = q[x + i]
  OBVIOUS
<1>3. key = SubSeq(q, x + 1, x + n)
  BY <1>2, IsSlice
<1> QED
  BY <1>1, <1>3 DEF Frame!Bytes

(* q has the cells of f, and maybe more.                                   *)
Agrees(q, f) ==
    /\ q \in Seq(Int) /\ Len(q) >= Len(f)
    /\ \A i \in 1 .. Len(f) : q[i] = f[i]
(* q is f cut short.                                                       *)
Short(q, f) == q \in Seq(Int) /\ Len(q) < Len(f) /\ (Len(q) # 0 => q[1] = f[1])

(* A frame is right if all that agree with it are read as it is, and       *)
(* nothing is read from what is cut short.                                 *)
LEMMA FrameRight ==
    ASSUME NEW f \in Seq(Int), NEW what,
           \A q : Agrees(q, f) => Frame!Parsed(q) = {what},
           \A q : Short(q, f) => Frame!Parsed(q) = {}
    PROVE  Frame!FrameIsRight(f, what)
<1>0. Len(f) \in Nat
  BY LenProperties
<1>1. Agrees(f, f)
  BY <1>0 DEF Agrees
<1>2. Agrees(f \o <<0>>, f)
  <2> DEFINE z == <<0>>
             l == Len(f)
  <2>1. z \in Seq(Int) /\ Len(z) = 1
    OBVIOUS
  <2> HIDE DEF z
  <2>2. f \o z \in Seq(Int) /\ Continues(f \o z, f, l, z, 1)
    BY <2>1, ConcatContinues
  <2> DEFINE g == f \o z
  <2> HIDE DEF g
  <2>3. g \in Seq(Int) /\ Len(g) = l + 1 /\ \A i \in 1 .. l : g[i] = f[i]
    BY <2>2 DEF Continues, g
  <2>4. Len(g) >= Len(f)
    BY <1>0, <2>3
  <2>5. Agrees(g, f)
    BY <2>3, <2>4 DEF Agrees
  <2> QED
    BY <2>5 DEF g, z
<1>3. ASSUME NEW n \in 0 .. Len(f) - 1 PROVE Short(SubSeq(f, 1, n), f)
  <2> DEFINE g == SubSeq(f, 0 + 1, 0 + n)
  <2>1. n \in Nat /\ 0 \in Nat /\ 0 + n <= Len(f) /\ n < Len(f)
    BY <1>0
  <2>2. g \in Seq(Int) /\ Len(g) = n /\ \A i \in 1 .. n : g[i] = f[0 + i]
    BY <2>1, Slice
  <2> HIDE DEF g
  <2>3. n # 0 => g[1] = f[1]
    BY <2>1, <2>2
  <2>4. Short(g, f)
    BY <2>1, <2>2, <2>3 DEF Short
  <2> QED
    BY <2>1, <2>4 DEF g
<1> QED
  BY <1>1, <1>2, <1>3 DEF Frame!FrameIsRight

(* g is a type t and then parts, of la, lb and lc cells.                   *)
One(g, t, a, la) ==
    /\ g \in Seq(Int) /\ Len(g) = 1 + la /\ g[1] = t
    /\ \A i \in 1 .. la : g[1 + i] = a[i]
Two(g, t, a, la, b, lb) ==
    /\ g \in Seq(Int) /\ Len(g) = 1 + la + lb /\ g[1] = t
    /\ \A i \in 1 .. la : g[1 + i] = a[i]
    /\ \A i \in 1 .. lb : g[1 + la + i] = b[i]
Three(g, t, a, la, b, lb, c, lc) ==
    /\ g \in Seq(Int) /\ Len(g) = 1 + la + lb + lc /\ g[1] = t
    /\ \A i \in 1 .. la : g[1 + i] = a[i]
    /\ \A i \in 1 .. lb : g[1 + la + i] = b[i]
    /\ \A i \in 1 .. lc : g[1 + la + lb + i] = c[i]

(* Frames that are put together from parts have these cells.               *)
LEMMA OneIs ==
    ASSUME NEW t \in Int, NEW a \in Seq(Int), NEW la, la = Len(a)
    PROVE  One(<<t>> \o a, t, a, la)
<1> DEFINE h == <<t>>
           g == h \o a
<1>1. h \in Seq(Int) /\ Len(h) = 1 /\ h[1] = t
  OBVIOUS
<1> HIDE DEF h
<1>2. g \in Seq(Int) /\ Continues(g, h, 1, a, la)
  BY <1>1, ConcatContinues
<1> HIDE DEF g
<1>3. 1 \in 1 .. 1
  OBVIOUS
<1>4. One(g, t, a, la)
  BY <1>1, <1>2, <1>3 DEF Continues, One
<1> QED
  BY <1>4 DEF g, h

(* A second part after the first.                                          *)
LEMMA TwoIs ==
    ASSUME NEW t \in Int, NEW a \in Seq(Int), NEW la, la = Len(a),
           NEW b \in Seq(Int), NEW lb, lb = Len(b)
    PROVE  Two(<<t>> \o a \o b, t, a, la, b, lb)
<1> DEFINE h == <<t>> \o a
           g == h \o b
<1>0. la \in Nat /\ lb \in Nat /\ 1 + la \in Nat
  BY LenProperties
<1>1. One(h, t, a, la)
  BY OneIs
<1> HIDE DEF h
<1>2. h \in Seq(Int) /\ Len(h) = 1 + la
  BY <1>1 DEF One
<1>3. g \in Seq(Int) /\ Continues(g, h, 1 + la, b, lb)
  BY <1>2, ConcatContinues
<1> HIDE DEF g
<1>4. 1 \in 1 .. 1 + la /\ \A i \in 1 .. la : 1 + i \in 1 .. 1 + la
  BY <1>0
<1>5. Two(g, t, a, la, b, lb)
  BY <1>1, <1>3, <1>4 DEF Continues, One, Two
<1> QED
  BY <1>5 DEF g, h

(* A third part.                                                           *)
LEMMA ThreeIs ==
    ASSUME NEW t \in Int, NEW a \in Seq(Int), NEW la, la = Len(a),
           NEW b \in Seq(Int), NEW lb, lb = Len(b), NEW c \in Seq(Int), NEW lc, lc = Len(c)
    PROVE  Three(<<t>> \o a \o b \o c, t, a, la, b, lb, c, lc)
<1> DEFINE h == <<t>> \o a \o b
           g == h \o c
<1>0. la \in Nat /\ lb \in Nat /\ lc \in Nat /\ 1 + la + lb \in Nat
  BY LenProperties
<1>1. Two(h, t, a, la, b, lb)
  BY TwoIs
<1> HIDE DEF h
<1>2. h \in Seq(Int) /\ Len(h) = 1 + la + lb
  BY <1>1 DEF Two
<1>3. g \in Seq(Int) /\ Continues(g, h, 1 + la + lb, c, lc)
  BY <1>2, ConcatContinues
<1> HIDE DEF g
<1>4. /\ 1 \in 1 .. 1 + la + lb /\ \A i \in 1 .. la : 1 + i \in 1 .. 1 + la + lb
      /\ \A i \in 1 .. lb : 1 + la + i \in 1 .. 1 + la + lb
  BY <1>0
<1>5. Three(g, t, a, la, b, lb, c, lc)
  BY <1>1, <1>3, <1>4 DEF Continues, Two, Three
<1> QED
  BY <1>5 DEF g, h

(* A key, a signature or a nonce is a sequence of its size.                *)
LEMMA FieldIs ==
    ASSUME NEW n \in Nat, NEW key \in [1 .. n -> Frame!Byte]
    PROVE  key \in [1 .. n -> Int] /\ key \in Seq(Int) /\ Len(key) = n
<1>1. key \in [1 .. n -> Int]
  <2>1. Frame!Byte \subseteq Int
    BY DEF Frame!Byte
  <2> QED
    BY <2>1
<1> QED
  BY <1>1

(* register_node is read back.                                             *)
LEMMA RegisterRight ==
    ASSUME NEW port \in Frame!Port, NEW key \in Keys
    PROVE  Frame!FrameIsRight(Frame!build_register(port, key), [port |-> port, pubkey |-> key])
<1> DEFINE u == Frame!u16be(port)
           f == Frame!build_register(port, key)
           t == Frame!register_node
           what == [port |-> port, pubkey |-> key]
<1>0. KEY \in Nat /\ key \in [1 .. KEY -> Frame!Byte]
  BY Sizes, FrameAssumption
<1>1. key \in [1 .. KEY -> Int] /\ key \in Seq(Int) /\ KEY = Len(key)
  BY <1>0, FieldIs
<1>2. u \in Seq(Int) /\ 2 = Len(u) /\ u[1] * BYTE + u[2] = port
  BY PortIs, U16Is
<1>3. t \in Int
  BY DEF Frame!register_node
<1>4. f = <<t>> \o u \o key
  BY DEF Frame!build_register
<1> HIDE DEF u, f, t
<1>5. Two(f, t, u, 2, key, KEY)
  BY <1>1, <1>2, <1>3, <1>4, TwoIs
<1>6. f \in Seq(Int) /\ Len(f) = 3 + KEY
  BY <1>0, <1>5 DEF Two
<1>7. ASSUME NEW q, Agrees(q, f) PROVE Frame!Parsed(q) = {what}
  <2>1. /\ q \in Seq(Int) /\ Len(q) >= 3 + KEY
        /\ \A i \in 1 .. 3 + KEY : q[i] = f[i]
    BY <1>6, <1>7 DEF Agrees
  <2>2. /\ 1 \in 1 .. 3 + KEY /\ 2 \in 1 .. 3 + KEY /\ 3 \in 1 .. 3 + KEY
        /\ \A i \in 1 .. KEY : 3 + i \in 1 .. 3 + KEY
        /\ \A i \in 1 .. KEY : 1 + 2 + i = 3 + i
    BY <1>0
  <2>3. q[1] = t /\ q[2] = u[1] /\ q[3] = u[2]
    <3>1. f[1] = t /\ f[1 + 1] = u[1] /\ f[1 + 2] = u[2]
      BY <1>5 DEF Two
    <3> QED
      BY <2>1, <2>2, <3>1
  <2>4. \A i \in 1 .. KEY : q[3 + i] = key[i]
    BY <1>5, <2>1, <2>2 DEF Two
  <2>5. Frame!read_u16be(q, 2) = port
    BY <1>2, <2>3 DEF Frame!read_u16be
  <2>6. Frame!Bytes(q, 4, KEY) = key
    <3>1. 3 \in Nat /\ 3 + 1 = 4
      OBVIOUS
    <3>2. Frame!Bytes(q, 3 + 1, KEY) = key
      BY <1>0, <1>1, <2>1, <2>4, <3>1, BytesAre
    <3> QED
      BY <3>1, <3>2
  <2>7. Frame!Fits(q, 3 + KEY, t)
    BY <2>1, <2>3 DEF Frame!Fits
  <2>8. Frame!parse_register(q) = what
    BY <2>5, <2>6, <2>7 DEF Frame!parse_register, t
  <2>9. what # Frame!nullopt
    BY DEF Frame!nullopt
  <2> HIDE DEF what
  <2>10. Frame!Parsed(q) = {Frame!parse_register(q)} \ {Frame!nullopt}
    BY <2>3, OneParser DEF t
  <2> QED
    BY <2>8, <2>9, <2>10
<1>8. ASSUME NEW q, Short(q, f) PROVE Frame!Parsed(q) = {}
  <2>1. q \in Seq(Int) /\ Len(q) < 3 + KEY /\ (Len(q) # 0 => q[1] = t) /\ Len(q) \in Nat
    BY <1>5, <1>6, <1>8, LenProperties DEF Short, Two
  <2>2. CASE Len(q) = 0
    BY <2>1, <2>2, EmptyParsed
  <2>3. CASE Len(q) # 0
    <3>1. ~Frame!Fits(q, 3 + KEY, t)
      BY <1>0, <2>1 DEF Frame!Fits
    <3>2. Frame!parse_register(q) = Frame!nullopt
      BY <3>1, OtherTypes DEF t
    <3>3. Frame!Parsed(q) = {Frame!parse_register(q)} \ {Frame!nullopt}
      BY <2>1, <2>3, OneParser DEF t
    <3> QED
      BY <3>2, <3>3
  <2> QED
    BY <2>2, <2>3
<1>9. Frame!FrameIsRight(f, what)
  <2> HIDE DEF what
  <2> QED
    BY <1>6, <1>7, <1>8, FrameRight
<1> QED
  BY <1>9 DEF f

(* hs_init is read back.                                               *)
LEMMA InitRight ==
    ASSUME NEW eph \in Keys
    PROVE  Frame!FrameIsRight(Frame!build_hs_init(eph),
                              [eph_pk |-> eph])
<1> DEFINE f == Frame!build_hs_init(eph)
           t == Frame!hs_init
           what == [eph_pk |-> eph]
           size == 1 + KEY
<1>0. /\ KEY \in Nat /\ size \in Nat
      /\ eph \in [1 .. KEY -> Frame!Byte]
  BY Sizes, FrameAssumption
<1>1. /\ eph \in [1 .. KEY -> Int] /\ eph \in Seq(Int) /\ KEY = Len(eph)
  BY <1>0, FieldIs
<1>2. t \in Int
  BY DEF Frame!hs_init
<1>3. f = <<t>> \o eph
  BY DEF Frame!build_hs_init
<1> HIDE DEF f, t
<1>4. One(f, t, eph, KEY)
  BY <1>1, <1>2, <1>3, OneIs
<1>5. f \in Seq(Int) /\ Len(f) = size
  <2>1. Len(f) = 1 + KEY /\ f \in Seq(Int)
    BY <1>4 DEF One
  <2> QED
    BY <1>0, <2>1
<1> HIDE DEF size
<1>6. ASSUME NEW q, Agrees(q, f) PROVE Frame!Parsed(q) = {what}
  <2>1. q \in Seq(Int) /\ Len(q) >= size /\ \A i \in 1 .. size : q[i] = f[i]
    BY <1>5, <1>6 DEF Agrees
  <2>2. q[1] = t
    <3>1. 1 \in 1 .. size /\ f[1] = t
      BY <1>0, <1>4 DEF size, One
    <3> QED
      BY <2>1, <3>1
  <2>3. Frame!Bytes(q, 2, KEY) = eph
    <3> DEFINE x == 1
    <3>1. x \in Nat /\ x + 1 = 2 /\ x + KEY <= size
      BY <1>0 DEF size
    <3>2. ASSUME NEW i \in 1 .. KEY PROVE q[x + i] = eph[i]
      <4>1. x + i \in 1 .. size
        BY <1>0, <3>1
      <4>2. f[x + i] = eph[i]
        BY <1>4 DEF One
      <4> QED
        BY <2>1, <4>1, <4>2
    <3> HIDE DEF x
    <3>3. x + KEY <= Len(q)
      <4>1. Len(q) \in Nat
        BY <2>1, LenProperties
      <4> QED
        BY <1>0, <2>1, <3>1, <4>1
    <3>4. q \in Seq(Int) /\ x \in Nat /\ KEY \in Nat /\ eph \in [1 .. KEY -> Int]
      BY <1>0, <1>1, <2>1, <3>1
    <3>5. Frame!Bytes(q, x + 1, KEY) = eph
      BY <3>2, <3>3, <3>4, BytesAre
    <3> QED
      BY <3>1, <3>5
  <2>4. Frame!Fits(q, size, t)
    BY <2>1, <2>2 DEF Frame!Fits
  <2>5. Frame!parse_hs_init(q) = what
    BY <2>3, <2>4 DEF Frame!parse_hs_init, t, size
  <2>6. what # Frame!nullopt
    BY DEF Frame!nullopt
  <2> HIDE DEF what
  <2>7. Frame!Parsed(q) = {Frame!parse_hs_init(q)} \ {Frame!nullopt}
    BY <2>2, OneParser DEF t
  <2> QED
    BY <2>5, <2>6, <2>7
<1>7. ASSUME NEW q, Short(q, f) PROVE Frame!Parsed(q) = {}
  <2>1. q \in Seq(Int) /\ Len(q) < size /\ (Len(q) # 0 => q[1] = t) /\ Len(q) \in Nat
    BY <1>4, <1>5, <1>7, LenProperties DEF Short, One
  <2>2. CASE Len(q) = 0
    BY <2>1, <2>2, EmptyParsed
  <2>3. CASE Len(q) # 0
    <3>1. ~Frame!Fits(q, size, t)
      BY <1>0, <2>1 DEF Frame!Fits
    <3>2. Frame!parse_hs_init(q) = Frame!nullopt
      BY <3>1, OtherTypes DEF t, size
    <3>3. Frame!Parsed(q) = {Frame!parse_hs_init(q)} \ {Frame!nullopt}
      BY <2>1, <2>3, OneParser DEF t
    <3> QED
      BY <3>2, <3>3
  <2> QED
    BY <2>2, <2>3
<1>8. Frame!FrameIsRight(f, what)
  <2> HIDE DEF what
  <2> QED
    BY <1>5, <1>6, <1>7, FrameRight
<1> QED
  BY <1>8 DEF f

(* hs_resp is read back.                                               *)
LEMMA RespRight ==
    ASSUME NEW eph \in Keys, NEW key \in Keys, NEW sig \in Signatures
    PROVE  Frame!FrameIsRight(Frame!build_hs_resp(eph, key, sig),
                              [eph_pk |-> eph, identity_pk |-> key, sig |-> sig])
<1> DEFINE f == Frame!build_hs_resp(eph, key, sig)
           t == Frame!hs_resp
           what == [eph_pk |-> eph, identity_pk |-> key, sig |-> sig]
           size == 1 + 2 * KEY + SIG
<1>0. /\ KEY \in Nat /\ SIG \in Nat /\ size \in Nat
      /\ eph \in [1 .. KEY -> Frame!Byte] /\ key \in [1 .. KEY -> Frame!Byte] /\ sig \in [1 .. SIG -> Frame!Byte]
  BY Sizes, FrameAssumption
<1>1. /\ eph \in [1 .. KEY -> Int] /\ eph \in Seq(Int) /\ KEY = Len(eph)
      /\ key \in [1 .. KEY -> Int] /\ key \in Seq(Int) /\ KEY = Len(key)
      /\ sig \in [1 .. SIG -> Int] /\ sig \in Seq(Int) /\ SIG = Len(sig)
  BY <1>0, FieldIs
<1>2. t \in Int
  BY DEF Frame!hs_resp
<1>3. f = <<t>> \o eph \o key \o sig
  BY DEF Frame!build_hs_resp
<1> HIDE DEF f, t
<1>4. Three(f, t, eph, KEY, key, KEY, sig, SIG)
  BY <1>1, <1>2, <1>3, ThreeIs
<1>5. f \in Seq(Int) /\ Len(f) = size
  <2>1. Len(f) = 1 + KEY + KEY + SIG /\ f \in Seq(Int)
    BY <1>4 DEF Three
  <2> QED
    BY <1>0, <2>1
<1> HIDE DEF size
<1>6. ASSUME NEW q, Agrees(q, f) PROVE Frame!Parsed(q) = {what}
  <2>1. q \in Seq(Int) /\ Len(q) >= size /\ \A i \in 1 .. size : q[i] = f[i]
    BY <1>5, <1>6 DEF Agrees
  <2>2. q[1] = t
    <3>1. 1 \in 1 .. size /\ f[1] = t
      BY <1>0, <1>4 DEF size, Three
    <3> QED
      BY <2>1, <3>1
  <2>3. Frame!Bytes(q, 2, KEY) = eph
    <3> DEFINE x == 1
    <3>1. x \in Nat /\ x + 1 = 2 /\ x + KEY <= size
      BY <1>0 DEF size
    <3>2. ASSUME NEW i \in 1 .. KEY PROVE q[x + i] = eph[i]
      <4>1. x + i \in 1 .. size
        BY <1>0, <3>1
      <4>2. f[x + i] = eph[i]
        BY <1>4 DEF Three
      <4> QED
        BY <2>1, <4>1, <4>2
    <3> HIDE DEF x
    <3>3. x + KEY <= Len(q)
      <4>1. Len(q) \in Nat
        BY <2>1, LenProperties
      <4> QED
        BY <1>0, <2>1, <3>1, <4>1
    <3>4. q \in Seq(Int) /\ x \in Nat /\ KEY \in Nat /\ eph \in [1 .. KEY -> Int]
      BY <1>0, <1>1, <2>1, <3>1
    <3>5. Frame!Bytes(q, x + 1, KEY) = eph
      BY <3>2, <3>3, <3>4, BytesAre
    <3> QED
      BY <3>1, <3>5
  <2>4. Frame!Bytes(q, 2 + KEY, KEY) = key
    <3> DEFINE x == 1 + KEY
    <3>1. x \in Nat /\ x + 1 = 2 + KEY /\ x + KEY <= size
      BY <1>0 DEF size
    <3>2. ASSUME NEW i \in 1 .. KEY PROVE q[x + i] = key[i]
      <4>1. x + i \in 1 .. size
        BY <1>0, <3>1
      <4>2. f[x + i] = key[i]
        BY <1>4 DEF Three
      <4> QED
        BY <2>1, <4>1, <4>2
    <3> HIDE DEF x
    <3>3. x + KEY <= Len(q)
      <4>1. Len(q) \in Nat
        BY <2>1, LenProperties
      <4> QED
        BY <1>0, <2>1, <3>1, <4>1
    <3>4. q \in Seq(Int) /\ x \in Nat /\ KEY \in Nat /\ key \in [1 .. KEY -> Int]
      BY <1>0, <1>1, <2>1, <3>1
    <3>5. Frame!Bytes(q, x + 1, KEY) = key
      BY <3>2, <3>3, <3>4, BytesAre
    <3> QED
      BY <3>1, <3>5
  <2>5. Frame!Bytes(q, 2 + 2 * KEY, SIG) = sig
    <3> DEFINE x == 1 + KEY + KEY
    <3>1. x \in Nat /\ x + 1 = 2 + 2 * KEY /\ x + SIG <= size
      BY <1>0 DEF size
    <3>2. ASSUME NEW i \in 1 .. SIG PROVE q[x + i] = sig[i]
      <4>1. x + i \in 1 .. size
        BY <1>0, <3>1
      <4>2. f[x + i] = sig[i]
        BY <1>4 DEF Three
      <4> QED
        BY <2>1, <4>1, <4>2
    <3> HIDE DEF x
    <3>3. x + SIG <= Len(q)
      <4>1. Len(q) \in Nat
        BY <2>1, LenProperties
      <4> QED
        BY <1>0, <2>1, <3>1, <4>1
    <3>4. q \in Seq(Int) /\ x \in Nat /\ SIG \in Nat /\ sig \in [1 .. SIG -> Int]
      BY <1>0, <1>1, <2>1, <3>1
    <3>5. Frame!Bytes(q, x + 1, SIG) = sig
      BY <3>2, <3>3, <3>4, BytesAre
    <3> QED
      BY <3>1, <3>5
  <2>6. Frame!Fits(q, size, t)
    BY <2>1, <2>2 DEF Frame!Fits
  <2>7. Frame!parse_hs_resp(q) = what
    BY <2>3, <2>4, <2>5, <2>6 DEF Frame!parse_hs_resp, t, size
  <2>8. what # Frame!nullopt
    BY DEF Frame!nullopt
  <2> HIDE DEF what
  <2>9. Frame!Parsed(q) = {Frame!parse_hs_resp(q)} \ {Frame!nullopt}
    BY <2>2, OneParser DEF t
  <2> QED
    BY <2>7, <2>8, <2>9
<1>7. ASSUME NEW q, Short(q, f) PROVE Frame!Parsed(q) = {}
  <2>1. q \in Seq(Int) /\ Len(q) < size /\ (Len(q) # 0 => q[1] = t) /\ Len(q) \in Nat
    BY <1>4, <1>5, <1>7, LenProperties DEF Short, Three
  <2>2. CASE Len(q) = 0
    BY <2>1, <2>2, EmptyParsed
  <2>3. CASE Len(q) # 0
    <3>1. ~Frame!Fits(q, size, t)
      BY <1>0, <2>1 DEF Frame!Fits
    <3>2. Frame!parse_hs_resp(q) = Frame!nullopt
      BY <3>1, OtherTypes DEF t, size
    <3>3. Frame!Parsed(q) = {Frame!parse_hs_resp(q)} \ {Frame!nullopt}
      BY <2>1, <2>3, OneParser DEF t
    <3> QED
      BY <3>2, <3>3
  <2> QED
    BY <2>2, <2>3
<1>8. Frame!FrameIsRight(f, what)
  <2> HIDE DEF what
  <2> QED
    BY <1>5, <1>6, <1>7, FrameRight
<1> QED
  BY <1>8 DEF f

(* hs_finish is read back.                                             *)
LEMMA FinishRight ==
    ASSUME NEW key \in Keys, NEW sig \in Signatures
    PROVE  Frame!FrameIsRight(Frame!build_hs_finish(key, sig),
                              [identity_pk |-> key, sig |-> sig])
<1> DEFINE f == Frame!build_hs_finish(key, sig)
           t == Frame!hs_finish
           what == [identity_pk |-> key, sig |-> sig]
           size == 1 + KEY + SIG
<1>0. /\ KEY \in Nat /\ SIG \in Nat /\ size \in Nat
      /\ key \in [1 .. KEY -> Frame!Byte] /\ sig \in [1 .. SIG -> Frame!Byte]
  BY Sizes, FrameAssumption
<1>1. /\ key \in [1 .. KEY -> Int] /\ key \in Seq(Int) /\ KEY = Len(key)
      /\ sig \in [1 .. SIG -> Int] /\ sig \in Seq(Int) /\ SIG = Len(sig)
  BY <1>0, FieldIs
<1>2. t \in Int
  BY DEF Frame!hs_finish
<1>3. f = <<t>> \o key \o sig
  BY DEF Frame!build_hs_finish
<1> HIDE DEF f, t
<1>4. Two(f, t, key, KEY, sig, SIG)
  BY <1>1, <1>2, <1>3, TwoIs
<1>5. f \in Seq(Int) /\ Len(f) = size
  <2>1. Len(f) = 1 + KEY + SIG /\ f \in Seq(Int)
    BY <1>4 DEF Two
  <2> QED
    BY <1>0, <2>1
<1> HIDE DEF size
<1>6. ASSUME NEW q, Agrees(q, f) PROVE Frame!Parsed(q) = {what}
  <2>1. q \in Seq(Int) /\ Len(q) >= size /\ \A i \in 1 .. size : q[i] = f[i]
    BY <1>5, <1>6 DEF Agrees
  <2>2. q[1] = t
    <3>1. 1 \in 1 .. size /\ f[1] = t
      BY <1>0, <1>4 DEF size, Two
    <3> QED
      BY <2>1, <3>1
  <2>3. Frame!Bytes(q, 2, KEY) = key
    <3> DEFINE x == 1
    <3>1. x \in Nat /\ x + 1 = 2 /\ x + KEY <= size
      BY <1>0 DEF size
    <3>2. ASSUME NEW i \in 1 .. KEY PROVE q[x + i] = key[i]
      <4>1. x + i \in 1 .. size
        BY <1>0, <3>1
      <4>2. f[x + i] = key[i]
        BY <1>4 DEF Two
      <4> QED
        BY <2>1, <4>1, <4>2
    <3> HIDE DEF x
    <3>3. x + KEY <= Len(q)
      <4>1. Len(q) \in Nat
        BY <2>1, LenProperties
      <4> QED
        BY <1>0, <2>1, <3>1, <4>1
    <3>4. q \in Seq(Int) /\ x \in Nat /\ KEY \in Nat /\ key \in [1 .. KEY -> Int]
      BY <1>0, <1>1, <2>1, <3>1
    <3>5. Frame!Bytes(q, x + 1, KEY) = key
      BY <3>2, <3>3, <3>4, BytesAre
    <3> QED
      BY <3>1, <3>5
  <2>4. Frame!Bytes(q, 2 + KEY, SIG) = sig
    <3> DEFINE x == 1 + KEY
    <3>1. x \in Nat /\ x + 1 = 2 + KEY /\ x + SIG <= size
      BY <1>0 DEF size
    <3>2. ASSUME NEW i \in 1 .. SIG PROVE q[x + i] = sig[i]
      <4>1. x + i \in 1 .. size
        BY <1>0, <3>1
      <4>2. f[x + i] = sig[i]
        BY <1>4 DEF Two
      <4> QED
        BY <2>1, <4>1, <4>2
    <3> HIDE DEF x
    <3>3. x + SIG <= Len(q)
      <4>1. Len(q) \in Nat
        BY <2>1, LenProperties
      <4> QED
        BY <1>0, <2>1, <3>1, <4>1
    <3>4. q \in Seq(Int) /\ x \in Nat /\ SIG \in Nat /\ sig \in [1 .. SIG -> Int]
      BY <1>0, <1>1, <2>1, <3>1
    <3>5. Frame!Bytes(q, x + 1, SIG) = sig
      BY <3>2, <3>3, <3>4, BytesAre
    <3> QED
      BY <3>1, <3>5
  <2>5. Frame!Fits(q, size, t)
    BY <2>1, <2>2 DEF Frame!Fits
  <2>6. Frame!parse_hs_finish(q) = what
    BY <2>3, <2>4, <2>5 DEF Frame!parse_hs_finish, t, size
  <2>7. what # Frame!nullopt
    BY DEF Frame!nullopt
  <2> HIDE DEF what
  <2>8. Frame!Parsed(q) = {Frame!parse_hs_finish(q)} \ {Frame!nullopt}
    BY <2>2, OneParser DEF t
  <2> QED
    BY <2>6, <2>7, <2>8
<1>7. ASSUME NEW q, Short(q, f) PROVE Frame!Parsed(q) = {}
  <2>1. q \in Seq(Int) /\ Len(q) < size /\ (Len(q) # 0 => q[1] = t) /\ Len(q) \in Nat
    BY <1>4, <1>5, <1>7, LenProperties DEF Short, Two
  <2>2. CASE Len(q) = 0
    BY <2>1, <2>2, EmptyParsed
  <2>3. CASE Len(q) # 0
    <3>1. ~Frame!Fits(q, size, t)
      BY <1>0, <2>1 DEF Frame!Fits
    <3>2. Frame!parse_hs_finish(q) = Frame!nullopt
      BY <3>1, OtherTypes DEF t, size
    <3>3. Frame!Parsed(q) = {Frame!parse_hs_finish(q)} \ {Frame!nullopt}
      BY <2>1, <2>3, OneParser DEF t
    <3> QED
      BY <3>2, <3>3
  <2> QED
    BY <2>2, <2>3
<1>8. Frame!FrameIsRight(f, what)
  <2> HIDE DEF what
  <2> QED
    BY <1>5, <1>6, <1>7, FrameRight
<1> QED
  BY <1>8 DEF f

(* encrypted is read back if its blob can hold a tag, and not otherwise.   *)
LEMMA EncryptedRight ==
    ASSUME NEW nonce \in FrameNonces, NEW blob \in Blobs
    PROVE  Frame!EncryptedIsRight(nonce, blob)
<1> DEFINE f == Frame!build_encrypted(nonce, blob)
           t == Frame!encrypted
           l == Len(blob)
           what == [nonce |-> nonce, blob |-> blob]
<1>0. NONCE \in Nat /\ TAG \in Nat /\ nonce \in [1 .. NONCE -> Frame!Byte]
  BY Sizes, FrameAssumption
<1>1. nonce \in [1 .. NONCE -> Int] /\ nonce \in Seq(Int) /\ NONCE = Len(nonce)
  BY <1>0, FieldIs
<1>2. blob \in Seq(Int) /\ l \in Nat /\ blob \in [1 .. l -> Int]
  <2>1. blob \in Seq(Int)
    <3>1. blob \in Seq(Frame!Byte) /\ Frame!Byte \subseteq Int
      BY FrameAssumption DEF Frame!Byte
    <3> DEFINE Q == Frame!Byte
    <3> HIDE DEF Q
    <3>2. blob \in Seq(Q) /\ Q \subseteq Int
      BY <3>1 DEF Q
    <3>3. Len(blob) \in Nat /\ blob \in [1 .. Len(blob) -> Q]
      BY <3>2, LenProperties
    <3>4. blob \in [1 .. Len(blob) -> Int]
      BY <3>2, <3>3
    <3> QED
      BY <3>3, <3>4
  <2> QED
    BY <2>1, LenProperties
<1>3. t \in Int
  BY DEF Frame!encrypted
<1>4. f = <<t>> \o nonce \o blob
  BY DEF Frame!build_encrypted
<1> HIDE DEF f, t
<1>5. Two(f, t, nonce, NONCE, blob, l)
  BY <1>1, <1>2, <1>3, <1>4, TwoIs
<1>6. /\ f \in Seq(Int) /\ Len(f) = 1 + NONCE + l /\ f[1] = t
      /\ \A i \in 1 .. NONCE : f[1 + i] = nonce[i]
      /\ \A i \in 1 .. l : f[1 + NONCE + i] = blob[i]
  BY <1>5 DEF Two
<1>7. Frame!Parsed(f) = {Frame!parse_encrypted(f)} \ {Frame!nullopt}
  BY <1>6, OneParser DEF t
<1> HIDE DEF l
<1>8. CASE l < TAG
  <2>1. ~Frame!Fits(f, 1 + NONCE + TAG, t)
    BY <1>0, <1>2, <1>6, <1>8 DEF Frame!Fits
  <2>2. Frame!parse_encrypted(f) = Frame!nullopt
    BY <2>1, OtherTypes DEF t
  <2>3. Frame!Parsed(f) = {}
    BY <1>7, <2>2
  <2> QED
    BY <1>8, <2>3 DEF Frame!EncryptedIsRight, f, l
<1>9. CASE ~(l < TAG)
  <2>1. Frame!Fits(f, 1 + NONCE + TAG, t)
    BY <1>0, <1>2, <1>6, <1>9 DEF Frame!Fits
  <2>2. Frame!Bytes(f, 2, NONCE) = nonce
    <3>1. 1 \in Nat /\ 1 + 1 = 2 /\ 1 + NONCE <= Len(f)
      BY <1>0, <1>2, <1>6
    <3>2. Frame!Bytes(f, 1 + 1, NONCE) = nonce
      BY <1>0, <1>1, <1>6, <3>1, BytesAre
    <3> QED
      BY <3>1, <3>2
  <2>3. SubSeq(f, 2 + NONCE, Len(f)) = blob
    <3> DEFINE x == 1 + NONCE
    <3>1. x \in Nat /\ x + 1 = 2 + NONCE /\ x + l = Len(f)
      BY <1>0, <1>2, <1>6
    <3>2. \A i \in 1 .. l : blob[i] = f[x + i]
      BY <1>6
    <3> HIDE DEF x
    <3>3. x + l <= Len(f)
      BY <1>2, <3>1
    <3>4. blob = SubSeq(f, x + 1, x + l)
      BY <1>2, <1>6, <3>1, <3>2, <3>3, IsSlice
    <3> QED
      BY <3>1, <3>4
  <2>4. Frame!parse_encrypted(f) = what
    BY <2>1, <2>2, <2>3 DEF Frame!parse_encrypted, t
  <2>5. what # Frame!nullopt
    BY DEF Frame!nullopt
  <2> HIDE DEF what
  <2>6. Frame!Parsed(f) = {what}
    BY <1>7, <2>4, <2>5
  <2> QED
    BY <1>9, <2>6 DEF Frame!EncryptedIsRight, f, l, what
<1> QED
  BY <1>8, <1>9

(* get_peers and ok carry nothing but their type.                          *)
LEMMA SignalsRight == Frame!SignalsAreRight
<1> SUFFICES ASSUME NEW f \in {Frame!build_get_peers, Frame!build_ok}
             PROVE  Frame!Parsed(f) = {} /\ Frame!get_type(f) = f[1]
  BY DEF Frame!SignalsAreRight
<1>1. f \in {<<102>>, <<104>>}
  BY DEF Frame!build_get_peers, Frame!build_ok, Frame!get_peers, Frame!ok
<1>2. f[1] \notin Types
  BY <1>1 DEF Types, Frame!register_node, Frame!peer_list, Frame!hs_init, Frame!hs_resp,
              Frame!hs_finish, Frame!encrypted
<1>3. f # <<>>
  BY <1>1
<1>4. Frame!get_type(f) = f[1]
  BY <1>3 DEF Frame!get_type
<1> QED
  BY <1>2, <1>4, OneParser

-----------------------------------------------------------------------------
(* f is the function all of build_peer_list, on the first n peers.         *)
Joins(peers, n, f) ==
    f = [i \in 0 .. n |-> IF i = 0 THEN <<>> ELSE f[i - 1] \o Frame!Entry(peers[i])]

(* The recursion defines a function.                                       *)
LEMMA JoinsExists ==
    ASSUME NEW peers, NEW n \in Nat
    PROVE  \E f : Joins(peers, n, f)
<1> DEFINE S == {k \in Nat : \E f : Joins(peers, k, f)}
<1>1. 0 \in S
  <2>1. Joins(peers, 0, [i \in 0 .. 0 |-> <<>>])
    BY DEF Joins
  <2> QED
    BY <2>1
<1>2. ASSUME NEW k \in Nat, k \in S PROVE k + 1 \in S
  <2>1. PICK f : Joins(peers, k, f)
    BY <1>2
  <2> DEFINE new == f[k] \o Frame!Entry(peers[k + 1])
             g == [i \in 0 .. k + 1 |-> IF i <= k THEN f[i] ELSE new]
             e == [i \in 0 .. k + 1 |-> IF i = 0 THEN <<>> ELSE g[i - 1] \o Frame!Entry(peers[i])]
  <2>2. \A i \in 0 .. k : f[i] = IF i = 0 THEN <<>> ELSE f[i - 1] \o Frame!Entry(peers[i])
    BY <2>1 DEF Joins
  <2>3. ASSUME NEW i \in 0 .. k + 1 PROVE g[i] = e[i]
    <3>1. CASE i = 0
      BY <3>1, <2>2
    <3>2. CASE i \in 1 .. k
      <4>1. g[i] = f[i] /\ g[i - 1] = f[i - 1] /\ i \in 0 .. k /\ i # 0
        BY <3>2
      <4>2. f[i] = f[i - 1] \o Frame!Entry(peers[i])
        BY <4>1, <2>2
      <4>3. e[i] = g[i - 1] \o Frame!Entry(peers[i])
        <5> HIDE DEF g
        <5> QED
          BY <4>1
      <4> HIDE DEF g, e
      <4> QED
        BY <4>1, <4>2, <4>3
    <3>3. CASE i = k + 1
      <4>1. g[i] = new /\ g[i - 1] = f[k] /\ i # 0
        BY <3>3
      <4>2. e[i] = g[i - 1] \o Frame!Entry(peers[i])
        <5> HIDE DEF g
        <5> QED
          BY <4>1
      <4> HIDE DEF g, e
      <4> QED
        BY <4>1, <4>2, <3>3
    <3> QED
      BY <3>1, <3>2, <3>3
  <2>4. g = e
    <3> HIDE DEF new
    <3> QED
      BY <2>3
  <2>5. Joins(peers, k + 1, g)
    BY <2>4 DEF Joins
  <2> QED
    BY <2>5
<1>3. Nat \subseteq S
  <2> HIDE DEF S
  <2> QED
    BY <1>1, <1>2, Induct
<1> QED
  BY <1>3

(* The cells of an entry of the list.                                      *)
IsEntry(e, p) ==
    /\ e \in Seq(Int) /\ Len(e) = Frame!ENTRY
    /\ \A i \in 1 .. IP : e[i] = p.ip[i]
    /\ e[IP + 1] * BYTE + e[IP + 2] = p.port
    /\ \A i \in 1 .. KEY : e[IP + 2 + i] = p.pubkey[i]

(* build_peer_list writes them for each peer.                              *)
LEMMA EntryIs ==
    ASSUME NEW p \in Frame!peer_info
    PROVE  IsEntry(Frame!Entry(p), p)
<1> DEFINE a == p.ip
           u == Frame!u16be(p.port)
           k == p.pubkey
           h == a \o u
           e == h \o k
<1>0. KEY \in Nat /\ IP \in Nat
  BY Sizes
<1>1. a \in [1 .. IP -> Frame!Byte] /\ k \in [1 .. KEY -> Frame!Byte] /\ p.port \in Frame!Port
  BY DEF Frame!peer_info
<1>2. Frame!Entry(p) = e
  BY DEF Frame!Entry
<1>3. u \in Seq(Int) /\ 2 = Len(u) /\ u[1] * BYTE + u[2] = p.port
  BY <1>1, PortIs, U16Is
<1> HIDE DEF a, k, u
<1>4. a \in Seq(Int) /\ IP = Len(a) /\ k \in Seq(Int) /\ KEY = Len(k)
  BY <1>0, <1>1, FieldIs
<1>5. h \in Seq(Int) /\ Continues(h, a, IP, u, 2)
  BY <1>3, <1>4, ConcatContinues
<1> HIDE DEF h
<1>6. IP + 2 = Len(h)
  BY <1>5 DEF Continues
<1>7. e \in Seq(Int) /\ Continues(e, h, IP + 2, k, KEY)
  BY <1>4, <1>5, <1>6, ConcatContinues
<1> HIDE DEF e
<1>8. IP + 1 \in 1 .. IP + 2 /\ IP + 2 \in 1 .. IP + 2 /\ \A i \in 1 .. IP : i \in 1 .. IP + 2
  BY <1>0
<1>9. e[IP + 1] = u[1] /\ e[IP + 2] = u[2] /\ \A i \in 1 .. IP : e[i] = a[i]
  <2>1. 1 \in 1 .. 2 /\ 2 \in 1 .. 2
    OBVIOUS
  <2>2. h[IP + 1] = u[1] /\ h[IP + 2] = u[2] /\ \A i \in 1 .. IP : h[i] = a[i]
    BY <1>5, <2>1 DEF Continues
  <2>3. \A i \in 1 .. IP + 2 : e[i] = h[i]
    BY <1>7 DEF Continues
  <2> QED
    BY <1>8, <2>2, <2>3
<1>10. Len(e) = Frame!ENTRY /\ \A i \in 1 .. KEY : e[IP + 2 + i] = k[i]
  BY <1>7 DEF Continues, Frame!ENTRY
<1> QED
  BY <1>2, <1>3, <1>7, <1>9, <1>10 DEF IsEntry, a, k

(* g are the entries of the first k peers, E cells each.                   *)
Joined(g, E, k, peers) ==
    /\ g \in Seq(Int) /\ Len(g) = k * E
    /\ \A j \in 1 .. k, i \in 1 .. E : g[(j - 1) * E + i] = Frame!Entry(peers[j])[i]

(* One entry more.                                                         *)
LEMMA JoinedNext ==
    ASSUME NEW E \in Nat \ {0}, NEW k \in Nat, NEW peers, NEW g, Joined(g, E, k, peers),
           Frame!Entry(peers[k + 1]) \in Seq(Int), Len(Frame!Entry(peers[k + 1])) = E
    PROVE  Joined(g \o Frame!Entry(peers[k + 1]), E, k + 1, peers)
<1> DEFINE e == Frame!Entry(peers[k + 1])
           c == g \o e
           N == k * E
<1>1. g \in Seq(Int) /\ N = Len(g) /\ e \in Seq(Int) /\ E = Len(e)
  BY DEF Joined
<1> HIDE DEF e
<1>2. c \in Seq(Int) /\ Continues(c, g, N, e, E)
  BY <1>1, ConcatContinues
<1> HIDE DEF c
<1>3. N \in Nat /\ (k + 1) * E = N + E
  BY Multiples
<1>4. Len(c) = (k + 1) * E
  BY <1>2, <1>3 DEF Continues
<1>5. ASSUME NEW j \in 1 .. k + 1, NEW i \in 1 .. E
      PROVE  c[(j - 1) * E + i] = Frame!Entry(peers[j])[i]
  <2>1. CASE j \in 1 .. k
    <3>1. (j - 1) * E + i \in 1 .. N
      BY <2>1, InBlocks
    <3>2. g[(j - 1) * E + i] = Frame!Entry(peers[j])[i]
      BY <2>1 DEF Joined
    <3>3. c[(j - 1) * E + i] = g[(j - 1) * E + i]
      BY <1>2, <3>1 DEF Continues
    <3> QED
      BY <3>2, <3>3
  <2>2. CASE j = k + 1
    <3>1. j - 1 = k
      BY <2>2
    <3>2. c[N + i] = e[i]
      BY <1>2 DEF Continues
    <3> QED
      BY <2>2, <3>1, <3>2 DEF e
  <2> QED
    BY <2>1, <2>2
<1>6. Joined(c, E, k + 1, peers)
  BY <1>2, <1>4, <1>5 DEF Joined
<1> QED
  BY <1>6 DEF c, e

(* A list of peers, cell by cell.                                          *)
LEMMA PeerListIs ==
    ASSUME NEW peers \in PeerLists
    PROVE  \E g : /\ Joined(g, Frame!ENTRY, Len(peers), peers)
                  /\ Two(Frame!build_peer_list(peers), Frame!peer_list,
                         Frame!u16be(Len(peers)), 2, g, Len(peers) * Frame!ENTRY)
<1> DEFINE E == Frame!ENTRY
           l == Len(peers)
<1>0. E \in Nat \ {0}
  BY Sizes DEF Frame!ENTRY
<1>1. peers \in Seq(Frame!peer_info) /\ l \in Nat
  BY FrameAssumption, LenProperties
<1> DEFINE f == CHOOSE f : Joins(peers, l, f)
<1>2. Joins(peers, l, f)
  <2> HIDE DEF f, l
  <2> QED
    BY <1>1, JoinsExists DEF f
<1>3. Frame!build_peer_list(peers) = <<Frame!peer_list>> \o Frame!u16be(l) \o f[l]
  BY DEF Frame!build_peer_list, Joins
<1> HIDE DEF f, l, E
<1>4. f[0] = <<>> /\ \A i \in 1 .. l : f[i] = f[i - 1] \o Frame!Entry(peers[i])
  <2>1. \A i \in 0 .. l : f[i] = IF i = 0 THEN <<>> ELSE f[i - 1] \o Frame!Entry(peers[i])
    BY <1>2 DEF Joins
  <2>2. 0 \in 0 .. l /\ \A i \in 1 .. l : i \in 0 .. l /\ i # 0
    BY <1>1
  <2> QED
    BY <2>1, <2>2
<1>5. \A k \in 1 .. l : Frame!Entry(peers[k]) \in Seq(Int) /\ Len(Frame!Entry(peers[k])) = E
  <2> SUFFICES ASSUME NEW k \in 1 .. l
               PROVE  Frame!Entry(peers[k]) \in Seq(Int) /\ Len(Frame!Entry(peers[k])) = E
    OBVIOUS
  <2>1. peers[k] \in Frame!peer_info
    <3> DEFINE Q == Frame!peer_info
    <3>1. peers \in Seq(Q) /\ k \in 1 .. Len(peers)
      BY <1>1 DEF l
    <3> HIDE DEF Q
    <3>2. peers[k] \in Q
      BY <3>1, ElementOfSeq
    <3> QED
      BY <3>2 DEF Q
  <2>2. IsEntry(Frame!Entry(peers[k]), peers[k])
    BY <2>1, EntryIs
  <2> QED
    BY <2>2 DEF IsEntry, E
<1> DEFINE S == {k \in Nat : k <= l => Joined(f[k], E, k, peers)}
<1>6. 0 \in S
  <2>1. 0 * E = 0
    BY <1>0
  <2> DEFINE g == f[0]
  <2>2. g \in Seq(Int) /\ Len(g) = 0 * E
    BY <1>4, <2>1
  <2> HIDE DEF g
  <2>3. Joined(g, E, 0, peers)
    BY <2>2 DEF Joined
  <2> QED
    BY <2>3 DEF g
<1>7. ASSUME NEW k \in Nat, k \in S PROVE k + 1 \in S
  <2> SUFFICES ASSUME k + 1 <= l PROVE Joined(f[k + 1], E, k + 1, peers)
    OBVIOUS
  <2>1. k + 1 \in 1 .. l /\ (k + 1) - 1 = k /\ k <= l
    BY <1>1
  <2>2. f[k + 1] = f[k] \o Frame!Entry(peers[k + 1])
    BY <1>4, <2>1
  <2>3. Joined(f[k], E, k, peers)
    BY <1>7, <2>1
  <2> DEFINE g == f[k]
  <2>4. Joined(g, E, k, peers)
    BY <2>3
  <2> HIDE DEF g
  <2>5. Joined(g \o Frame!Entry(peers[k + 1]), E, k + 1, peers)
    BY <1>0, <1>5, <2>1, <2>4, JoinedNext
  <2> QED
    BY <2>2, <2>5 DEF g
<1>8. l \in S
  <2> HIDE DEF S
  <2> QED
    BY <1>1, <1>6, <1>7, Induct
<1> DEFINE g == f[l]
<1>9. Joined(g, E, l, peers)
  <2>1. l <= l
    BY <1>1
  <2> QED
    BY <1>8, <2>1
<1>10. Frame!build_peer_list(peers) = <<Frame!peer_list>> \o Frame!u16be(l) \o g
  BY <1>3
<1> HIDE DEF g
<1>11. g \in Seq(Int) /\ l * E = Len(g)
  BY <1>9 DEF Joined
<1>12. Frame!u16be(l) \in Seq(Int) /\ 2 = Len(Frame!u16be(l)) /\ Frame!peer_list \in Int
  <2>1. Frame!u16be(l) \in Seq(Int) /\ Len(Frame!u16be(l)) = 2
    BY <1>1, U16Is
  <2>2. Frame!peer_list \in Int
    BY DEF Frame!peer_list
  <2> QED
    BY <2>1, <2>2
<1> DEFINE u == Frame!u16be(l)
           t == Frame!peer_list
           m == l * E
<1>13. Two(<<t>> \o u \o g, t, u, 2, g, m)
  <2>1. u \in Seq(Int) /\ 2 = Len(u) /\ t \in Int /\ m = Len(g)
    BY <1>11, <1>12
  <2> HIDE DEF u, t, m
  <2> QED
    BY <1>11, <2>1, TwoIs
<1> QED
  BY <1>9, <1>10, <1>13 DEF E, l

(* A remainder is not more than the number.                                *)
LEMMA ModLe ==
    ASSUME NEW a \in Nat, NEW b \in Nat \ {0}
    PROVE  a % b \in Nat /\ a % b <= a
<1> DEFINE q == a \div b
           r == a % b
<1>1. q \in Nat /\ r \in Nat /\ a = q * b + r
  OBVIOUS
<1> HIDE DEF q, r
<1>2. q * b \in Nat
  BY <1>1
<1>3. r <= a
  BY <1>1, <1>2
<1> QED
  BY <1>1, <1>3 DEF r

(* The entry that is read at a place where the cells of p are.             *)
LEMMA EntryRead ==
    ASSUME NEW f \in Seq(Int), NEW x \in Nat, NEW p \in Frame!peer_info,
           NEW e, IsEntry(e, p), x + Frame!ENTRY <= Len(f),
           \A j \in 1 .. Frame!ENTRY : f[x + j] = e[j]
    PROVE  [ip     |-> Frame!Bytes(f, x + 1, IP),
            port   |-> Frame!read_u16be(f, x + 1 + IP),
            pubkey |-> Frame!Bytes(f, x + 1 + IP + 2, KEY)] = p
<1> DEFINE E == Frame!ENTRY
<1>0. KEY \in Nat /\ IP \in Nat /\ E = IP + 2 + KEY
  BY Sizes DEF Frame!ENTRY
<1>1. /\ \A i \in 1 .. IP : e[i] = p.ip[i]
      /\ e[IP + 1] * BYTE + e[IP + 2] = p.port
      /\ \A i \in 1 .. KEY : e[IP + 2 + i] = p.pubkey[i]
  BY DEF IsEntry
<1>2. p.ip \in [1 .. IP -> Frame!Byte] /\ p.pubkey \in [1 .. KEY -> Frame!Byte]
  BY DEF Frame!peer_info
<1> DEFINE a == p.ip
           k == p.pubkey
<1>3. a \in [1 .. IP -> Int] /\ k \in [1 .. KEY -> Int]
  <2> HIDE DEF a, k
  <2>1. a \in [1 .. IP -> Frame!Byte] /\ k \in [1 .. KEY -> Frame!Byte]
    BY <1>2 DEF a, k
  <2> QED
    BY <1>0, <2>1, FieldIs
<1>4. Len(f) \in Nat /\ x + E <= Len(f) /\ \A j \in 1 .. E : f[x + j] = e[j]
  BY LenProperties
<1> HIDE DEF a, k, E
<1>5. Frame!Bytes(f, x + 1, IP) = a
  <2>1. \A i \in 1 .. IP : i \in 1 .. E
    BY <1>0
  <2>2. \A i \in 1 .. IP : f[x + i] = a[i]
    BY <1>1, <1>4, <2>1 DEF a
  <2>3. x + IP <= Len(f)
    BY <1>0, <1>4
  <2> QED
    BY <1>0, <1>3, <2>2, <2>3, BytesAre
<1>6. Frame!read_u16be(f, x + 1 + IP) = p.port
  <2>1. IP + 1 \in 1 .. E /\ IP + 2 \in 1 .. E
    BY <1>0
  <2>2. f[x + (IP + 1)] = e[IP + 1] /\ f[x + (IP + 2)] = e[IP + 2]
    BY <1>4, <2>1
  <2>3. x + 1 + IP = x + (IP + 1) /\ x + 1 + IP + 1 = x + (IP + 2)
    BY <1>0
  <2> QED
    BY <1>1, <2>2, <2>3 DEF Frame!read_u16be
<1>7. Frame!Bytes(f, x + 1 + IP + 2, KEY) = k
  <2> DEFINE y == x + (IP + 2)
  <2>1. y \in Nat /\ y + 1 = x + 1 + IP + 2 /\ y + KEY <= Len(f)
    BY <1>0, <1>4
  <2>2. ASSUME NEW i \in 1 .. KEY PROVE f[y + i] = k[i]
    <3>1. IP + 2 + i \in 1 .. E /\ x + (IP + 2 + i) = y + i
      BY <1>0
    <3>2. f[x + (IP + 2 + i)] = e[IP + 2 + i]
      BY <1>4, <3>1
    <3> QED
      BY <1>1, <3>1, <3>2 DEF k
  <2> HIDE DEF y
  <2>3. Frame!Bytes(f, y + 1, KEY) = k
    BY <1>0, <1>3, <2>1, <2>2, BytesAre
  <2> QED
    BY <2>1, <2>3
<1>8. p = [ip |-> p.ip, port |-> p.port, pubkey |-> p.pubkey]
  BY DEF Frame!peer_info
<1> QED
  BY <1>5, <1>6, <1>7, <1>8 DEF a, k

(* A list is read back, up to the length that fits in two bytes, and one   *)
(* that is cut is refused.                                                 *)
LEMMA ListRight ==
    ASSUME NEW peers \in PeerLists
    PROVE  Frame!ListIsRight(peers)
<1> DEFINE E == Frame!ENTRY
           l == Len(peers)
           f == Frame!build_peer_list(peers)
           t == Frame!peer_list
           u == Frame!u16be(l)
           n == l % Sq
<1>0. E \in Nat \ {0}
  BY Sizes DEF Frame!ENTRY
<1>1. peers \in Seq(Frame!peer_info) /\ l \in Nat
  BY FrameAssumption, LenProperties
<1>2. PICK g : Joined(g, E, l, peers) /\ Two(f, t, u, 2, g, l * E)
  BY PeerListIs
<1> HIDE DEF l, f
<1>3. Sq \in Nat \ {0} /\ u[1] * BYTE + u[2] = n
  BY <1>1, U16Is
<1>4. n \in Nat /\ n <= l
  BY <1>1, <1>3, ModLe
<1> HIDE DEF n, u, E
<1>5. /\ f \in Seq(Int) /\ Len(f) = 1 + 2 + l * E /\ f[1] = t /\ f[1 + 1] = u[1] /\ f[1 + 2] = u[2]
      /\ \A i \in 1 .. l * E : f[1 + 2 + i] = g[i]
  <2>1. 1 \in 1 .. 2 /\ 2 \in 1 .. 2
    OBVIOUS
  <2> QED
    BY <1>2, <2>1 DEF Two
<1>6. n * E \in Nat /\ l * E \in Nat /\ n * E <= l * E
  BY <1>0, <1>1, <1>4, Multiples
<1>7. f[2] = u[1] /\ f[3] = u[2] /\ Frame!read_u16be(f, 2) = n
  BY <1>3, <1>5 DEF Frame!read_u16be
<1>8. ASSUME NEW i \in 1 .. n
      PROVE  LET at == 4 + (i - 1) * E
             IN  [ip     |-> Frame!Bytes(f, at, IP),
                  port   |-> Frame!read_u16be(f, at + IP),
                  pubkey |-> Frame!Bytes(f, at + IP + 2, KEY)] = peers[i]
  <2> DEFINE x == 3 + (i - 1) * E
             e == Frame!Entry(peers[i])
  <2>1. i \in 1 .. l /\ i - 1 \in Nat /\ i - 1 < l
    BY <1>1, <1>4
  <2>2. (i - 1) * E \in Nat /\ (i - 1) * E + E <= l * E
    BY <1>0, <1>1, <2>1, Multiples
  <2>3. peers[i] \in Frame!peer_info
    <3> DEFINE Q == Frame!peer_info
    <3>1. peers \in Seq(Q) /\ i \in 1 .. Len(peers)
      BY <1>1, <2>1 DEF l
    <3> HIDE DEF Q
    <3>2. peers[i] \in Q
      BY <3>1, ElementOfSeq
    <3> QED
      BY <3>2 DEF Q
  <2>4. IsEntry(e, peers[i])
    BY <2>3, EntryIs
  <2>5. ASSUME NEW j \in 1 .. E PROVE f[x + j] = e[j]
    <3> DEFINE y == (i - 1) * E + j
    <3>1. y \in 1 .. l * E
      BY <1>0, <1>1, <2>1, InBlocks
    <3>2. g[y] = e[j]
      BY <1>2, <2>1 DEF Joined
    <3>3. 1 + 2 + y = x + j
      BY <1>0, <2>2
    <3> HIDE DEF y, e, x
    <3>4. f[1 + 2 + y] = g[y]
      BY <1>5, <3>1
    <3> QED
      BY <3>2, <3>3, <3>4
  <2>6. x \in Nat /\ x + E <= Len(f) /\ x + 1 = 4 + (i - 1) * E
    <3> DEFINE y == (i - 1) * E
               z == l * E
    <3>1. y \in Nat /\ y + E <= z /\ z \in Nat /\ Len(f) = 1 + 2 + z
      BY <1>5, <1>6, <2>2
    <3> HIDE DEF y, z
    <3>2. 3 + y \in Nat /\ 3 + y + E <= Len(f) /\ 3 + y + 1 = 4 + y
      BY <1>0, <3>1
    <3> QED
      BY <3>2 DEF y
  <2> DEFINE p == peers[i]
  <2>7. p \in Frame!peer_info /\ IsEntry(e, p)
    BY <2>3, <2>4
  <2> HIDE DEF x, e, p
  <2>8. x + Frame!ENTRY <= Len(f) /\ \A j \in 1 .. Frame!ENTRY : f[x + j] = e[j]
    BY <2>5, <2>6 DEF E
  <2>9. [ip     |-> Frame!Bytes(f, x + 1, IP),
         port   |-> Frame!read_u16be(f, x + 1 + IP),
         pubkey |-> Frame!Bytes(f, x + 1 + IP + 2, KEY)] = p
    BY <1>5, <2>6, <2>7, <2>8, EntryRead
  <2> QED
    BY <2>6, <2>9 DEF p
<1> DEFINE R == [i \in 1 .. n |->
                   LET at == 4 + (i - 1) * E
                   IN  [ip     |-> Frame!Bytes(f, at, IP),
                        port   |-> Frame!read_u16be(f, at + IP),
                        pubkey |-> Frame!Bytes(f, at + IP + 2, KEY)]]
<1>9. R = [i \in 1 .. n |-> peers[i]]
  BY <1>8
<1>10. R = SubSeq(peers, 1, n)
  <2> DEFINE Q == Frame!peer_info
             r == [i \in 1 .. n |-> peers[i]]
  <2>1. peers \in Seq(Q)
    BY <1>1
  <2> HIDE DEF Q, R
  <2>2. r \in [1 .. n -> Q]
    <3>1. \A i \in 1 .. n : peers[i] \in Q
      BY <1>1, <1>4, <2>1 DEF l
    <3> QED
      BY <3>1
  <2>3. \A i \in 1 .. n : r[i] = peers[0 + i]
    OBVIOUS
  <2>4. 0 \in Nat /\ 0 + n <= Len(peers) /\ 0 + n = n /\ 0 + 1 = 1
    BY <1>1, <1>4 DEF l
  <2> HIDE DEF r
  <2>5. r = SubSeq(peers, 0 + 1, 0 + n)
    BY <1>4, <2>1, <2>2, <2>3, <2>4, IsSlice
  <2> QED
    BY <1>9, <2>4, <2>5 DEF r
<1>11. Frame!Parsed(f) = {[peers |-> SubSeq(peers, 1, n)]}
  <2>1. Frame!Fits(f, 3, t) /\ ~(Len(f) < 3 + n * E)
    BY <1>5, <1>6 DEF Frame!Fits
  <2>2. Frame!parse_peer_list(f) = [peers |-> R]
    BY <1>7, <2>1 DEF Frame!parse_peer_list, t, E
  <2> HIDE DEF R
  <2>3. [peers |-> R] # Frame!nullopt
    BY DEF Frame!nullopt
  <2>4. Frame!Parsed(f) = {Frame!parse_peer_list(f)} \ {Frame!nullopt}
    BY <1>5, OneParser DEF t
  <2> QED
    BY <1>10, <2>2, <2>3, <2>4
<1>12. ASSUME NEW k \in 0 .. 2 + n * E PROVE Frame!Parsed(SubSeq(f, 1, k)) = {}
  <2> DEFINE q == SubSeq(f, 0 + 1, 0 + k)
  <2>1. k \in Nat /\ 0 \in Nat /\ 0 + k <= Len(f) /\ 0 + k = k /\ k < 3 + n * E
    BY <1>5, <1>6
  <2>2. q \in Seq(Int) /\ Len(q) = k /\ \A i \in 1 .. k : q[i] = f[0 + i]
    BY <1>5, <2>1, Slice
  <2>3. SubSeq(f, 1, k) = q
    BY <2>1
  <2> HIDE DEF q
  <2>4. CASE k = 0
    BY <2>2, <2>3, <2>4, EmptyParsed
  <2>5. CASE k # 0
    <3>1. q[1] = t
      BY <1>5, <2>1, <2>2, <2>5
    <3>2. Frame!parse_peer_list(q) = Frame!nullopt
      <4>1. CASE k < 3
        BY <2>2, <4>1, OtherTypes DEF Frame!Fits
      <4>2. CASE ~(k < 3)
        <5>1. q[2] = f[2] /\ q[3] = f[3]
          BY <2>1, <2>2, <4>2
        <5>2. Frame!read_u16be(q, 2) = n
          BY <1>3, <1>7, <5>1 DEF Frame!read_u16be
        <5>3. Len(q) < 3 + n * E
          BY <2>1, <2>2
        <5> QED
          BY <5>2, <5>3 DEF Frame!parse_peer_list, E
      <4> QED
        BY <4>1, <4>2
    <3>3. Frame!Parsed(q) = {Frame!parse_peer_list(q)} \ {Frame!nullopt}
      BY <3>1, OneParser DEF t
    <3> QED
      BY <2>3, <3>2, <3>3
  <2> QED
    BY <2>4, <2>5
<1> QED
  BY <1>11, <1>12 DEF Frame!ListIsRight, f, l, n, E, Sq

-----------------------------------------------------------------------------
(* The arguments of the calls of the codec and of the box.                 *)
CallInv ==
    /\ Op = "frame" => call[2] \in PeerLists /\ call[3] \in Blobs
    /\ Op = "seal" => call[2] \in Plaintexts /\ call[3] \in Associated /\ call[4] \in Associated

(* Calls are made with arguments of their sets.                            *)
LEMMA CallInvAlways == Spec => []CallInv
<1>1. Init => CallInv
  BY DEF Init, CallInv, Op
<1>2. CallInv /\ [Next]_vars => CallInv'
  <2> SUFFICES ASSUME CallInv, [Next]_vars PROVE CallInv'
    OBVIOUS
  <2>1. CASE call' = call
    BY <2>1 DEF CallInv, Op
  <2>2. ASSUME NEW c, call' = c, c # <<>>, c[1] \notin {"frame", "seal"} PROVE CallInv'
    BY <2>2 DEF CallInv, Op
  <2>3. CASE FieldArithmetic
    <3>1. PICK a \in Elements, b \in Elements : call' = <<"field", a, b>>
      BY <2>3 DEF FieldArithmetic, Call
    <3> QED
      BY <2>2, <3>1
  <2>4. CASE ScalarArithmetic
    <3>1. PICK x \in Scalars, y \in Scalars : call' = <<"scalar", x, y>>
      BY <2>4 DEF ScalarArithmetic, Call
    <3> QED
      BY <2>2, <3>1
  <2>5. CASE ScalarProducts
    <3>1. PICK x \in Scalars, y \in Factors : call' = <<"product", x, y>>
      BY <2>5 DEF ScalarProducts, Call
    <3> QED
      BY <2>2, <3>1
  <2>6. CASE Chain
    <3>1. PICK m \in Moduli : call' = <<"chain", m>>
      BY <2>6 DEF Chain, Call
    <3> QED
      BY <2>2, <3>1
  <2>7. CASE Multiply
    <3>1. PICK u \in 0 .. 60, s \in 0 .. 63 : call' = <<"ladder", u, s>>
      BY <2>7 DEF Multiply, Call
    <3> QED
      BY <2>2, <3>1
  <2>8. CASE Exchange
    <3>1. PICK a \in Secrets, b \in Secrets, pk \in PublicKeys : call' = <<"exchange", a, b, pk>>
      BY <2>8 DEF Exchange, Call
    <3> QED
      BY <2>2, <3>1
  <2>9. CASE Decode
    <3>1. PICK b \in PublicKeys : call' = <<"decode", b>>
      BY <2>9 DEF Decode, Call
    <3> QED
      BY <2>2, <3>1
  <2>10. CASE SignAndVerify
    <3>1. PICK k \in Secrets, n \in Nonces, h \in Challenges, S \in Responses :
            call' = <<"sign", k, n, h, S>>
      BY <2>10 DEF SignAndVerify, Call
    <3> QED
      BY <2>2, <3>1
  <2>11. CASE SealAndOpen
    <3>1. PICK m \in Plaintexts, aad \in Associated, other \in Associated :
            call' = <<"seal", m, aad, other>>
      BY <2>11 DEF SealAndOpen, Call
    <3> QED
      BY <3>1 DEF CallInv, Op
  <2>12. CASE Authenticate
    <3>1. PICK r \in MacKeys, s \in MacKeys, m \in MacMessages : call' = <<"mac", r, s, m>>
      BY <2>12 DEF Authenticate, Call
    <3> QED
      BY <2>2, <3>1
  <2>13. CASE ExchangeFrames
    <3>1. PICK l \in PeerLists, b \in Blobs : call' = <<"frame", l, b>>
      BY <2>13 DEF ExchangeFrames, Call
    <3> QED
      BY <3>1 DEF CallInv, Op
  <2>14. CASE Update
    BY <2>1, <2>14 DEF Update
  <2>15. CASE Finalize
    BY <2>1, <2>15 DEF Finalize
  <2> QED
    BY <2>1, <2>3, <2>4, <2>5, <2>6, <2>7, <2>8, <2>9, <2>10, <2>11, <2>12, <2>13, <2>14, <2>15
    DEF Next, vars
<1> QED
  BY <1>1, <1>2, PTL DEF Spec

(* Every frame of the protocol is read back as it was built, by its parser *)
(* only, and refused when it is cut; of a list, as many peers as two bytes *)
(* can count: for every size of a key, a signature, a nonce, a tag, an     *)
(* address and a byte, and for all contents.                               *)
THEOREM FramesRoundTripAlways == Spec => []FramesRoundTrip
<1>1. CallInv => FramesRoundTrip
  <2> SUFFICES ASSUME CallInv, Op = "frame"
               PROVE  /\ Frame!ListIsRight(call[2])
                      /\ \A nonce \in FrameNonces : Frame!EncryptedIsRight(nonce, call[3])
                      /\ Frame!SignalsAreRight
                      /\ \A key \in Keys :
                           /\ \A port \in Frame!Port :
                                Frame!FrameIsRight(Frame!build_register(port, key),
                                                   [port |-> port, pubkey |-> key])
                           /\ Frame!FrameIsRight(Frame!build_hs_init(key), [eph_pk |-> key])
                           /\ \A sig \in Signatures :
                                /\ \A eph \in Keys :
                                     Frame!FrameIsRight(Frame!build_hs_resp(eph, key, sig),
                                                        [eph_pk |-> eph, identity_pk |-> key, sig |-> sig])
                                /\ Frame!FrameIsRight(Frame!build_hs_finish(key, sig),
                                                      [identity_pk |-> key, sig |-> sig])
    BY DEF FramesRoundTrip
  <2>1. call[2] \in PeerLists /\ call[3] \in Blobs
    BY DEF CallInv
  <2>2. Frame!ListIsRight(call[2])
    BY <2>1, ListRight
  <2>3. \A nonce \in FrameNonces : Frame!EncryptedIsRight(nonce, call[3])
    BY <2>1, EncryptedRight
  <2> QED
    BY <2>2, <2>3, SignalsRight, RegisterRight, InitRight, RespRight, FinishRight
<1> QED
  BY <1>1, CallInvAlways, PTL

-----------------------------------------------------------------------------
(* The atoms that bytes are made of differ in their kinds and in what they *)
(* are made from.                                                          *)
Ks(key, c, nonce, i) == <<"ks", key, c, nonce, i>>
TagAtom(key, input, i) == <<"tag", key, input, i, TAG, 0>>
Plain == <<"b">>
Length(n) == {<<"length", n>>}

(* Atoms of one kind are equal only if they are made from the same.        *)
LEMMA AtomsDiffer ==
    /\ \A key, c, nonce, i, key2, c2, nonce2, i2 :
         Ks(key, c, nonce, i) = Ks(key2, c2, nonce2, i2)
           => key = key2 /\ c = c2 /\ nonce = nonce2 /\ i = i2
    /\ \A key, input, i, key2, input2, i2 :
         TagAtom(key, input, i) = TagAtom(key2, input2, i2)
           => key = key2 /\ input = input2 /\ i = i2
    /\ \A n, n2 : Length(n) = Length(n2) => n = n2
<1>1. \A key, c, nonce, i, key2, c2, nonce2, i2 :
         Ks(key, c, nonce, i) = Ks(key2, c2, nonce2, i2)
           => key = key2 /\ c = c2 /\ nonce = nonce2 /\ i = i2
  BY DEF Ks
<1>2. \A key, input, i, key2, input2, i2 :
         TagAtom(key, input, i) = TagAtom(key2, input2, i2)
           => key = key2 /\ input = input2 /\ i = i2
  BY DEF TagAtom
<1>3. ASSUME NEW n, NEW n2, Length(n) = Length(n2) PROVE n = n2
  <2>1. <<"length", n>> \in Length(n2)
    BY <1>3 DEF Length
  <2>2. <<"length", n>> = <<"length", n2>>
    BY <2>1 DEF Length
  <2> QED
    BY <2>2
<1> QED
  BY <1>1, <1>2, <1>3

(* Atoms of different kinds are different.                                 *)
LEMMA KindsDiffer ==
    /\ \A key, c, nonce, i : Ks(key, c, nonce, i) # Plain
    /\ \A key, input, i : TagAtom(key, input, i) # Plain
    /\ \A key, c, nonce, i, key2, input, i2 :
         Ks(key, c, nonce, i) # TagAtom(key2, input, i2)
<1>1. \A key, c, nonce, i : Ks(key, c, nonce, i)[1] = "ks"
  BY DEF Ks
<1>2. \A key, input, i : TagAtom(key, input, i)[1] = "tag"
  BY DEF TagAtom
<1>3. Plain[1] = "b"
  BY DEF Plain
<1>4. "ks" # "tag" /\ "ks" # "b" /\ "tag" # "b"
  OBVIOUS
<1> QED
  BY <1>1, <1>2, <1>3, <1>4

(* What exclusive or takes away and leaves.                                *)
LEMMA XorIs ==
    ASSUME NEW a, NEW b
    PROVE  /\ Box!Xor(Box!Xor(a, b), b) = a
           /\ Box!Xor(Box!Xor(a, b), a) = b
           /\ Box!Xor({}, b) = b
<1>1. \A x : x \in Box!Xor(Box!Xor(a, b), b) <=> x \in a
  BY DEF Box!Xor
<1>2. \A x : x \in Box!Xor(Box!Xor(a, b), a) <=> x \in b
  BY DEF Box!Xor
<1>3. \A x : x \in Box!Xor({}, b) <=> x \in b
  BY DEF Box!Xor
<1> QED
  BY <1>1, <1>2, <1>3

(* A padded sequence: the data, then as many zeros as their number asks    *)
(* for.                                                                    *)
Pads(n) == (PAD - (n % PAD)) % PAD
PaddedLen(n) == n + Pads(n)
EndsPadded(S, q, s) ==
    /\ q \in Seq(S) /\ Len(q) = PaddedLen(Len(s)) /\ PaddedLen(Len(s)) \in Nat
    /\ Len(s) \in Nat /\ Len(s) <= PaddedLen(Len(s))
    /\ \A i \in 1 .. Len(s) : q[i] = s[i]

(* append_padded makes one.                                                *)
LEMMA PadIs ==
    ASSUME NEW S, {} \in S, NEW s \in Seq(S)
    PROVE  EndsPadded(S, Box!append_padded(s), s)
<1> DEFINE k == Pads(Len(s))
           z == [i \in 1 .. k |-> {}]
<1>1. PAD \in Nat \ {0} /\ Len(s) \in Nat
  BY BoxAssumption
<1>2. Len(s) % PAD \in 0 .. PAD - 1
  BY <1>1
<1>3. k \in Nat
  <2>1. \A x \in Int : x % PAD \in Nat
    BY <1>1
  <2> QED
    BY <1>1, <1>2, <2>1 DEF Pads
<1>4. Box!append_padded(s) = s \o z
  BY DEF Box!append_padded, Box!Zero, Pads
<1> HIDE DEF k
<1>5. z \in Seq(S) /\ Len(z) = k
  BY <1>3
<1> HIDE DEF z
<1>6. /\ s \o z \in Seq(S) /\ Len(s \o z) = Len(s) + k
      /\ \A i \in 1 .. Len(s) : (s \o z)[i] = s[i]
  BY <1>5, Concat
<1> QED
  BY <1>1, <1>3, <1>4, <1>6 DEF k, EndsPadded, PaddedLen

(* A sequence of one element after another.                                *)
LEMMA ConcatOne ==
    ASSUME NEW S, NEW s \in Seq(S), NEW t \in Seq(S), NEW n, n = Len(s)
    PROVE  Len(t) = 1 => /\ s \o t \in Seq(S) /\ Len(s \o t) = n + 1
                         /\ \A i \in 1 .. n : (s \o t)[i] = s[i]
                         /\ (s \o t)[n + 1] = t[1]
<1> DEFINE m == Len(t)
<1> HIDE DEF m
<1>1. m = Len(t)
  BY DEF m
<1>2. /\ n \in Nat /\ s \o t \in Seq(S) /\ Len(s \o t) = n + m
      /\ \A i \in 1 .. n : (s \o t)[i] = s[i]
      /\ \A i \in 1 .. m : (s \o t)[n + i] = t[i]
  BY <1>1, Concat
<1>3. Len(t) = 1 => m = 1
  BY <1>1
<1> QED
  BY <1>2, <1>3

(* The input of the MAC in its parts.                                      *)
IsInput(S, u, a, c, x, y) ==
    /\ x \in Nat /\ y \in Nat /\ Len(a) <= x /\ Len(c) <= y
    /\ u \in Seq(S) /\ Len(u) = x + y + 2
    /\ u[x + y + 1] = Length(Len(a)) /\ u[x + y + 2] = Length(Len(c))
    /\ \A i \in 1 .. Len(a) : u[i] = a[i]
    /\ \A i \in 1 .. Len(c) : u[x + i] = c[i]

(* build_mac_input makes it.                                               *)
LEMMA InputIs ==
    ASSUME NEW S, {} \in S, \A n \in Nat : Length(n) \in S,
           NEW a \in Seq(S), NEW c \in Seq(S)
    PROVE  IsInput(S, Box!build_mac_input(a, c), a, c, PaddedLen(Len(a)), PaddedLen(Len(c)))
<1> DEFINE x == PaddedLen(Len(a))
           y == PaddedLen(Len(c))
           p == Box!append_padded(a)
           q == Box!append_padded(c)
           v == <<Length(Len(a))>>
           w == <<Length(Len(c))>>
<1>1. /\ p \in Seq(S) /\ Len(p) = x /\ x \in Nat /\ Len(a) <= x
      /\ \A i \in 1 .. Len(a) : p[i] = a[i]
  BY PadIs DEF EndsPadded
<1>2. /\ q \in Seq(S) /\ Len(q) = y /\ y \in Nat /\ Len(c) <= y
      /\ \A i \in 1 .. Len(c) : q[i] = c[i]
  BY PadIs DEF EndsPadded
<1>3. Len(a) \in Nat /\ Len(c) \in Nat
  OBVIOUS
<1>4. /\ v \in Seq(S) /\ Len(v) = 1 /\ v[1] = Length(Len(a))
      /\ w \in Seq(S) /\ Len(w) = 1 /\ w[1] = Length(Len(c))
  BY <1>3
<1>5. Box!build_mac_input(a, c) = ((p \o q) \o v) \o w
  BY DEF Box!build_mac_input, Box!append_le64, Length
<1> HIDE DEF x, y, p, q, v, w
<1> DEFINE f == p \o q
<1>6. /\ f \in Seq(S) /\ Len(f) = x + y
      /\ \A i \in 1 .. x : f[i] = p[i]
      /\ \A i \in 1 .. y : f[x + i] = q[i]
  <2>1. p \in Seq(S) /\ q \in Seq(S) /\ x = Len(p) /\ y = Len(q)
    BY <1>1, <1>2
  <2> QED
    BY <2>1, Concat
<1> HIDE DEF f
<1> DEFINE g == f \o v
<1>7. /\ g \in Seq(S) /\ Len(g) = x + y + 1
      /\ \A i \in 1 .. x + y : g[i] = f[i]
      /\ g[x + y + 1] = v[1]
  <2>1. x + y \in Nat /\ 1 \in 1 .. 1
    BY <1>1, <1>2
  <2> DEFINE n == x + y
  <2> HIDE DEF n
  <2>2. n = Len(f) /\ 1 = Len(v) /\ f \in Seq(S) /\ v \in Seq(S) /\ 1 \in 1 .. 1
    BY <1>4, <1>6 DEF n
  <2>3. /\ f \o v \in Seq(S) /\ Len(f \o v) = n + 1
        /\ \A i \in 1 .. n : (f \o v)[i] = f[i]
        /\ (f \o v)[n + 1] = v[1]
    BY <1>4, <2>2, ConcatOne
  <2> QED
    BY <2>1, <2>3 DEF n
<1> HIDE DEF g
<1> DEFINE u == g \o w
<1>8. /\ u \in Seq(S) /\ Len(u) = x + y + 2
      /\ \A i \in 1 .. x + y + 1 : u[i] = g[i]
      /\ u[(x + y + 1) + 1] = w[1]
  <2>1. x + y + 1 \in Nat /\ 1 \in 1 .. 1
    BY <1>1, <1>2
  <2> DEFINE n == x + y + 1
  <2> HIDE DEF n
  <2>2. n = Len(g) /\ 1 = Len(w) /\ g \in Seq(S) /\ w \in Seq(S) /\ 1 \in 1 .. 1
    BY <1>4, <1>7 DEF n
  <2>3. /\ g \o w \in Seq(S) /\ Len(g \o w) = n + 1
        /\ \A i \in 1 .. n : (g \o w)[i] = g[i]
        /\ (g \o w)[n + 1] = w[1]
    BY <1>4, <2>2, ConcatOne
  <2>4. n + 1 = x + y + 2
    BY <1>1, <1>2 DEF n
  <2> QED
    BY <2>1, <2>3, <2>4 DEF n
<1> HIDE DEF u
<1>9. x + y + 1 \in 1 .. x + y + 1 /\ (x + y + 1) + 1 = x + y + 2
  BY <1>1, <1>2
<1>10. u[x + y + 1] = Length(Len(a)) /\ u[x + y + 2] = Length(Len(c))
  BY <1>4, <1>7, <1>8, <1>9
<1>11. ASSUME NEW i \in 1 .. Len(a) PROVE u[i] = a[i]
  <2>1. i \in 1 .. x /\ i \in 1 .. x + y /\ i \in 1 .. x + y + 1
    BY <1>1, <1>2, <1>3
  <2> QED
    BY <2>1, <1>1, <1>6, <1>7, <1>8
<1>12. ASSUME NEW i \in 1 .. Len(c) PROVE u[x + i] = c[i]
  <2>1. i \in 1 .. y /\ x + i \in 1 .. x + y /\ x + i \in 1 .. x + y + 1
    BY <1>1, <1>2, <1>3
  <2> QED
    BY <2>1, <1>2, <1>6, <1>7, <1>8
<1>13. Box!build_mac_input(a, c) = u
  BY <1>5 DEF u, g, f
<1> QED
  BY <1>1, <1>2, <1>8, <1>10, <1>11, <1>12, <1>13 DEF IsInput, x, y

(* Different data or ciphertexts make different inputs of the MAC.         *)
LEMMA InputsDiffer ==
    ASSUME NEW S, {} \in S, \A n \in Nat : Length(n) \in S,
           NEW a \in Seq(S), NEW c \in Seq(S), NEW b \in Seq(S), NEW d \in Seq(S),
           Box!build_mac_input(a, c) = Box!build_mac_input(b, d)
    PROVE  a = b /\ c = d
<1> DEFINE x == PaddedLen(Len(a))
           y == PaddedLen(Len(c))
           x2 == PaddedLen(Len(b))
           y2 == PaddedLen(Len(d))
           u == Box!build_mac_input(a, c)
<1>1. IsInput(S, u, a, c, x, y)
  BY InputIs
<1>2. IsInput(S, u, b, d, x2, y2)
  BY InputIs
<1> HIDE DEF u
<1>3. Length(Len(a)) = Length(Len(b)) /\ Length(Len(c)) = Length(Len(d))
  <2> HIDE DEF x, y, x2, y2
  <2>1. x + y + 1 = x2 + y2 + 1 /\ x + y + 2 = x2 + y2 + 2
    BY <1>1, <1>2 DEF IsInput
  <2> QED
    BY <2>1, <1>1, <1>2 DEF IsInput
<1>4. Len(a) = Len(b) /\ Len(c) = Len(d)
  BY <1>3, AtomsDiffer
<1>5. x = x2
  BY <1>4
<1> HIDE DEF x, y, x2, y2
<1>6. \A i \in 1 .. Len(a) : a[i] = b[i]
  BY <1>1, <1>2, <1>4 DEF IsInput
<1>7. \A i \in 1 .. Len(c) : c[i] = d[i]
  BY <1>1, <1>2, <1>4, <1>5 DEF IsInput
<1> QED
  BY <1>4, <1>6, <1>7, SeqEqual

(* Where position i of a message meets the keystream.                      *)
Counter(c, i) == (c + ((i - 1) \div KSBLOCK)) % COUNTERS
Place(i) == (i - 1) % KSBLOCK
KsAt(key, c, nonce, i) == Ks(key, Counter(c, i), nonce, Place(i))

(* The bytes that occur: they have the zeros, the lengths and the          *)
(* keystream, and the exclusive or of every two.                           *)
Cells(S, key, nonce) ==
    /\ {} \in S /\ {Plain} \in S
    /\ \A n \in Nat : Length(n) \in S
    /\ \A x, y \in Nat : {Ks(key, x, nonce, y)} \in S
    /\ \A a, b \in S : Box!Xor(a, b) \in S

(* Counters and places are numbers.                                        *)
LEMMA PlacesAre ==
    ASSUME NEW c \in Nat, NEW i \in Nat \ {0}
    PROVE  Counter(c, i) \in Nat /\ Place(i) \in Nat
<1>1. KSBLOCK \in Nat \ {0} /\ COUNTERS \in Nat \ {0}
  BY BoxAssumption
<1>2. \A b \in Nat \ {0}, x \in Nat : x % b \in Nat /\ x \div b \in Nat
  <2> SUFFICES ASSUME NEW b \in Nat \ {0}, NEW x \in Nat PROVE x % b \in Nat /\ x \div b \in Nat
    OBVIOUS
  <2>1. x % b \in Nat
    OBVIOUS
  <2>2. x \div b \in Int /\ x = b * (x \div b) + (x % b) /\ x % b \in 0 .. b - 1
    OBVIOUS
  <2> DEFINE q == x \div b
  <2>3. ~(q < 0)
    <3> SUFFICES ASSUME q < 0 PROVE FALSE
      OBVIOUS
    <3>1. q \in Int
      BY <2>2
    <3> HIDE DEF q
    <3>2. q * b + b <= 0 * b /\ q * b \in Int
      BY <3>1, Multiples
    <3>3. 0 * b = 0 /\ b * q = q * b
      BY <3>1
    <3>4. x = b * q + (x % b)
      BY <2>2 DEF q
    <3> QED
      BY <2>2, <3>2, <3>3, <3>4
  <2> QED
    BY <2>1, <2>2, <2>3
<1>3. i - 1 \in Nat
  OBVIOUS
<1>4. (i - 1) \div KSBLOCK \in Nat /\ (i - 1) % KSBLOCK \in Nat
  BY <1>1, <1>2, <1>3
<1>5. c + ((i - 1) \div KSBLOCK) \in Nat
  BY <1>4
<1> QED
  BY <1>1, <1>2, <1>4, <1>5 DEF Counter, Place

(* apply_keystream adds the keystream of its place to every byte.          *)
IsStream(S, key, c, nonce, q, s) ==
    /\ q \in Seq(S) /\ Len(q) = Len(s)
    /\ \A i \in 1 .. Len(s) : q[i] = Box!Xor(s[i], {KsAt(key, c, nonce, i)})

(* That is what it makes.                                                  *)
LEMMA StreamIs ==
    ASSUME NEW S, NEW key, NEW nonce, Cells(S, key, nonce), NEW c \in Nat, NEW s \in Seq(S)
    PROVE  IsStream(S, key, c, nonce, Box!apply_keystream(key, c, nonce, s), s)
<1> DEFINE e(i) == Box!Xor(s[i], {KsAt(key, c, nonce, i)})
           q == [i \in 1 .. Len(s) |-> e(i)]
<1>1. Len(s) \in Nat
  OBVIOUS
<1>2. Box!apply_keystream(key, c, nonce, s) = q
  BY DEF Box!apply_keystream, Box!block, KsAt, Ks, Counter, Place
<1>3. ASSUME NEW i \in 1 .. Len(s) PROVE e(i) \in S
  <2>1. i \in Nat \ {0} /\ s[i] \in S
    OBVIOUS
  <2>2. Counter(c, i) \in Nat /\ Place(i) \in Nat
    BY <2>1, PlacesAre
  <2>3. {KsAt(key, c, nonce, i)} \in S
    BY <2>2 DEF Cells, KsAt
  <2> QED
    BY <2>1, <2>3 DEF Cells
<1> HIDE DEF e
<1>4. q \in Seq(S) /\ Len(q) = Len(s) /\ \A i \in 1 .. Len(s) : q[i] = e(i)
  BY <1>1, <1>3
<1> HIDE DEF q
<1> QED
  BY <1>2, <1>4 DEF IsStream, e

(* No two bytes of a message meet one position of the keystream, and none  *)
(* meets the first block.                                                  *)
LEMMA PlacesDiffer ==
    ASSUME NEW n \in Nat, n <= (COUNTERS - 1) * KSBLOCK, NEW i \in 1 .. n
    PROVE  /\ Counter(1, i) # 0
           /\ \A k \in 1 .. n : Counter(1, i) = Counter(1, k) /\ Place(i) = Place(k) => i = k
<1>1. KSBLOCK \in Nat \ {0} /\ COUNTERS \in Nat \ {0, 1}
  BY BoxAssumption
<1> DEFINE Q(j) == (j - 1) \div KSBLOCK
           top == COUNTERS - 1
<1>2. ASSUME NEW j \in 1 .. n
      PROVE  /\ Q(j) \in Nat /\ Place(j) \in Nat /\ j = Q(j) * KSBLOCK + Place(j) + 1
             /\ Counter(1, j) = Q(j) + 1
  <2>1. j - 1 \in Nat /\ j - 1 < n
    OBVIOUS
  <2>2. Q(j) \in Int /\ Place(j) \in 0 .. KSBLOCK - 1 /\ j - 1 = KSBLOCK * Q(j) + Place(j)
    BY <1>1, <2>1 DEF Place
  <2>3. Counter(1, j) = (1 + Q(j)) % COUNTERS
    BY DEF Counter
  <2>4. top \in Nat /\ n <= top * KSBLOCK
    BY <1>1
  <2> HIDE DEF top
  <2> DEFINE r == Place(j)
             q == Q(j)
  <2> HIDE DEF Q, r, q
  <2>5. q \in Int /\ r \in 0 .. KSBLOCK - 1 /\ j - 1 = q * KSBLOCK + r
    BY <1>1, <2>2 DEF r, q
  <2>6. ~(q < 0)
    <3> SUFFICES ASSUME q < 0 PROVE FALSE
      OBVIOUS
    <3>1. q * KSBLOCK + KSBLOCK <= 0 * KSBLOCK /\ q * KSBLOCK \in Int /\ 0 * KSBLOCK = 0
      BY <1>1, <2>5, Multiples
    <3> QED
      BY <1>1, <2>1, <2>5, <3>1
  <2>7. ~(top <= q)
    <3> SUFFICES ASSUME top <= q PROVE FALSE
      OBVIOUS
    <3>1. top * KSBLOCK <= q * KSBLOCK /\ q * KSBLOCK \in Int /\ top * KSBLOCK \in Int
      BY <1>1, <2>4, <2>5, Multiples
    <3> QED
      BY <1>1, <2>1, <2>4, <2>5, <3>1
  <2>8. q \in Nat /\ 1 + q \in 0 .. COUNTERS - 1
    BY <1>1, <2>5, <2>6, <2>7 DEF top
  <2>9. (1 + q) % COUNTERS = 1 + q
    BY <1>1, <2>8, SmallMod
  <2>10. j = q * KSBLOCK + r + 1
    BY <1>1, <2>5
  <2>11. Counter(1, j) = q + 1
    BY <2>3, <2>8, <2>9 DEF q
  <2> QED
    BY <2>5, <2>8, <2>10, <2>11 DEF q, r
<1> HIDE DEF Q, top
<1>3. Counter(1, i) # 0
  BY <1>2
<1>4. ASSUME NEW k \in 1 .. n, Counter(1, i) = Counter(1, k), Place(i) = Place(k) PROVE i = k
  <2>1. Q(i) = Q(k)
    BY <1>2, <1>4
  <2> QED
    BY <1>2, <1>4, <2>1
<1> QED
  BY <1>3, <1>4

(* There is a set of all the bytes of a message and of a tag.              *)
LEMMA CellsExist ==
    ASSUME NEW key, NEW nonce, NEW k, NEW input
    PROVE  \E S : Cells(S, key, nonce) /\ \A j \in 1 .. TAG : {TagAtom(k, input, j)} \in S
<1> DEFINE S == SUBSET ({Plain} \cup {<<"length", n>> : n \in Nat}
                         \cup {Ks(key, x, nonce, y) : x, y \in Nat}
                         \cup {TagAtom(k, input, j) : j \in 1 .. TAG})
<1>1. \A a, b \in S : Box!Xor(a, b) \in S
  BY DEF Box!Xor
<1>2. {} \in S /\ {Plain} \in S /\ (\A n \in Nat : Length(n) \in S)
  BY DEF Length
<1>3. \A x, y \in Nat : {Ks(key, x, nonce, y)} \in S
  OBVIOUS
<1>4. \A j \in 1 .. TAG : {TagAtom(k, input, j)} \in S
  OBVIOUS
<1> HIDE DEF S
<1>5. Cells(S, key, nonce)
  BY <1>1, <1>2, <1>3 DEF Cells
<1> QED
  BY <1>4, <1>5

(* The MAC key: the first half of the keystream of counter 0.              *)
LEMMA SubkeyIs ==
    ASSUME NEW key, NEW nonce
    PROVE  LET k == Box!subkey(key, nonce)
           IN  /\ 1 \in 1 .. KSBLOCK \div 2
               /\ \A i \in 1 .. KSBLOCK \div 2 :
                    k[i] = {KsAt(key, 0, nonce, i)} /\ Counter(0, i) = 0
<1> DEFINE z == [i \in 1 .. KSBLOCK |-> {}]
           h == KSBLOCK \div 2
           q == Box!apply_keystream(key, 0, nonce, z)
<1>1. KSBLOCK \in Nat \ {0, 1} /\ COUNTERS \in Nat \ {0}
  BY BoxAssumption
<1>2. PICK S : Cells(S, key, nonce)
  BY CellsExist
<1>3. z \in Seq(S) /\ Len(z) = KSBLOCK
  BY <1>1, <1>2 DEF Cells
<1>4. h \in 1 .. KSBLOCK
  <2>1. h \in Int /\ KSBLOCK = 2 * h + (KSBLOCK % 2) /\ KSBLOCK % 2 \in 0 .. 1
    BY <1>1
  <2> HIDE DEF h
  <2> QED
    BY <1>1, <2>1
<1>5. Box!subkey(key, nonce) = SubSeq(q, 1, h)
  BY DEF Box!subkey, Box!Zero
<1>6. IsStream(S, key, 0, nonce, q, z)
  BY <1>2, <1>3, StreamIs
<1> HIDE DEF q, h
<1>7. q \in Seq(S) /\ Len(q) = KSBLOCK
  BY <1>3, <1>6 DEF IsStream
<1>8. ASSUME NEW i \in 1 .. h PROVE SubSeq(q, 1, h)[i] = q[i]
  BY <1>1, <1>4, <1>7
<1>9. ASSUME NEW i \in 1 .. h PROVE q[i] = {KsAt(key, 0, nonce, i)} /\ Counter(0, i) = 0
  <2>1. i \in 1 .. KSBLOCK /\ z[i] = {}
    BY <1>1, <1>4
  <2>2. q[i] = Box!Xor({}, {KsAt(key, 0, nonce, i)})
    BY <1>3, <1>6, <2>1 DEF IsStream
  <2>3. (i - 1) \div KSBLOCK = 0
    <3> DEFINE r == i - 1
    <3>1. r \in 0 .. KSBLOCK - 1 /\ r = 0 * KSBLOCK + r /\ 0 \in Int
      BY <1>1, <2>1
    <3> HIDE DEF r
    <3>2. r \div KSBLOCK = 0
      BY <1>1, <3>1, DivMod
    <3> QED
      BY <3>2 DEF r
  <2>4. 0 % COUNTERS = 0
    BY <1>1, SmallMod
  <2>5. Counter(0, i) = 0
    BY <2>3, <2>4 DEF Counter
  <2> QED
    BY <2>2, <2>5, XorIs
<1> QED
  BY <1>4, <1>5, <1>8, <1>9 DEF h

(* Tags are equal only if their keys and inputs are.                       *)
LEMMA MacIs ==
    ASSUME NEW k, NEW input
    PROVE  /\ TAG \in Nat \ {0}
           /\ \A j \in 1 .. TAG : Box!MacOf(k, input)[j] = {TagAtom(k, input, j)}
           /\ \A k2, input2 :
                Box!MacOf(k, input) = Box!MacOf(k2, input2) => k = k2 /\ input = input2
           /\ \A S : (\A j \in 1 .. TAG : {TagAtom(k, input, j)} \in S)
                        => Box!MacOf(k, input) \in Seq(S) /\ Len(Box!MacOf(k, input)) = TAG
<1>1. TAG \in Nat \ {0}
  BY BoxAssumption
<1>2. ASSUME NEW k2, NEW input2
      PROVE  \A j \in 1 .. TAG : Box!MacOf(k2, input2)[j] = {TagAtom(k2, input2, j)}
  BY DEF Box!MacOf, TagAtom
<1>3. ASSUME NEW k2, NEW input2, Box!MacOf(k, input) = Box!MacOf(k2, input2)
      PROVE  k = k2 /\ input = input2
  <2>1. 1 \in 1 .. TAG
    BY <1>1
  <2>2. {TagAtom(k, input, 1)} = {TagAtom(k2, input2, 1)}
    BY <1>2, <1>3, <2>1
  <2>3. TagAtom(k, input, 1) \in {TagAtom(k2, input2, 1)}
    BY <2>2
  <2>4. TagAtom(k, input, 1) = TagAtom(k2, input2, 1)
    BY <2>3
  <2> QED
    BY <2>4, AtomsDiffer
<1>4. ASSUME NEW S, \A j \in 1 .. TAG : {TagAtom(k, input, j)} \in S
      PROVE  Box!MacOf(k, input) \in Seq(S) /\ Len(Box!MacOf(k, input)) = TAG
  <2> DEFINE e(j) == {TagAtom(k, input, j)}
             q == [j \in 1 .. TAG |-> e(j)]
  <2>1. Box!MacOf(k, input) = q
    BY DEF Box!MacOf, TagAtom
  <2>2. \A j \in 1 .. TAG : e(j) \in S
    BY <1>4
  <2> HIDE DEF e
  <2>3. q \in Seq(S) /\ Len(q) = TAG
    BY <1>1, <2>2
  <2> QED
    BY <2>1, <2>3
<1> QED
  BY <1>1, <1>2, <1>3, <1>4

(* The box b of ciphertext x opens if its tag y is the right one.          *)
Opens(key, nonce, x, y, aad, b) ==
    Box!open(key, nonce, b, aad) =
      IF y = Box!MacOf(Box!subkey(key, nonce), Box!build_mac_input(aad, x))
      THEN Box!decrypt(key, nonce, x)
      ELSE Box!Refused

(* open of a ciphertext and a tag.                                         *)
LEMMA OpenIs ==
    ASSUME NEW S, NEW x \in Seq(S), NEW y \in Seq(S), NEW n, n = Len(y),
           NEW key, NEW nonce, NEW aad
    PROVE  n = TAG => Opens(key, nonce, x, y, aad, x \o y)
<1> DEFINE b == x \o y
           l == Len(x)
<1> HIDE DEF l
<1>1. /\ l = Len(x) /\ l \in Nat /\ n \in Nat /\ b \in Seq(S) /\ Len(b) = l + n
      /\ \A i \in 1 .. l : b[i] = x[i]
      /\ \A i \in 1 .. n : b[l + i] = y[i]
  <2>1. l = Len(x)
    BY DEF l
  <2> QED
    BY <2>1, Concat
<1> HIDE DEF b
<1> DEFINE p == SubSeq(b, 0 + 1, 0 + l)
           q == SubSeq(b, l + 1, l + n)
<1>2. p \in Seq(S) /\ Len(p) = l /\ \A i \in 1 .. l : p[i] = b[0 + i]
  <2>1. 0 \in Nat /\ 0 + l <= Len(b)
    BY <1>1
  <2> QED
    BY <1>1, <2>1, Slice
<1>3. q \in Seq(S) /\ Len(q) = n /\ \A i \in 1 .. n : q[i] = b[l + i]
  BY <1>1, Slice
<1>4. p = x
  <2> HIDE DEF p
  <2>1. \A i \in 1 .. l : p[i] = x[i]
    BY <1>1, <1>2
  <2> QED
    BY <1>1, <1>2, <2>1, SeqEqual
<1>5. q = y
  <2> HIDE DEF q
  <2>1. \A i \in 1 .. n : q[i] = y[i]
    BY <1>1, <1>3
  <2> QED
    BY <1>3, <2>1, SeqEqual
<1> SUFFICES ASSUME n = TAG
             PROVE  Opens(key, nonce, x, y, aad, b)
  BY DEF b
<1>6. Len(b) - TAG = 0 + l /\ Len(b) - TAG + 1 = l + 1 /\ Len(b) = l + n /\ 1 = 0 + 1
      /\ ~(Len(b) < TAG)
  BY <1>1
<1>7. SubSeq(b, 1, Len(b) - TAG) = x /\ SubSeq(b, Len(b) - TAG + 1, Len(b)) = y
  BY <1>4, <1>5, <1>6
<1> HIDE DEF p, q
<1> QED
  BY <1>6, <1>7 DEF Box!open, Opens

(* The last byte may be that of a tag.                                     *)
EndsTag(b) == \E k, input : b[Len(b)] = {TagAtom(k, input, TAG)}

(* What is too short, or does not end with the end of a tag, is refused.   *)
LEMMA EndRefused ==
    ASSUME NEW S, NEW b \in Seq(S), NEW key, NEW nonce, NEW aad,
           Len(b) < TAG \/ ~EndsTag(b)
    PROVE  Box!open(key, nonce, b, aad) = Box!Refused
<1>1. CASE Len(b) < TAG
  BY <1>1 DEF Box!open
<1>2. CASE ~(Len(b) < TAG) /\ ~EndsTag(b)
  <2> DEFINE l == Len(b) - TAG
             q == SubSeq(b, l + 1, l + TAG)
             x == SubSeq(b, 1, l)
  <2>1. TAG \in Nat \ {0}
    BY MacIs
  <2>2. l \in Nat /\ l + TAG = Len(b) /\ TAG \in 1 .. TAG
    BY <1>2, <2>1
  <2> HIDE DEF l
  <2>3. q[TAG] = b[Len(b)]
    <3>1. TAG \in Nat /\ l + TAG <= Len(b)
      BY <2>1, <2>2
    <3>2. \A i \in 1 .. TAG : q[i] = b[l + i]
      BY <2>2, <3>1, Slice
    <3> QED
      BY <2>2, <3>2
  <2>4. Box!MacOf(Box!subkey(key, nonce), Box!build_mac_input(aad, x)) # q
    <3> HIDE DEF q, x
    <3> QED
      BY <1>2, <2>2, <2>3, MacIs DEF EndsTag
  <2>5. x = SubSeq(b, 1, Len(b) - TAG) /\ q = SubSeq(b, Len(b) - TAG + 1, Len(b))
    BY <2>2 DEF l
  <2> HIDE DEF q, x
  <2> QED
    BY <2>4, <2>5 DEF Box!open
<1> QED
  BY <1>1, <1>2

(* What seal makes: a ciphertext and its tag, of bytes of one set S.       *)
IsSealed(S, key, nonce, m, aad, c, t) ==
    /\ Cells(S, key, nonce)
    /\ m \in Seq(S) /\ aad \in Seq(S)
    /\ Box!seal(key, nonce, m, aad) = c \o t
    /\ IsStream(S, key, 1, nonce, c, m)
    /\ t \in Seq(S) /\ Len(t) = TAG /\ TAG \in Nat \ {0}
    /\ t = Box!MacOf(Box!subkey(key, nonce), Box!build_mac_input(aad, c))
    /\ \A i \in 1 .. Len(m) : m[i] \subseteq {Plain}

(* There is such a set, for plain bytes.                                   *)
LEMMA SealIs ==
    ASSUME NEW key, NEW nonce, NEW m \in Plaintexts, NEW aad \in Associated, NEW other \in Associated
    PROVE  \E S, c, t : IsSealed(S, key, nonce, m, aad, c, t) /\ other \in Seq(S)
<1> DEFINE c == Box!encrypt(key, nonce, m)
           k == Box!subkey(key, nonce)
           input == Box!build_mac_input(aad, c)
           t == Box!MacOf(k, input)
<1>1. PICK S : Cells(S, key, nonce) /\ \A j \in 1 .. TAG : {TagAtom(k, input, j)} \in S
  BY CellsExist
<1>2. m \in Seq(SUBSET {Plain}) /\ aad \in Seq(SUBSET {Plain}) /\ other \in Seq(SUBSET {Plain})
  BY BoxAssumption DEF Plain
<1>3. SUBSET {Plain} \subseteq S
  <2>1. {} \in S /\ {Plain} \in S
    BY <1>1 DEF Cells
  <2>2. ASSUME NEW p \in SUBSET {Plain} PROVE p = {} \/ p = {Plain}
    OBVIOUS
  <2> QED
    BY <2>1, <2>2
<1>4. m \in Seq(S) /\ aad \in Seq(S) /\ other \in Seq(S)
  BY <1>2, <1>3, SeqMonotonic
<1>5. c = Box!apply_keystream(key, 1, nonce, m)
  BY DEF Box!encrypt
<1>6. Box!seal(key, nonce, m, aad) = c \o t
  BY DEF Box!seal
<1> HIDE DEF c, input, k
<1>7. IsStream(S, key, 1, nonce, c, m)
  BY <1>1, <1>4, <1>5, StreamIs
<1>8. t \in Seq(S) /\ Len(t) = TAG /\ TAG \in Nat \ {0}
  BY <1>1, MacIs
<1>9. \A i \in 1 .. Len(m) : m[i] \subseteq {Plain}
  BY <1>2
<1>10. t = Box!MacOf(Box!subkey(key, nonce), Box!build_mac_input(aad, c))
  BY DEF k, input
<1> HIDE DEF t
<1>11. IsSealed(S, key, nonce, m, aad, c, t)
  BY <1>1, <1>4, <1>6, <1>7, <1>8, <1>9, <1>10 DEF IsSealed
<1> QED
  BY <1>4, <1>11

(* The bytes of a sealed box.                                              *)
HasBytes(S, key, nonce, m, aad, c, t, b) ==
    /\ c \in Seq(S) /\ Len(c) = Len(m) /\ Len(m) \in Nat
    /\ b \in Seq(S) /\ Len(b) = Len(m) + TAG
    /\ \A i \in 1 .. Len(m) : b[i] = c[i] /\ c[i] = Box!Xor(m[i], {KsAt(key, 1, nonce, i)})
    /\ \A j \in 1 .. TAG :
         /\ b[Len(m) + j] = t[j]
         /\ t[j] = {TagAtom(Box!subkey(key, nonce), Box!build_mac_input(aad, c), j)}

(* They are those of the ciphertext and of the tag.                        *)
LEMMA SealedBytes ==
    ASSUME NEW S, NEW key, NEW nonce, NEW m, NEW aad, NEW c, NEW t,
           IsSealed(S, key, nonce, m, aad, c, t)
    PROVE  HasBytes(S, key, nonce, m, aad, c, t, c \o t)
<1> DEFINE l == Len(m)
           b == c \o t
           n == TAG
<1> HIDE DEF l, n
<1>1. c \in Seq(S) /\ t \in Seq(S) /\ l = Len(c) /\ n = Len(t)
  BY DEF IsSealed, IsStream, l, n
<1>2. /\ l \in Nat /\ b \in Seq(S) /\ Len(b) = l + n
      /\ \A i \in 1 .. l : b[i] = c[i]
      /\ \A j \in 1 .. n : b[l + j] = t[j]
  BY <1>1, Concat
<1> HIDE DEF b
<1>3. \A i \in 1 .. l : c[i] = Box!Xor(m[i], {KsAt(key, 1, nonce, i)})
  BY DEF IsSealed, IsStream, l
<1>4. \A j \in 1 .. TAG :
         t[j] = {TagAtom(Box!subkey(key, nonce), Box!build_mac_input(aad, c), j)}
  <2> DEFINE k == Box!subkey(key, nonce)
             input == Box!build_mac_input(aad, c)
  <2>1. t = Box!MacOf(k, input)
    BY DEF IsSealed
  <2> HIDE DEF k, input
  <2>2. \A j \in 1 .. TAG : t[j] = {TagAtom(k, input, j)}
    BY <2>1, MacIs
  <2> QED
    BY <2>2 DEF k, input
<1>5. l = Len(m) /\ n = TAG
  BY DEF l, n
<1> QED
  BY <1>1, <1>2, <1>3, <1>4, <1>5 DEF HasBytes, b

(* What is sealed opens, and no position of the keystream serves twice.    *)
LEMMA SealRight ==
    ASSUME NEW key, NEW nonce, NEW m \in Plaintexts, NEW aad \in Associated
    PROVE  Box!SealIsRight(key, nonce, m, aad)
<1> DEFINE b == Box!seal(key, nonce, m, aad)
           used == [i \in 1 .. Len(m) |-> Box!Xor(b[i], m[i])]
<1>1. PICK S, c, t : IsSealed(S, key, nonce, m, aad, c, t)
  BY SealIs
<1>2. b = c \o t
  BY <1>1 DEF IsSealed
<1> HIDE DEF b
<1>3. /\ c \in Seq(S) /\ Len(c) = Len(m) /\ Len(m) \in Nat
      /\ \A i \in 1 .. Len(m) : b[i] = c[i] /\ c[i] = Box!Xor(m[i], {KsAt(key, 1, nonce, i)})
  <2>1. HasBytes(S, key, nonce, m, aad, c, t, b)
    BY <1>1, <1>2, SealedBytes
  <2> QED
    BY <2>1 DEF HasBytes
<1>4. Box!open(key, nonce, b, aad) = m
  <2> DEFINE n == Len(t)
  <2> HIDE DEF n
  <2>1. t \in Seq(S) /\ n = Len(t) /\ n = TAG
    BY <1>1 DEF IsSealed, n
  <2>2. t = Box!MacOf(Box!subkey(key, nonce), Box!build_mac_input(aad, c))
    BY <1>1 DEF IsSealed
  <2>3. Box!open(key, nonce, c \o t, aad) = Box!decrypt(key, nonce, c)
    <3>1. Opens(key, nonce, c, t, aad, c \o t)
      BY <1>3, <2>1, OpenIs
    <3> QED
      BY <2>2, <3>1 DEF Opens
  <2> DEFINE d == Box!apply_keystream(key, 1, nonce, c)
  <2>4. Box!decrypt(key, nonce, c) = d
    BY DEF Box!decrypt
  <2>5. IsStream(S, key, 1, nonce, d, c)
    BY <1>1, <1>3, StreamIs DEF IsSealed
  <2> HIDE DEF d
  <2>6. d \in Seq(S) /\ Len(d) = Len(m) /\ m \in Seq(S)
    BY <1>1, <1>3, <2>5 DEF IsSealed, IsStream
  <2>7. ASSUME NEW i \in 1 .. Len(m) PROVE d[i] = m[i]
    <3>1. d[i] = Box!Xor(c[i], {KsAt(key, 1, nonce, i)})
      BY <1>3, <2>5 DEF IsStream
    <3>2. c[i] = Box!Xor(m[i], {KsAt(key, 1, nonce, i)})
      BY <1>3
    <3> QED
      BY <3>1, <3>2, XorIs
  <2>8. d = m
    BY <2>6, <2>7, SeqEqual
  <2> QED
    BY <1>2, <2>3, <2>4, <2>8
<1>5. ASSUME NEW i \in 1 .. Len(m) PROVE used[i] = {KsAt(key, 1, nonce, i)}
  <2>1. used[i] = Box!Xor(Box!Xor(m[i], {KsAt(key, 1, nonce, i)}), m[i])
    BY <1>3
  <2> QED
    BY <2>1, XorIs
<1>6. Len(m) <= (COUNTERS - 1) * KSBLOCK
  BY BoxAssumption
<1> HIDE DEF used
<1>7. ASSUME NEW i \in 1 .. Len(m), NEW k \in 1 .. Len(m), i # k PROVE used[i] # used[k]
  <2> SUFFICES ASSUME used[i] = used[k] PROVE FALSE
    OBVIOUS
  <2>1. KsAt(key, 1, nonce, i) \in {KsAt(key, 1, nonce, k)}
    BY <1>5
  <2>2. Counter(1, i) = Counter(1, k) /\ Place(i) = Place(k)
    BY <2>1, AtomsDiffer DEF KsAt
  <2> QED
    BY <1>3, <1>6, <1>7, <2>2, PlacesDiffer
<1>8. ASSUME NEW i \in 1 .. Len(m), NEW k \in 1 .. KSBLOCK \div 2
      PROVE  used[i] # Box!subkey(key, nonce)[k]
  <2> SUFFICES ASSUME used[i] = Box!subkey(key, nonce)[k] PROVE FALSE
    OBVIOUS
  <2>1. Box!subkey(key, nonce)[k] = {KsAt(key, 0, nonce, k)} /\ Counter(0, k) = 0
    BY SubkeyIs
  <2>2. KsAt(key, 1, nonce, i) \in {KsAt(key, 0, nonce, k)}
    BY <1>5, <2>1
  <2>3. Counter(1, i) = Counter(0, k)
    BY <2>2, AtomsDiffer DEF KsAt
  <2>4. Counter(1, i) # 0
    BY <1>3, <1>6, PlacesDiffer
  <2> QED
    BY <2>1, <2>3, <2>4
<1> QED
  BY <1>4, <1>7, <1>8 DEF Box!SealIsRight, b, used

(* A tag was made for another key, associated data or ciphertext.          *)
Differs(k, aad, c, k2, aad2, c2) == k2 # k \/ aad2 # aad \/ c2 # c

(* A sealed box does not open with a tag for another key or input.         *)
LEMMA WrongTag ==
    ASSUME NEW S, NEW key, NEW nonce, NEW m, NEW aad, NEW c, NEW t,
           IsSealed(S, key, nonce, m, aad, c, t),
           NEW key2, NEW nonce2, NEW x \in Seq(S), NEW aad2 \in Seq(S),
           Differs(Box!subkey(key, nonce), aad, c, Box!subkey(key2, nonce2), aad2, x)
    PROVE  Box!open(key2, nonce2, x \o t, aad2) = Box!Refused
<1> DEFINE n == Len(t)
<1> HIDE DEF n
<1>1. n = Len(t) /\ n = TAG /\ t \in Seq(S)
  BY DEF IsSealed, n
<1>2. Opens(key2, nonce2, x, t, aad2, x \o t)
  BY <1>1, OpenIs
<1>3. t # Box!MacOf(Box!subkey(key2, nonce2), Box!build_mac_input(aad2, x))
  <2> SUFFICES ASSUME t = Box!MacOf(Box!subkey(key2, nonce2), Box!build_mac_input(aad2, x))
               PROVE  FALSE
    OBVIOUS
  <2> DEFINE k == Box!subkey(key, nonce)
             input == Box!build_mac_input(aad, c)
             k2 == Box!subkey(key2, nonce2)
             input2 == Box!build_mac_input(aad2, x)
  <2>1. Box!MacOf(k, input) = Box!MacOf(k2, input2)
    BY DEF IsSealed
  <2>2. k = k2 /\ input = input2
    <3> HIDE DEF k, input, k2, input2
    <3> QED
      BY <2>1, MacIs
  <2>3. {} \in S /\ (\A j \in Nat : Length(j) \in S) /\ aad \in Seq(S) /\ c \in Seq(S)
    BY DEF IsSealed, IsStream, Cells
  <2>4. aad = aad2 /\ c = x
    BY <2>2, <2>3, InputsDiffer
  <2> QED
    BY <2>2, <2>4 DEF Differs
<1> QED
  BY <1>2, <1>3 DEF Opens

(* MAC keys of different keys or nonces differ.                            *)
LEMMA SubkeysDiffer ==
    ASSUME NEW key, NEW nonce, NEW key2, NEW nonce2, key # key2 \/ nonce # nonce2
    PROVE  Box!subkey(key2, nonce2) # Box!subkey(key, nonce)
<1> SUFFICES ASSUME Box!subkey(key2, nonce2) = Box!subkey(key, nonce) PROVE FALSE
  OBVIOUS
<1>1. 1 \in 1 .. KSBLOCK \div 2
  BY SubkeyIs
<1>2. Box!subkey(key, nonce)[1] = {KsAt(key, 0, nonce, 1)}
  BY <1>1, SubkeyIs
<1>3. Box!subkey(key2, nonce2)[1] = {KsAt(key2, 0, nonce2, 1)}
  BY <1>1, SubkeyIs
<1>4. KsAt(key, 0, nonce, 1) \in {KsAt(key2, 0, nonce2, 1)}
  BY <1>2, <1>3
<1>5. KsAt(key, 0, nonce, 1) = KsAt(key2, 0, nonce2, 1)
  BY <1>4
<1> QED
  BY <1>5, AtomsDiffer DEF KsAt

(* The byte at n of a sealed box, before its last, does not end a tag.     *)
LEMMA CutEnd ==
    ASSUME NEW S, NEW key, NEW nonce, NEW m, NEW aad, NEW c, NEW t, NEW b,
           IsSealed(S, key, nonce, m, aad, c, t),
           HasBytes(S, key, nonce, m, aad, c, t, b),
           NEW n \in 1 .. Len(b) - 1, NEW k, NEW input
    PROVE  b[n] # {TagAtom(k, input, TAG)}
<1> SUFFICES ASSUME b[n] = {TagAtom(k, input, TAG)} PROVE FALSE
  OBVIOUS
<1>1. TAG \in Nat \ {0} /\ Len(m) \in Nat /\ Len(b) = Len(m) + TAG
  BY DEF IsSealed, HasBytes
<1>2. CASE n <= Len(m)
  <2> DEFINE a == KsAt(key, 1, nonce, n)
  <2>1. n \in 1 .. Len(m)
    BY <1>1, <1>2
  <2>2. b[n] = Box!Xor(m[n], {a}) /\ m[n] \subseteq {Plain}
    BY <2>1 DEF HasBytes, IsSealed
  <2>3. a # Plain /\ a # TagAtom(k, input, TAG)
    BY KindsDiffer DEF KsAt
  <2> HIDE DEF a
  <2>4. a \in Box!Xor(m[n], {a})
    BY <2>2, <2>3 DEF Box!Xor
  <2> QED
    BY <2>2, <2>3, <2>4
<1>3. CASE n > Len(m)
  <2> DEFINE j == n - Len(m)
  <2>1. j \in 1 .. TAG /\ j # TAG /\ n = Len(m) + j
    BY <1>1, <1>3
  <2> HIDE DEF j
  <2> DEFINE k2 == Box!subkey(key, nonce)
             input2 == Box!build_mac_input(aad, c)
  <2>2. b[n] = {TagAtom(k2, input2, j)}
    BY <2>1 DEF HasBytes
  <2> HIDE DEF k2, input2
  <2>3. TagAtom(k2, input2, j) \in {TagAtom(k, input, TAG)}
    BY <2>2
  <2>4. TagAtom(k2, input2, j) = TagAtom(k, input, TAG)
    BY <2>3
  <2> QED
    BY <2>1, <2>4, AtomsDiffer
<1> QED
  BY <1>1, <1>2, <1>3

(* What was cut, or has a byte more, is refused.                           *)
LEMMA CutRefused ==
    ASSUME NEW S, NEW key, NEW nonce, NEW m, NEW aad, NEW c, NEW t, NEW b,
           IsSealed(S, key, nonce, m, aad, c, t),
           HasBytes(S, key, nonce, m, aad, c, t, b)
    PROVE  /\ Box!open(key, nonce, Append(b, {}), aad) = Box!Refused
           /\ \A n \in 0 .. Len(b) - 1 : Box!open(key, nonce, SubSeq(b, 1, n), aad) = Box!Refused
<1>1. b \in Seq(S) /\ {} \in S /\ TAG \in Nat \ {0}
  BY DEF IsSealed, HasBytes, Cells
<1>2. Box!open(key, nonce, Append(b, {}), aad) = Box!Refused
  <2> DEFINE q == Append(b, {})
  <2>1. q \in Seq(S) /\ q[Len(q)] = {}
    BY <1>1
  <2> HIDE DEF q
  <2>2. ~EndsTag(q)
    BY <2>1 DEF EndsTag
  <2>3. Box!open(key, nonce, q, aad) = Box!Refused
    BY <2>1, <2>2, EndRefused
  <2> QED
    BY <2>3 DEF q
<1>3. ASSUME NEW n \in 0 .. Len(b) - 1
      PROVE  Box!open(key, nonce, SubSeq(b, 1, n), aad) = Box!Refused
  <2> DEFINE q == SubSeq(b, 1, n)
  <2>1. q \in Seq(S) /\ Len(q) = n /\ \A i \in 1 .. n : q[i] = b[i]
    BY <1>1
  <2> HIDE DEF q
  <2>2. Len(q) < TAG \/ ~EndsTag(q)
    <3>1. CASE n = 0
      BY <1>1, <2>1, <3>1
    <3>2. CASE n # 0
      <4>1. n \in 1 .. Len(b) - 1 /\ n \in 1 .. n
        BY <1>1, <3>2
      <4>2. q[Len(q)] = b[n]
        BY <2>1, <4>1
      <4> QED
        BY <4>1, <4>2, CutEnd DEF EndsTag
    <3> QED
      BY <3>1, <3>2
  <2>3. Box!open(key, nonce, q, aad) = Box!Refused
    BY <2>1, <2>2, EndRefused
  <2> QED
    BY <2>3 DEF q
<1> QED
  BY <1>2, <1>3

(* A byte with a bit changed is another one.                               *)
LEMMA FlipDiffers ==
    ASSUME NEW a
    PROVE  Box!Xor(a, {Plain}) # a
<1>1. Plain \in Box!Xor(a, {Plain}) <=> Plain \notin a
  BY DEF Box!Xor
<1> QED
  BY <1>1

(* A change in one half of a concatenation changes that half.              *)
ChangesHalf(s, t, l, m, e) ==
    /\ \A i \in 1 .. l : [s \o t EXCEPT ![i] = e] = [s EXCEPT ![i] = e] \o t
    /\ \A i \in 1 .. m : [s \o t EXCEPT ![l + i] = e] = s \o [t EXCEPT ![i] = e]

(* It does, at every place.                                                *)
LEMMA ChangeIn ==
    ASSUME NEW S, NEW s \in Seq(S), NEW t \in Seq(S), NEW l, NEW m, l = Len(s), m = Len(t),
           NEW e \in S
    PROVE  ChangesHalf(s, t, l, m, e)
<1> DEFINE b == s \o t
<1>1. /\ l \in Nat /\ m \in Nat /\ b \in Seq(S) /\ Len(b) = l + m
      /\ \A i \in 1 .. l : b[i] = s[i]
      /\ \A i \in l + 1 .. l + m : b[i] = t[i - l]
  BY Concat
<1> HIDE DEF b
<1>2. ASSUME NEW i \in 1 .. l PROVE [b EXCEPT ![i] = e] = [s EXCEPT ![i] = e] \o t
  <2> DEFINE f == [b EXCEPT ![i] = e]
             p == [s EXCEPT ![i] = e]
             g == p \o t
  <2>1. f \in Seq(S) /\ Len(f) = l + m /\ \A k \in 1 .. l + m : f[k] = IF k = i THEN e ELSE b[k]
    BY <1>1
  <2>2. p \in Seq(S) /\ l = Len(p) /\ \A k \in 1 .. l : p[k] = IF k = i THEN e ELSE s[k]
    BY <1>1
  <2> HIDE DEF f, p
  <2>3. /\ g \in Seq(S) /\ Len(g) = l + m
        /\ \A k \in 1 .. l : g[k] = p[k]
        /\ \A k \in l + 1 .. l + m : g[k] = t[k - l]
    BY <2>2, Concat
  <2> HIDE DEF g
  <2>4. ASSUME NEW k \in 1 .. l + m PROVE f[k] = g[k]
    <3>1. CASE k \in 1 .. l
      BY <1>1, <2>1, <2>2, <2>3, <3>1
    <3>2. CASE k \in l + 1 .. l + m
      <4>1. k # i
        BY <1>1, <3>2
      <4> QED
        BY <1>1, <2>1, <2>3, <3>2, <4>1
    <3> QED
      BY <1>1, <3>1, <3>2
  <2>5. f = g
    BY <2>1, <2>3, <2>4, SeqEqual
  <2> QED
    BY <2>5 DEF f, g, p
<1>3. ASSUME NEW i \in 1 .. m PROVE [b EXCEPT ![l + i] = e] = s \o [t EXCEPT ![i] = e]
  <2> DEFINE f == [b EXCEPT ![l + i] = e]
             p == [t EXCEPT ![i] = e]
             g == s \o p
  <2>1. f \in Seq(S) /\ Len(f) = l + m /\ \A k \in 1 .. l + m : f[k] = IF k = l + i THEN e ELSE b[k]
    BY <1>1
  <2>2. p \in Seq(S) /\ m = Len(p) /\ \A k \in 1 .. m : p[k] = IF k = i THEN e ELSE t[k]
    BY <1>1
  <2> HIDE DEF f, p
  <2>3. /\ g \in Seq(S) /\ Len(g) = l + m
        /\ \A k \in 1 .. l : g[k] = s[k]
        /\ \A k \in l + 1 .. l + m : g[k] = p[k - l]
    BY <2>2, Concat
  <2> HIDE DEF g
  <2>4. ASSUME NEW k \in 1 .. l + m PROVE f[k] = g[k]
    <3>1. CASE k \in 1 .. l
      <4>1. k # l + i
        BY <1>1, <3>1
      <4> QED
        BY <1>1, <2>1, <2>3, <3>1, <4>1
    <3>2. CASE k \in l + 1 .. l + m
      <4> DEFINE j == k - l
      <4>1. j \in 1 .. m /\ (j = i <=> k = l + i)
        BY <1>1, <3>2
      <4>2. g[k] = p[j] /\ b[k] = t[j]
        BY <1>1, <2>3, <3>2
      <4> HIDE DEF j
      <4>3. p[j] = IF j = i THEN e ELSE t[j]
        BY <2>2, <4>1
      <4>4. f[k] = IF k = l + i THEN e ELSE b[k]
        BY <2>1
      <4> QED
        BY <4>1, <4>2, <4>3, <4>4
    <3> QED
      BY <1>1, <3>1, <3>2
  <2>5. f = g
    BY <2>1, <2>3, <2>4, SeqEqual
  <2> QED
    BY <2>5 DEF f, g, p
<1> QED
  BY <1>2, <1>3 DEF b, ChangesHalf

(* A box with a changed bit in byte i is refused.                          *)
FlipIsRefused(key, nonce, b, aad, i) ==
    Box!open(key, nonce, [b EXCEPT ![i] = Box!Xor(b[i], {Plain})], aad) = Box!Refused

(* So it is, with the bit in the ciphertext or in the tag.                 *)
LEMMA FlipRefused ==
    ASSUME NEW S, NEW key, NEW nonce, NEW m, NEW aad, NEW c, NEW t, NEW b,
           IsSealed(S, key, nonce, m, aad, c, t),
           HasBytes(S, key, nonce, m, aad, c, t, b), b = c \o t,
           NEW i \in 1 .. Len(b)
    PROVE  FlipIsRefused(key, nonce, b, aad, i)
<1> SUFFICES Box!open(key, nonce, [b EXCEPT ![i] = Box!Xor(b[i], {Plain})], aad) = Box!Refused
  BY DEF FlipIsRefused
<1> DEFINE e == Box!Xor(b[i], {Plain})
           l == Len(m)
           n == TAG
<1>1. e \in S
  BY DEF IsSealed, HasBytes, Cells
<1>2. c \in Seq(S) /\ t \in Seq(S) /\ l = Len(c) /\ n = Len(t) /\ l \in Nat /\ aad \in Seq(S)
  BY DEF IsSealed, HasBytes
<1>3. n = TAG /\ n \in Nat /\ Len(b) = l + n
  BY DEF IsSealed, HasBytes
<1>4. e # b[i]
  BY FlipDiffers
<1> HIDE DEF e, l, n
<1>5. CASE i \in 1 .. l
  <2> DEFINE x == [c EXCEPT ![i] = e]
  <2>1. b[i] = c[i]
    BY <1>5 DEF HasBytes, l
  <2>2. x \in Seq(S) /\ x # c
    <3>1. x \in Seq(S) /\ x[i] = e
      BY <1>1, <1>2, <1>5
    <3> HIDE DEF x
    <3> QED
      BY <1>4, <2>1, <3>1
  <2>3. [b EXCEPT ![i] = e] = x \o t
    <3>1. ChangesHalf(c, t, l, n, e)
      BY <1>1, <1>2, ChangeIn
    <3> QED
      BY <1>5, <3>1 DEF ChangesHalf
  <2> HIDE DEF x
  <2>4. Box!open(key, nonce, x \o t, aad) = Box!Refused
    <3>1. Differs(Box!subkey(key, nonce), aad, c, Box!subkey(key, nonce), aad, x)
      BY <2>2 DEF Differs
    <3> QED
      BY <1>2, <2>2, <3>1, WrongTag
  <2> QED
    BY <2>3, <2>4 DEF e
<1>6. CASE i \in l + 1 .. l + n
  <2> DEFINE j == i - l
  <2>1. j \in 1 .. n /\ i = l + j
    BY <1>2, <1>3, <1>6
  <2> HIDE DEF j
  <2> DEFINE y == [t EXCEPT ![j] = e]
  <2>2. b[i] = t[j]
    BY <1>3, <2>1 DEF HasBytes, l
  <2>3. y \in Seq(S) /\ n = Len(y) /\ y # t
    <3>1. y \in Seq(S) /\ n = Len(y) /\ y[j] = e
      BY <1>1, <1>2, <2>1
    <3> HIDE DEF y
    <3> QED
      BY <1>4, <2>2, <3>1
  <2>4. [b EXCEPT ![i] = e] = c \o y
    <3>1. ChangesHalf(c, t, l, n, e)
      BY <1>1, <1>2, ChangeIn
    <3> QED
      BY <2>1, <3>1 DEF ChangesHalf
  <2> HIDE DEF y
  <2>5. Opens(key, nonce, c, y, aad, c \o y)
    <3>1. n = TAG => Opens(key, nonce, c, y, aad, c \o y)
      BY <1>2, <2>3, OpenIs
    <3> QED
      BY <1>3, <3>1
  <2>6. y # Box!MacOf(Box!subkey(key, nonce), Box!build_mac_input(aad, c))
    BY <2>3 DEF IsSealed
  <2> QED
    BY <2>4, <2>5, <2>6 DEF Opens, e
<1>7. i \in 1 .. l \/ i \in l + 1 .. l + n
  BY <1>2, <1>3
<1> QED
  BY <1>5, <1>6, <1>7

(* What remains of a concatenation without its first element.              *)
LEMMA TailConcat ==
    ASSUME NEW S, NEW s \in Seq(S), NEW t \in Seq(S), Len(s) > 0
    PROVE  Tail(s \o t) = Tail(s) \o t
<1> DEFINE b == s \o t
           l == Len(s)
           m == Len(t)
<1> HIDE DEF l, m
<1>1. l = Len(s) /\ m = Len(t) /\ l > 0
  BY DEF l, m
<1>2. /\ l \in Nat /\ m \in Nat /\ b \in Seq(S) /\ Len(b) = l + m
      /\ \A i \in 1 .. l : b[i] = s[i]
      /\ \A i \in l + 1 .. l + m : b[i] = t[i - l]
  BY <1>1, Concat
<1> HIDE DEF b
<1> DEFINE p == Tail(s)
           q == Tail(b)
           k == l - 1
<1>3. p \in Seq(S) /\ Len(p) = k /\ \A i \in 1 .. k : p[i] = s[i + 1]
  BY <1>1, <1>2, EmptySeq, HeadTailProperties
<1>4. q \in Seq(S) /\ Len(q) = k + m /\ \A i \in 1 .. k + m : q[i] = b[i + 1]
  <2>1. b # <<>> /\ b \in Seq(S)
    BY <1>1, <1>2, EmptySeq
  <2>2. q \in Seq(S) /\ Len(q) = Len(b) - 1 /\ \A i \in 1 .. Len(q) : q[i] = b[i + 1]
    BY <2>1, HeadTailProperties
  <2> QED
    BY <1>1, <1>2, <2>2
<1>5. k \in Nat /\ k + 1 = l
  BY <1>1, <1>2
<1> HIDE DEF p, q, k
<1> DEFINE g == p \o t
<1>6. /\ g \in Seq(S) /\ Len(g) = k + m
      /\ \A i \in 1 .. k : g[i] = p[i]
      /\ \A i \in k + 1 .. k + m : g[i] = t[i - k]
  <2>1. k = Len(p)
    BY <1>3
  <2> QED
    BY <1>1, <1>3, <2>1, Concat
<1> HIDE DEF g
<1>7. ASSUME NEW i \in 1 .. k + m PROVE q[i] = g[i]
  <2>1. CASE i \in 1 .. k
    <3>1. i + 1 \in 1 .. l
      BY <1>5, <2>1
    <3> QED
      BY <1>2, <1>3, <1>4, <1>6, <2>1, <3>1
  <2>2. CASE i \in k + 1 .. k + m
    <3>1. i + 1 \in l + 1 .. l + m /\ (i + 1) - l = i - k
      BY <1>2, <1>5, <2>2
    <3> QED
      BY <1>2, <1>4, <1>6, <2>2, <3>1
  <2> QED
    BY <1>2, <1>5, <2>1, <2>2
<1>8. q = g
  BY <1>4, <1>6, <1>7, SeqEqual
<1> QED
  BY <1>8 DEF q, g, p, b

(* Bytes moved between the associated data and the ciphertext are refused. *)
LEMMA MoveRefused ==
    ASSUME NEW S, NEW key, NEW nonce, NEW m, NEW aad, NEW c, NEW t, NEW b,
           IsSealed(S, key, nonce, m, aad, c, t),
           HasBytes(S, key, nonce, m, aad, c, t, b), b = c \o t
    PROVE  /\ Len(m) > 0 => Box!open(key, nonce, Tail(b), Append(aad, b[1])) = Box!Refused
           /\ aad # <<>> => Box!open(key, nonce, <<aad[Len(aad)]>> \o b,
                                     SubSeq(aad, 1, Len(aad) - 1)) = Box!Refused
<1>1. c \in Seq(S) /\ t \in Seq(S) /\ aad \in Seq(S) /\ Len(c) = Len(m) /\ b \in Seq(S)
  BY DEF IsSealed, HasBytes
<1>2. ASSUME Len(m) > 0
      PROVE  Box!open(key, nonce, Tail(b), Append(aad, b[1])) = Box!Refused
  <2> DEFINE x == Tail(c)
             a == Append(aad, b[1])
  <2>1. x \in Seq(S) /\ c # <<>>
    BY <1>1, <1>2
  <2>2. Tail(b) = x \o t
    BY <1>1, <1>2, TailConcat
  <2>3. a \in Seq(S) /\ a # aad
    <3>1. Len(b) >= 1
      BY <1>1, <1>2 DEF HasBytes, IsSealed
    <3>2. b[1] \in S
      BY <1>1, <3>1
    <3> DEFINE e == b[1]
    <3> HIDE DEF e
    <3>3. a = Append(aad, e) /\ e \in S
      BY <3>2 DEF e
    <3>4. Append(aad, e) \in Seq(S) /\ Len(Append(aad, e)) = Len(aad) + 1 /\ Len(aad) \in Nat
      BY <1>1, <3>3, AppendProperties
    <3> HIDE DEF a
    <3> QED
      BY <3>3, <3>4
  <2> HIDE DEF x, a
  <2>4. Box!open(key, nonce, x \o t, a) = Box!Refused
    <3>1. Differs(Box!subkey(key, nonce), aad, c, Box!subkey(key, nonce), a, x)
      BY <2>3 DEF Differs
    <3> QED
      BY <2>1, <2>3, <3>1, WrongTag
  <2> QED
    BY <2>2, <2>4 DEF a
<1>3. ASSUME aad # <<>>
      PROVE  Box!open(key, nonce, <<aad[Len(aad)]>> \o b, SubSeq(aad, 1, Len(aad) - 1)) = Box!Refused
  <2> DEFINE w == <<aad[Len(aad)]>>
             x == w \o c
             a == SubSeq(aad, 1, Len(aad) - 1)
  <2>1. Len(aad) \in Nat \ {0}
    BY <1>1, <1>3, EmptySeq
  <2>2. w \in Seq(S)
    BY <1>1, <2>1
  <2>3. a \in Seq(S) /\ Len(a) = Len(aad) - 1
    <3> DEFINE n == Len(aad) - 1
    <3>1. n \in Nat /\ 0 \in Nat /\ 0 + n <= Len(aad) /\ 0 + 1 = 1 /\ 0 + n = n
      BY <2>1
    <3> HIDE DEF n
    <3>2. SubSeq(aad, 0 + 1, 0 + n) \in Seq(S) /\ Len(SubSeq(aad, 0 + 1, 0 + n)) = n
      BY <1>1, <3>1, Slice
    <3> QED
      BY <3>1, <3>2 DEF n
  <2> HIDE DEF w, a
  <2>4. a # aad
    BY <2>1, <2>3
  <2>5. x \in Seq(S) /\ w \o b = x \o t
    <3>1. x \in Seq(S)
      BY <1>1, <2>2, ConcatProperties
    <3>2. (w \o c) \o t = w \o (c \o t)
      BY <1>1, <2>2, ConcatAssociative
    <3> QED
      BY <3>1, <3>2
  <2> HIDE DEF x
  <2>6. Box!open(key, nonce, x \o t, a) = Box!Refused
    <3>1. Differs(Box!subkey(key, nonce), aad, c, Box!subkey(key, nonce), a, x)
      BY <2>4 DEF Differs
    <3> QED
      BY <2>3, <2>5, <3>1, WrongTag
  <2> QED
    BY <2>5, <2>6 DEF w, a
<1> QED
  BY <1>2, <1>3

(* No change of a sealed box, of its key, nonce or associated data opens.  *)
LEMMA ChangesRefused ==
    ASSUME NEW key \in Nat, NEW nonce \in Nat,
           NEW m \in Plaintexts, NEW aad \in Associated, NEW other \in Associated
    PROVE  Box!ChangesAreRefused(key, nonce, m, aad, other)
<1> DEFINE b == Box!seal(key, nonce, m, aad)
<1>1. PICK S, c, t : IsSealed(S, key, nonce, m, aad, c, t) /\ other \in Seq(S)
  BY SealIs
<1>2. b = c \o t
  BY <1>1 DEF IsSealed
<1> HIDE DEF b
<1>3. HasBytes(S, key, nonce, m, aad, c, t, b)
  BY <1>1, <1>2, SealedBytes
<1>4. c \in Seq(S) /\ aad \in Seq(S)
  BY <1>1, <1>3 DEF IsSealed, HasBytes
<1>5. Box!open(key + 1, nonce, b, aad) = Box!Refused
  <2>1. key # key + 1
    OBVIOUS
  <2>2. Differs(Box!subkey(key, nonce), aad, c, Box!subkey(key + 1, nonce), aad, c)
    BY <2>1, SubkeysDiffer DEF Differs
  <2> QED
    BY <1>1, <1>2, <1>4, <2>2, WrongTag
<1>6. Box!open(key, nonce + 1, b, aad) = Box!Refused
  <2>1. nonce # nonce + 1
    OBVIOUS
  <2>2. Differs(Box!subkey(key, nonce), aad, c, Box!subkey(key, nonce + 1), aad, c)
    BY <2>1, SubkeysDiffer DEF Differs
  <2> QED
    BY <1>1, <1>2, <1>4, <2>2, WrongTag
<1>7. ASSUME aad # other PROVE Box!open(key, nonce, b, other) = Box!Refused
  <2>1. Differs(Box!subkey(key, nonce), aad, c, Box!subkey(key, nonce), other, c)
    BY <1>7 DEF Differs
  <2> QED
    BY <1>1, <1>2, <1>4, <2>1, WrongTag
<1>8. /\ Box!open(key, nonce, Append(b, {}), aad) = Box!Refused
      /\ \A n \in 0 .. Len(b) - 1 : Box!open(key, nonce, SubSeq(b, 1, n), aad) = Box!Refused
  BY <1>1, <1>3, CutRefused
<1>9. \A i \in 1 .. Len(b) : FlipIsRefused(key, nonce, b, aad, i)
  BY <1>1, <1>2, <1>3, FlipRefused
<1>10. /\ Len(m) > 0 => Box!open(key, nonce, Tail(b), Append(aad, b[1])) = Box!Refused
       /\ aad # <<>> => Box!open(key, nonce, <<aad[Len(aad)]>> \o b,
                                 SubSeq(aad, 1, Len(aad) - 1)) = Box!Refused
  BY <1>1, <1>2, <1>3, MoveRefused
<1>11. \A i \in 1 .. Len(b) :
         Box!open(key, nonce, [b EXCEPT ![i] = Box!Xor(@, {<<"b">>})], aad) = Box!Refused
  BY <1>9 DEF FlipIsRefused, Plain
<1> QED
  BY <1>5, <1>6, <1>7, <1>8, <1>10, <1>11 DEF Box!ChangesAreRefused, Box!Zero, b

(* open gives back what seal was given and refuses a cut, changed or       *)
(* longer box and one with bytes moved to or from the associated data, and *)
(* no position of the keystream serves twice: for every size of a block,   *)
(* of the counter, of the padding and of a tag, and for all messages that  *)
(* the counter is enough for.                                              *)
THEOREM OpenUndoesSealAlways == Spec => []OpenUndoesSeal
<1>1. CallInv => OpenUndoesSeal
  <2> SUFFICES ASSUME CallInv, Op = "seal"
               PROVE  /\ Box!SealIsRight(1, 1, call[2], call[3])
                      /\ Box!ChangesAreRefused(1, 1, call[2], call[3], call[4])
    BY DEF OpenUndoesSeal
  <2>1. call[2] \in Plaintexts /\ call[3] \in Associated /\ call[4] \in Associated /\ 1 \in Nat
    BY DEF CallInv
  <2> QED
    BY <2>1, SealRight, ChangesRefused
<1> QED
  BY <1>1, CallInvAlways, PTL
=============================================================================
