--------------------------- MODULE SequenceFacts ---------------------------
(***************************************************************************)
(* Induction over the natural numbers, what FlattenSeq returns, and what   *)
(* erased, the erasure from a node's table, leaves of it.  The library's   *)
(* induction theorems take an operator, which the provers cannot           *)
(* instantiate: here induction is about a set, and a recursive function is *)
(* shown to exist before anything is said of its values.                   *)
(***************************************************************************)
EXTENDS PeerTable, SequencesExt, SequenceTheorems, WellFoundedInduction, TLAPS

(* A set of natural numbers that is not empty has a least member.          *)
LEMMA Least ==
    ASSUME NEW T, T \subseteq Nat, T # {}
    PROVE  \E x \in T : \A y \in T : x <= y
<1> DEFINE R == {ss \in Nat \X Nat : ss[1] < ss[2]}
<1>1. IsWellFoundedOn(R, Nat)
  BY NatLessThanWellFounded DEF OpToRel
<1>2. \E x \in T : \A y \in T : ~(<<y, x>> \in R)
  <2> HIDE DEF R
  <2> QED
    BY <1>1, WFMin
<1>3. PICK x \in T : \A y \in T : ~(<<y, x>> \in R)
  BY <1>2
<1>4. \A y \in T : ~(y < x)
  <2> SUFFICES ASSUME NEW y \in T, y < x PROVE FALSE
    OBVIOUS
  <2> <<y, x>> \in R
    OBVIOUS
  <2> QED
    BY <1>3
<1> QED
  BY <1>4

(* Induction: a set that has 0, and n + 1 with n, has every number.        *)
LEMMA Induct ==
    ASSUME NEW S, 0 \in S, \A n \in Nat : n \in S => n + 1 \in S
    PROVE  Nat \subseteq S
<1> SUFFICES ASSUME Nat \ S # {} PROVE FALSE
  OBVIOUS
<1>1. PICK x \in Nat \ S : \A y \in Nat \ S : x <= y
  BY Least
<1>2. x - 1 \in Nat /\ x - 1 \notin Nat \ S
  BY <1>1
<1>3. x - 1 \in S /\ (x - 1) + 1 = x
  BY <1>2
<1> QED
  BY <1>2, <1>3

-----------------------------------------------------------------------------
(* f is the function flatten of FlattenSeq, on the first n sequences.      *)
Flattens(seqs, n, f) ==
    f = [i \in 1 .. n |-> IF i = 1 THEN seqs[i] ELSE f[i - 1] \o seqs[i]]

(* The recursion defines a function.                                       *)
LEMMA FlattensExists ==
    ASSUME NEW seqs, NEW n \in Nat
    PROVE  \E f : Flattens(seqs, n, f)
<1> DEFINE S == {k \in Nat : \E f : Flattens(seqs, k, f)}
<1>1. 0 \in S
  <2>1. Flattens(seqs, 0, [i \in 1 .. 0 |-> <<>>])
    BY DEF Flattens
  <2> QED
    BY <2>1
<1>2. ASSUME NEW k \in Nat, k \in S PROVE k + 1 \in S
  <2>1. PICK f : Flattens(seqs, k, f)
    BY <1>2
  <2> DEFINE new == IF k = 0 THEN seqs[k + 1] ELSE f[k] \o seqs[k + 1]
             g == [i \in 1 .. k + 1 |-> IF i <= k THEN f[i] ELSE new]
             h == [i \in 1 .. k + 1 |-> IF i = 1 THEN seqs[i] ELSE g[i - 1] \o seqs[i]]
  <2>2. \A i \in 1 .. k : f[i] = IF i = 1 THEN seqs[i] ELSE f[i - 1] \o seqs[i]
    BY <2>1 DEF Flattens
  <2>3. ASSUME NEW i \in 1 .. k + 1 PROVE g[i] = h[i]
    <3>1. CASE i = 1 /\ k # 0
      BY <3>1, <2>2
    <3>2. CASE i # 1 /\ i <= k
      <4>1. g[i] = f[i] /\ g[i - 1] = f[i - 1] /\ i \in 1 .. k
        BY <3>2
      <4>2. f[i] = f[i - 1] \o seqs[i]
        BY <4>1, <3>2, <2>2
      <4> QED
        BY <4>1, <4>2, <3>2
    <3>3. CASE i = k + 1 /\ k # 0
      <4>1. i # 1 /\ i - 1 = k /\ k \in 1 .. k + 1 /\ ~(i <= k)
        BY <3>3
      <4>2. g[i] = new /\ g[k] = f[k]
        BY <4>1
      <4>3. new = f[k] \o seqs[k + 1]
        BY <3>3
      <4>4. h[i] = g[k] \o seqs[i]
        <5> HIDE DEF g
        <5> QED
          BY <4>1
      <4> HIDE DEF g, h, new
      <4> QED
        BY <3>3, <4>2, <4>3, <4>4
    <3>4. CASE k = 0
      BY <3>4
    <3> QED
      BY <3>1, <3>2, <3>3, <3>4
  <2>4. g = h
    <3> HIDE DEF new
    <3> QED
      BY <2>3
  <2>5. Flattens(seqs, k + 1, g)
    BY <2>4 DEF Flattens
  <2> QED
    BY <2>5
<1>3. Nat \subseteq S
  <2> HIDE DEF S
  <2> QED
    BY <1>1, <1>2, Induct
<1> QED
  BY <1>3

(* FlattenSeq is the value of such a function at the last sequence.        *)
LEMMA FlattenSeqIs ==
    ASSUME NEW seqs, Len(seqs) \in Nat \ {0}
    PROVE  \E f : Flattens(seqs, Len(seqs), f) /\ FlattenSeq(seqs) = f[Len(seqs)]
<1> DEFINE f == CHOOSE f : Flattens(seqs, Len(seqs), f)
<1>1. Flattens(seqs, Len(seqs), f)
  <2> Len(seqs) \in Nat
    OBVIOUS
  <2> HIDE DEF f
  <2> QED
    BY FlattensExists DEF f
<1>2. FlattenSeq(seqs) = f[Len(seqs)]
  BY DEF FlattenSeq, Flattens
<1> HIDE DEF f
<1> QED
  BY <1>1, <1>2

(* FlattenSeq takes the sequences one after the other.                     *)
LEMMA FlattenCons ==
    \A S, seqs : seqs \in Seq(Seq(S)) /\ Len(seqs) # 0 =>
       /\ FlattenSeq(seqs) \in Seq(S)
       /\ FlattenSeq(Tail(seqs)) \in Seq(S)
       /\ FlattenSeq(seqs) = seqs[1] \o FlattenSeq(Tail(seqs))
<1> TAKE S, seqs
<1> DEFINE Q == Seq(S)
           cat(x, y) == x \o y
<1>0. SUFFICES ASSUME seqs \in Seq(Q), Len(seqs) # 0
               PROVE  /\ FlattenSeq(seqs) \in Q
                      /\ FlattenSeq(Tail(seqs)) \in Q
                      /\ FlattenSeq(seqs) = seqs[1] \o FlattenSeq(Tail(seqs))
  OBVIOUS
<1>8. \A x, y \in Q : cat(x, y) \in Q
  BY ConcatProperties
<1>10. \A x, y, z \in Q : cat(cat(x, y), z) = cat(x, cat(y, z))
  BY ConcatAssociative
<1>9. <<>> \in Q /\ \A x \in Q : x \o <<>> = x
  BY ConcatEmptySeq
<1> HIDE DEF Q
<1>1. PICK n \in Nat \ {0} : n = Len(seqs)
  BY <1>0, LenProperties
<1>2. PICK f : Flattens(seqs, n, f) /\ FlattenSeq(seqs) = f[n]
  BY <1>1, FlattenSeqIs
<1>3. \A i \in 1 .. n : f[i] = IF i = 1 THEN seqs[i] ELSE cat(f[i - 1], seqs[i])
  BY <1>2 DEF Flattens
<1>4. f[1] = seqs[1] /\ \A i \in 1 .. n : seqs[i] \in Q
  BY <1>0, <1>1, <1>3, ElementOfSeq
<1>5. /\ Tail(seqs) \in Seq(Q) /\ Len(Tail(seqs)) = n - 1
      /\ \A i \in 1 .. n - 1 : Tail(seqs)[i] = seqs[i + 1]
  BY <1>0, <1>1, EmptySeq, HeadTailProperties
<1>6. CASE n = 1
  <2>1. Tail(seqs) = <<>>
    <3>1. Tail(seqs) \in Seq(Q) /\ Len(Tail(seqs)) = 0
      BY <1>5, <1>6
    <3> QED
      BY <3>1, EmptySeq
  <2>2. FlattenSeq(Tail(seqs)) = <<>>
    BY <2>1 DEF FlattenSeq
  <2>3. seqs[1] \in Q
    BY <1>4, <1>6
  <2> QED
    BY <1>2, <1>4, <1>6, <1>9, <2>2, <2>3
<1>7. CASE n # 1
  <2>1. PICK m \in Nat \ {0} : m = n - 1
    BY <1>7
  <2> DEFINE t == Tail(seqs)
  <2>2. Len(t) = m /\ n = m + 1 /\ \A i \in 1 .. m : t[i] = seqs[i + 1]
    BY <1>5, <2>1
  <2> HIDE DEF t
  <2>3. PICK g : Flattens(t, m, g) /\ FlattenSeq(t) = g[m]
    BY <2>1, <2>2, FlattenSeqIs
  <2>4. \A i \in 1 .. m : g[i] = IF i = 1 THEN t[i] ELSE cat(g[i - 1], t[i])
    BY <2>3 DEF Flattens
  <2> HIDE DEF cat
  <2> DEFINE K == {k \in Nat : k + 1 <= m => /\ g[k + 1] \in Q
                                             /\ f[k + 2] = cat(seqs[1], g[k + 1])}
  <2>5. 0 \in K
    <3>1. g[1] = seqs[2] /\ f[2] = cat(f[1], seqs[2]) /\ seqs[2] \in Q
      BY <2>1, <2>2, <2>4, <1>3, <1>4
    <3> QED
      BY <3>1, <1>4
  <2>6. ASSUME NEW k \in Nat, k \in K PROVE k + 1 \in K
    <3> SUFFICES ASSUME k + 2 <= m
                 PROVE  g[k + 2] \in Q /\ f[k + 3] = cat(seqs[1], g[k + 2])
      OBVIOUS
    <3>1. g[k + 1] \in Q /\ f[k + 2] = cat(seqs[1], g[k + 1])
      BY <2>6
    <3>2. k + 2 \in 1 .. m /\ k + 2 # 1 /\ (k + 2) - 1 = k + 1
      OBVIOUS
    <3>3. g[k + 2] = cat(g[k + 1], seqs[k + 3])
      BY <3>2, <2>2, <2>4
    <3>4. k + 3 \in 1 .. n /\ k + 3 # 1 /\ (k + 3) - 1 = k + 2
      BY <2>2
    <3>5. f[k + 3] = cat(f[k + 2], seqs[k + 3])
      BY <3>4, <1>3
    <3>6. seqs[k + 3] \in Q /\ seqs[1] \in Q
      BY <3>4, <1>4
    <3>7. cat(cat(seqs[1], g[k + 1]), seqs[k + 3]) = cat(seqs[1], cat(g[k + 1], seqs[k + 3]))
      BY <3>1, <3>6, <1>10
    <3>8. g[k + 2] \in Q
      BY <3>1, <3>3, <3>6, <1>8
    <3>9. f[k + 3] = cat(seqs[1], g[k + 2])
      <4>1. f[k + 3] = cat(cat(seqs[1], g[k + 1]), seqs[k + 3])
        BY <3>1, <3>5
      <4> QED
        BY <4>1, <3>3, <3>7
    <3> QED
      BY <3>8, <3>9
  <2>7. Nat \subseteq K
    <3> HIDE DEF K
    <3> QED
      BY <2>5, <2>6, Induct
  <2>8. m - 1 \in K /\ (m - 1) + 1 = m /\ (m - 1) + 2 = n
    <3> HIDE DEF K
    <3>1. m - 1 \in Nat
      OBVIOUS
    <3>2. n = m + 1
      BY <2>2
    <3> QED
      BY <3>1, <3>2, <2>7
  <2>9. g[m] \in Q /\ f[n] = cat(seqs[1], g[m])
    <3>1. m - 1 + 1 = m /\ m - 1 + 2 = n
      BY <2>8
    <3>2. m - 1 + 1 <= m => /\ g[m - 1 + 1] \in Q
                            /\ f[m - 1 + 2] = cat(seqs[1], g[m - 1 + 1])
      BY <2>8
    <3> QED
      BY <3>1, <3>2
  <2>10. seqs[1] \in Q
    BY <1>1, <1>4
  <2>11. cat(seqs[1], g[m]) \in Q
    BY <2>9, <2>10, <1>8
  <2> QED
    BY <2>3, <2>9, <2>11, <1>2 DEF t, cat
<1> QED
  BY <1>6, <1>7

-----------------------------------------------------------------------------
(* f is the function kept of erased, on the first n entries.               *)
Keeps(peers, raw, n, f) ==
    f = [i \in 0 .. n |->
           IF i = 0 THEN <<>>
           ELSE IF peers[i] = raw THEN f[i - 1] ELSE Append(f[i - 1], peers[i])]

(* The recursion defines a function.                                       *)
LEMMA KeepsExists ==
    ASSUME NEW peers, NEW raw, NEW n \in Nat
    PROVE  \E f : Keeps(peers, raw, n, f)
<1> DEFINE S == {k \in Nat : \E f : Keeps(peers, raw, k, f)}
<1>1. 0 \in S
  <2>1. Keeps(peers, raw, 0, [i \in 0 .. 0 |-> <<>>])
    BY DEF Keeps
  <2> QED
    BY <2>1
<1>2. ASSUME NEW k \in Nat, k \in S PROVE k + 1 \in S
  <2>1. PICK f : Keeps(peers, raw, k, f)
    BY <1>2
  <2> DEFINE new == IF peers[k + 1] = raw THEN f[k] ELSE Append(f[k], peers[k + 1])
             g == [i \in 0 .. k + 1 |-> IF i <= k THEN f[i] ELSE new]
             h == [i \in 0 .. k + 1 |->
                     IF i = 0 THEN <<>>
                     ELSE IF peers[i] = raw THEN g[i - 1] ELSE Append(g[i - 1], peers[i])]
  <2>2. \A i \in 0 .. k :
          f[i] = IF i = 0 THEN <<>>
                 ELSE IF peers[i] = raw THEN f[i - 1] ELSE Append(f[i - 1], peers[i])
    BY <2>1 DEF Keeps
  <2>3. ASSUME NEW i \in 0 .. k + 1 PROVE g[i] = h[i]
    <3>1. CASE i = 0
      BY <3>1, <2>2
    <3>2. CASE i \in 1 .. k
      <4>1. g[i] = f[i] /\ g[i - 1] = f[i - 1] /\ i \in 0 .. k
        BY <3>2
      <4>2. f[i] = IF peers[i] = raw THEN f[i - 1] ELSE Append(f[i - 1], peers[i])
        BY <4>1, <3>2, <2>2
      <4> QED
        BY <4>1, <4>2, <3>2
    <3>3. CASE i = k + 1
      <4>1. g[i] = new /\ g[i - 1] = f[k]
        BY <3>3
      <4> QED
        BY <4>1, <3>3
    <3> QED
      BY <3>1, <3>2, <3>3
  <2>4. g = h
    <3> HIDE DEF new
    <3> QED
      BY <2>3
  <2>5. Keeps(peers, raw, k + 1, g)
    BY <2>4 DEF Keeps
  <2> QED
    BY <2>5
<1>3. Nat \subseteq S
  <2> HIDE DEF S
  <2> QED
    BY <1>1, <1>2, Induct
<1> QED
  BY <1>3

(* erased is the value of such a function at the end of the table.         *)
LEMMA ErasedIsKept ==
    ASSUME NEW S, NEW peers \in Seq(S), NEW raw
    PROVE  \E f : Keeps(peers, raw, Len(peers), f) /\ erased(peers, raw) = f[Len(peers)]
<1> DEFINE f == CHOOSE f : Keeps(peers, raw, Len(peers), f)
<1>1. Keeps(peers, raw, Len(peers), f)
  <2> Len(peers) \in Nat
    BY LenProperties
  <2> HIDE DEF f
  <2> QED
    BY KeepsExists DEF f
<1>2. erased(peers, raw) = f[Len(peers)]
  BY DEF erased, Keeps
<1> HIDE DEF f
<1> QED
  BY <1>1, <1>2

-----------------------------------------------------------------------------
(* t is made of entries among the first k of s, in their order.            *)
InOrder(s, k, t) ==
    \E g \in [DOMAIN t -> 1 .. k] :
       /\ \A i, j \in DOMAIN t : i < j => g[i] < g[j]
       /\ \A j \in DOMAIN t : t[j] = s[g[j]]

(* t is what is left of the first k entries of s when raw is erased.       *)
KeptOf(s, k, raw, t) ==
    /\ ToSet(t) = {s[i] : i \in 1 .. k} \ {raw}
    /\ InOrder(s, k, t)

(* An entry more that is not raw.                                          *)
LEMMA RestAppend ==
    ASSUME NEW S, NEW s \in Seq(S), NEW k \in Nat, k + 1 <= Len(s), NEW raw, s[k + 1] # raw,
           NEW t \in Seq(S), KeptOf(s, k, raw, t)
    PROVE  KeptOf(s, k + 1, raw, Append(t, s[k + 1]))
<1> DEFINE u == Append(t, s[k + 1])
<1>1. Len(t) \in Nat /\ DOMAIN t = 1 .. Len(t) /\ s[k + 1] \in S /\ Len(s) \in Nat
  BY LenProperties, ElementOfSeq
<1>2. /\ DOMAIN u = 1 .. Len(t) + 1
      /\ \A i \in 1 .. Len(t) : u[i] = t[i]
      /\ u[Len(t) + 1] = s[k + 1]
  BY <1>1, AppendProperties, LenProperties
<1>3. PICK g \in [DOMAIN t -> 1 .. k] :
        /\ \A i, j \in DOMAIN t : i < j => g[i] < g[j]
        /\ \A j \in DOMAIN t : t[j] = s[g[j]]
  BY DEF KeptOf, InOrder
<1> HIDE DEF u
<1> DEFINE h == [j \in DOMAIN u |-> IF j <= Len(t) THEN g[j] ELSE k + 1]
<1>4. h \in [DOMAIN u -> 1 .. k + 1]
  BY <1>1, <1>2, <1>3
<1>5. \A i, j \in DOMAIN u : i < j => h[i] < h[j]
  BY <1>1, <1>2, <1>3
<1>6. \A j \in DOMAIN u : u[j] = s[h[j]]
  BY <1>1, <1>2, <1>3
<1>7. InOrder(s, k + 1, u)
  <2> HIDE DEF h
  <2> QED
    BY <1>4, <1>5, <1>6 DEF InOrder
<1>8. ToSet(u) = ToSet(t) \cup {s[k + 1]}
  <2>1. \A i \in DOMAIN u : u[i] \in ToSet(t) \cup {s[k + 1]}
    BY <1>1, <1>2 DEF ToSet
  <2>2. \A x \in ToSet(t) \cup {s[k + 1]} : \E i \in DOMAIN u : u[i] = x
    BY <1>1, <1>2 DEF ToSet
  <2> QED
    BY <2>1, <2>2 DEF ToSet
<1>9. {s[i] : i \in 1 .. k + 1} = {s[i] : i \in 1 .. k} \cup {s[k + 1]}
  OBVIOUS
<1>10. ToSet(u) = {s[i] : i \in 1 .. k + 1} \ {raw}
  BY <1>8, <1>9 DEF KeptOf
<1> QED
  BY <1>7, <1>10 DEF KeptOf, u

(* An entry more that is raw.                                              *)
LEMMA RestSkip ==
    ASSUME NEW S, NEW s \in Seq(S), NEW k \in Nat, k + 1 <= Len(s), NEW raw, s[k + 1] = raw,
           NEW t \in Seq(S), KeptOf(s, k, raw, t)
    PROVE  KeptOf(s, k + 1, raw, t)
<1>1. {s[i] : i \in 1 .. k + 1} = {s[i] : i \in 1 .. k} \cup {s[k + 1]}
  OBVIOUS
<1>2. PICK g \in [DOMAIN t -> 1 .. k] :
        /\ \A i, j \in DOMAIN t : i < j => g[i] < g[j]
        /\ \A j \in DOMAIN t : t[j] = s[g[j]]
  BY DEF KeptOf, InOrder
<1>3. g \in [DOMAIN t -> 1 .. k + 1]
  BY <1>2
<1>4. InOrder(s, k + 1, t)
  BY <1>2, <1>3 DEF InOrder
<1> QED
  BY <1>1, <1>4 DEF KeptOf

(* remove_peer erases the one entry, keeps all the others, and keeps their *)
(* order, whatever is in the table.                                        *)
THEOREM ErasedIsRest ==
    ASSUME NEW S, NEW peers \in Seq(S), NEW raw
    PROVE  /\ erased(peers, raw) \in Seq(S)
           /\ ToSet(erased(peers, raw)) = ToSet(peers) \ {raw}
           /\ InOrder(peers, Len(peers), erased(peers, raw))
<1>1. PICK f : Keeps(peers, raw, Len(peers), f) /\ erased(peers, raw) = f[Len(peers)]
  BY ErasedIsKept
<1>2. Len(peers) \in Nat /\ DOMAIN peers = 1 .. Len(peers)
  BY LenProperties
<1>3. \A i \in 0 .. Len(peers) :
        f[i] = IF i = 0 THEN <<>>
               ELSE IF peers[i] = raw THEN f[i - 1] ELSE Append(f[i - 1], peers[i])
  BY <1>1 DEF Keeps
<1> DEFINE T == {k \in Nat : k <= Len(peers) => f[k] \in Seq(S) /\ KeptOf(peers, k, raw, f[k])}
<1>4. 0 \in T
  <2>1. f[0] = <<>>
    BY <1>2, <1>3
  <2>2. <<>> \in Seq(S) /\ DOMAIN <<>> = {} /\ {peers[i] : i \in 1 .. 0} = {}
    OBVIOUS
  <2>3. ToSet(<<>>) = {}
    BY <2>2 DEF ToSet
  <2>4. [j \in {} |-> 1] \in [DOMAIN <<>> -> 1 .. 0]
    BY <2>2
  <2>5. InOrder(peers, 0, <<>>)
    BY <2>2, <2>4 DEF InOrder
  <2> QED
    BY <2>1, <2>2, <2>3, <2>5 DEF KeptOf
<1>5. ASSUME NEW k \in Nat, k \in T PROVE k + 1 \in T
  <2> SUFFICES ASSUME k + 1 <= Len(peers)
               PROVE  f[k + 1] \in Seq(S) /\ KeptOf(peers, k + 1, raw, f[k + 1])
    OBVIOUS
  <2>1. f[k] \in Seq(S) /\ KeptOf(peers, k, raw, f[k])
    BY <1>2, <1>5
  <2>2. k + 1 \in 0 .. Len(peers) /\ k + 1 # 0 /\ (k + 1) - 1 = k /\ k + 1 \in 1 .. Len(peers)
    BY <1>2
  <2>3. f[k + 1] = IF peers[k + 1] = raw THEN f[k] ELSE Append(f[k], peers[k + 1])
    BY <1>3, <2>2
  <2>4. peers[k + 1] \in S
    BY <2>2, ElementOfSeq
  <2>5. CASE peers[k + 1] = raw
    BY <2>1, <2>3, <2>5, RestSkip
  <2>6. CASE peers[k + 1] # raw
    BY <2>1, <2>3, <2>4, <2>6, RestAppend, AppendProperties
  <2> QED
    BY <2>5, <2>6
<1>6. Len(peers) \in T
  <2> HIDE DEF T
  <2> QED
    BY <1>2, <1>4, <1>5, Induct
<1>7. erased(peers, raw) \in Seq(S) /\ KeptOf(peers, Len(peers), raw, erased(peers, raw))
  BY <1>1, <1>2, <1>6
<1>8. ToSet(peers) = {peers[i] : i \in 1 .. Len(peers)}
  BY <1>2 DEF ToSet
<1> QED
  BY <1>7, <1>8 DEF KeptOf
=============================================================================
