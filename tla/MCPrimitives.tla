---------------------------- MODULE MCPrimitives ----------------------------
(* Inputs of Primitives for TLC: limbs at their edges, multiples of L and  *)
(* their neighbours, all points and encodings of the small curve, messages *)
(* of all lengths over two blocks and more.                                *)
EXTENDS Primitives

MCElements ==
    {a \in (0 .. 15) \X {0, 15} \X {0, 15} \X {0, 15} \X {0, 1, 15} :
       a[1] \in {0, 1, 4, 5, 10, 11, 12, 15} /\ a[2] = a[3] /\ Field!Canonical(a)}
MCScalars ==
    {n \in {k * Scalar!L + e : k \in {0, 1, 2, 8, 15}, e \in {-1, 0, 1}}
             \cup {2 ^ 18 - 1, 2 ^ 17, 4095} : n \in 0 .. 2 ^ 18 - 1}
MCFactors == {0, 1, 77, Scalar!L - 1, Scalar!L + 1, 2 ^ 18 - 1}
MCModuli == 1 .. 200
MCPublicKeys == 0 .. 127
MCSecrets == {8 * k : k \in 0 .. 7}
MCNonces == 0 .. 7
MCsha_256 == [block |-> 8, lenat |-> 7, word |-> 128]
MCsha_512 == [block |-> 8, lenat |-> 6, word |-> 128]
MCStream == [i \in 1 .. 36 |-> 1 + (i % 5)]
MCPiece == 0 .. 9

SeqsUpTo(S, n) == UNION {[1 .. k -> S] : k \in 0 .. n}
One == {<<"b">>}
MCAssociated == SeqsUpTo({Box!Zero, One}, 3)
MCPlaintexts == MCAssociated \cup {[i \in 1 .. k |-> One] : k \in 4 .. 13}
MCMacKeys == {<<7, 7, 7, 7>>, <<1, 0, 0, 0>>, <<3, 2, 4, 1>>, <<0, 3, 4, 3>>}
MCMacMessages ==
    {[i \in 1 .. k |-> b] : k \in 0 .. 10, b \in {0, 7}} \cup {[i \in 1 .. k |-> i % 8] : k \in 0 .. 10}

Peer(n) == [ip |-> <<n % 2>>, port |-> n % 4, pubkey |-> <<1, n % 2>>]
MCPeerLists == {[i \in 1 .. k |-> Peer(i + e)] : k \in 0 .. 9, e \in 0 .. 3}
MCBlobs == SeqsUpTo({0, 1}, 3)
MCKeys == {<<0, 1>>, <<1, 0>>}
MCSignatures == {<<0, 1, 1, 0>>}
MCFrameNonces == {<<1>>}
=============================================================================
