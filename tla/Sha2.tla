-------------------------------- MODULE Sha2 --------------------------------
(***************************************************************************)
(* sha_256 and sha_512 as streaming objects: what they feed to the         *)
(* compression function, block by block.  The function itself is taken to  *)
(* be free of collisions, so that the state is the sequence of the blocks  *)
(* it has absorbed.  A byte is a cell.                                     *)
(*                                                                         *)
(* The two classes differ in their numbers, which are the argument alg:    *)
(* alg.block, the bytes of a block (64, 128); alg.lenat, where the length  *)
(* starts (56, 112), the cells from there on holding one word each, 8      *)
(* bytes in the code; alg.word, the number of values of a uint64_t.        *)
(***************************************************************************)
EXTENDS Integers, Sequences

Algorithm ==
    {alg \in [block : Nat, lenat : Nat, word : Nat] :
       /\ alg.block # 0 /\ alg.lenat \in {alg.block - 1, alg.block - 2}
       /\ 8 * alg.block <= alg.word}

Junk   == -1    \* a byte of the buffer that was never written
Marker == -128  \* 0x80
New(alg) ==
    [state |-> <<>>, buffer |-> [i \in 1 .. alg.block |-> Junk], buffer_len |-> 0,
     bit_len_low |-> 0, bit_len_high |-> 0]

(* The calls of transform; what it computes is left out: state is the list *)
(* of the blocks absorbed.                                                 *)
transform(h) == [h EXCEPT !.state = Append(@, h.buffer), !.buffer_len = 0]
Put(h, b) == [h EXCEPT !.buffer[h.buffer_len + 1] = b, !.buffer_len = @ + 1]

(* One byte: a full buffer is absorbed, its bits are counted, and sha_512  *)
(* carries into the upper word of the count.                               *)
Feed(alg, h, b) ==
    LET g   == Put(h, b)
        low == (h.bit_len_low + 8 * alg.block) % alg.word
    IN  IF g.buffer_len < alg.block THEN g
        ELSE [transform(g) EXCEPT !.bit_len_low = low,
                                  !.bit_len_high = IF low < 8 * alg.block THEN @ + 1 ELSE @]
update(alg, h, data) ==
    LET go[i \in 0 .. Len(data)] == IF i = 0 THEN h ELSE Feed(alg, go[i - 1], data[i])
    IN  go[Len(data)]

(* Zeros in the buffer up to n bytes.                                      *)
ZerosTo(alg, h, n) ==
    [h EXCEPT !.buffer = [i \in 1 .. alg.block |-> IF i \in h.buffer_len + 1 .. n THEN 0 ELSE @[i]],
              !.buffer_len = n]

(* The length fills the cells from lenat + 1 on, its low word last.        *)
Finish(alg, h, full) ==
    LET low  == (h.bit_len_low + 8 * h.buffer_len) % alg.word
        high == h.bit_len_high + (IF low < h.bit_len_low THEN 1 ELSE 0)
        m    == Put(h, Marker)
        n    == IF m.buffer_len > full THEN transform(ZerosTo(alg, m, alg.block)) ELSE m
        room == ZerosTo(alg, n, alg.lenat)
        last == [room EXCEPT !.buffer = [i \in 1 .. alg.block |->
                   IF i = alg.block THEN low ELSE IF i > alg.lenat THEN high ELSE @[i]]]
    IN  transform(last).state

(* Faulty variant: a marker that just fits starts a further block.         *)
finalize_FullTooEarly(alg, h) == Finish(alg, h, alg.lenat - 1)

(* The digest; the object is New again.                                    *)
finalize(alg, h) == Finish(alg, h, alg.lenat)

-----------------------------------------------------------------------------
(* The reference: marker, the fewest zeros that make room for the length,  *)
(* and the length in bits.                                                 *)
Padded(alg, data) ==
    LET zeros == (alg.lenat - Len(data) - 1) % alg.block
        bits  == 8 * Len(data)
    IN  data \o <<Marker>> \o [i \in 1 .. zeros |-> 0]
             \o (IF alg.lenat = alg.block - 2 THEN <<bits \div alg.word>> ELSE <<>>)
             \o <<bits % alg.word>>
Blocks(alg, s) ==
    [k \in 1 .. Len(s) \div alg.block |-> SubSeq(s, (k - 1) * alg.block + 1, k * alg.block)]
=============================================================================
