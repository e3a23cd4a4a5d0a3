-------------------------------- MODULE Aead --------------------------------
(***************************************************************************)
(* ChaCha20-Poly1305: chacha_20, poly_1305 and chacha20_poly1305.  In seal *)
(* and open a byte is a set of atoms and exclusive or their symmetric      *)
(* difference: a block of keystream is made of atoms of its key, counter   *)
(* and nonce, so that two uses of one position show; the tag is an atom of *)
(* its key and input.  The arithmetic of the tag is modelled beside it, on *)
(* numbers, over the narrow field of module LimbField.                     *)
(***************************************************************************)
EXTENDS Integers, Sequences

CONSTANTS
    KSBLOCK,    \* bytes of a keystream block, 64
    COUNTERS,   \* the block counter is 0 .. COUNTERS - 1, uint32_t
    PAD,        \* bytes of a block of the MAC, 16
    TAG,        \* bytes of a tag, 16
    BYTE        \* the numbers of a byte in the arithmetic, 256

Xor(a, b) == (a \ b) \cup (b \ a)
Zero == {}
Refused == <<>>      \* the same vector as an empty plaintext

(* chacha_20::block: position i of the keystream.                          *)
block(key, counter, nonce, i) == {<<"ks", key, counter, nonce, i>>}

apply_keystream(key, counter, nonce, buffer) ==
    [i \in 1 .. Len(buffer) |->
       Xor(buffer[i], block(key, (counter + ((i - 1) \div KSBLOCK)) % COUNTERS, nonce,
                            (i - 1) % KSBLOCK))]
encrypt(key, nonce, buffer) == apply_keystream(key, 1, nonce, buffer)
decrypt(key, nonce, buffer) == apply_keystream(key, 1, nonce, buffer)
subkey(key, nonce) ==
    SubSeq(apply_keystream(key, 0, nonce, [i \in 1 .. KSBLOCK |-> Zero]), 1, KSBLOCK \div 2)

append_padded(data) == data \o [i \in 1 .. ((PAD - (Len(data) % PAD)) % PAD) |-> Zero]
append_le64(n) == <<{<<"length", n>>}>>

(* Faulty variant: the lengths are left out.                               *)
build_mac_input_NoLengths(aad, ciphertext) == append_padded(aad) \o append_padded(ciphertext)

build_mac_input(aad, ciphertext) ==
    append_padded(aad) \o append_padded(ciphertext)
      \o append_le64(Len(aad)) \o append_le64(Len(ciphertext))

(* poly_1305::generate as seal and open use it, an ideal tag; verify       *)
(* compares with it.  Its arithmetic is generate below.                    *)
MacOf(key, input) == [i \in 1 .. TAG |-> {<<"tag", key, input, i, TAG, 0>>}]

(* encrypt also overwrites the caller's plaintext; session::send passes a  *)
(* copy of its own, so nobody sees that.                                   *)
seal(key, nonce, plaintext, aad) ==
    LET ciphertext == encrypt(key, nonce, plaintext)
    IN  ciphertext \o MacOf(subkey(key, nonce), build_mac_input(aad, ciphertext))
open(key, nonce, blob, aad) ==
    LET ciphertext == SubSeq(blob, 1, Len(blob) - TAG)
        tag        == SubSeq(blob, Len(blob) - TAG + 1, Len(blob))
    IN  IF \/ Len(blob) < TAG
           \/ MacOf(subkey(key, nonce), build_mac_input(aad, ciphertext)) # tag
        THEN Refused
        ELSE decrypt(key, nonce, ciphertext)

-----------------------------------------------------------------------------
(* poly_1305, with blocks of four bytes that have 12 bits together.  A key *)
(* is r and s, four bytes each.                                            *)
Field == INSTANCE LimbField WITH W <- 3, C <- 5, WORD <- 2 ^ 18, DWORD <- 2 ^ 18

(* The number of little-endian bytes.                                      *)
NumberOf(bytes) ==
    LET v[i \in 1 .. Len(bytes) + 1] ==
          IF i > Len(bytes) THEN 0 ELSE bytes[i] + BYTE * v[i + 1]
    IN  v[1]
ElementOf(bytes) ==
    LET n == NumberOf(bytes)
    IN  Field!from_bytes_1305([k \in 1 .. 15 |-> (n \div 2 ^ (k - 1)) % 2])
LowBytes(a) ==
    LET bits == Field!to_bytes_1305(a)
        byte(i) == bits[3 * i - 2] + 2 * bits[3 * i - 1] + 4 * bits[3 * i]
    IN  [i \in 1 .. 4 |-> byte(i)]

(* The last byte of each group keeps its lower half, the first byte of     *)
(* each but the first group loses its two lowest bits.                     *)
clamp(r) == <<r[1], r[2] % 4, r[3] - (r[3] % 4), r[4] % 4>>

generate(r, s, msg) ==
    LET rr == ElementOf(clamp(r))
        blocks == (Len(msg) + 3) \div 4
        Min(x, y) == IF x < y THEN x ELSE y
        go[k \in 0 .. blocks, acc \in Seq(Nat)] ==
          LET bytes == SubSeq(msg, 4 * k + 1, Min(4 * k + 4, Len(msg)))
          IN  IF k = blocks THEN acc
              ELSE go[k + 1, Field!Times(Field!Plus(acc, ElementOf(Append(bytes, 1))), rr)]
        a == LowBytes(Field!reduce_1305(go[0, Field!Small(0)]))
        sum[i \in 0 .. 4] ==
          IF i = 0 THEN <<<<>>, 0>>
          ELSE LET x == a[i] + s[i] + sum[i - 1][2]
               IN  <<Append(sum[i - 1][1], x % BYTE), x \div BYTE>>
    IN  sum[4][1]
verify(r, s, msg, tag) == generate(r, s, msg) = tag

-----------------------------------------------------------------------------
(* What is sealed opens, with the key, nonce and associated data it was    *)
(* sealed with, and nothing else does; no position of the keystream is     *)
(* used twice, and none of the block that the MAC key is made of.          *)
SealIsRight(key, nonce, m, aad) ==
    LET blob == seal(key, nonce, m, aad)
        used == [i \in 1 .. Len(m) |-> Xor(blob[i], m[i])]
    IN  /\ open(key, nonce, blob, aad) = m
        /\ \A i, k \in 1 .. Len(m) : i # k => used[i] # used[k]
        /\ \A i \in 1 .. Len(m), k \in 1 .. KSBLOCK \div 2 : used[i] # subkey(key, nonce)[k]

(* Another blob, nonce, key or associated data is refused.                 *)
ChangesAreRefused(key, nonce, m, aad, other) ==
    LET blob == seal(key, nonce, m, aad)
    IN  /\ open(key + 1, nonce, blob, aad) = Refused
        /\ open(key, nonce + 1, blob, aad) = Refused
        /\ aad # other => open(key, nonce, blob, other) = Refused
        /\ open(key, nonce, Append(blob, Zero), aad) = Refused
        /\ \A n \in 0 .. Len(blob) - 1 : open(key, nonce, SubSeq(blob, 1, n), aad) = Refused
        /\ \A i \in 1 .. Len(blob) :
             open(key, nonce, [blob EXCEPT ![i] = Xor(@, {<<"b">>})], aad) = Refused
        \* bytes moved between the data and the ciphertext, with the same tag
        /\ Len(m) > 0 => open(key, nonce, Tail(blob), Append(aad, blob[1])) = Refused
        /\ aad # <<>> => open(key, nonce, <<aad[Len(aad)]>> \o blob,
                              SubSeq(aad, 1, Len(aad) - 1)) = Refused

(* The tag is the polynomial in r modulo P whose coefficients are the      *)
(* blocks, each with a one above its last byte, plus s.                    *)
TagIsRight(r, s, msg) ==
    LET rr == NumberOf(clamp(r))
        blocks == (Len(msg) + 3) \div 4
        coefficient(k) ==
          LET n == IF 4 * k <= Len(msg) THEN 4 ELSE Len(msg) - 4 * (k - 1)
          IN  NumberOf(SubSeq(msg, 4 * k - 3, 4 * k - 4 + n)) + BYTE ^ n
        horner[k \in 0 .. blocks] ==
          IF k = 0 THEN 0 ELSE ((horner[k - 1] + coefficient(k)) * rr) % Field!P
    IN  \A tag \in {generate(r, s, msg)} :
           /\ NumberOf(tag) = (horner[blocks] + NumberOf(s)) % BYTE ^ 4
           /\ verify(r, s, msg, tag)
           /\ ~verify(r, s, msg, [tag EXCEPT ![4] = (@ + 1) % BYTE])
=============================================================================
