----------------------------- MODULE Primitives -----------------------------
(***************************************************************************)
(* The cryptographic primitives under impl/crypto and the codec of         *)
(* protocol/wire, called one at a time from chosen sets of inputs, and two *)
(* hash objects that are fed in pieces.  The modules it instantiates have  *)
(* the algorithms, with the word sizes and constants of the code narrowed  *)
(* so that every boundary is met by small numbers.                         *)
(***************************************************************************)
EXTENDS Integers, Sequences

CONSTANTS
    Elements,               \* canonical field elements, as limbs
    Scalars, Factors,       \* scalars as they are loaded
    Moduli,                 \* to compare exponents by
    PublicKeys, Secrets,
    Nonces, Challenges, Responses,
    sha_256, sha_512,       \* the numbers of the two hashes, see Sha2
    Stream, Piece,          \* bytes that are hashed, and how many in a call
    KSBLOCK, COUNTERS, PAD, \* of the stream cipher and the MAC, see Aead
    Plaintexts, Associated, \* of seal
    MacKeys, MacMessages,
    BYTE, KEY, SIG, NONCE, TAG, IP,     \* the sizes in a frame, see Wire
    PeerLists, Blobs, Keys, Signatures, FrameNonces

Field  == INSTANCE LimbField   WITH W <- 4, C <- 5, WORD <- 2 ^ 10, DWORD <- 2 ^ 20
Scalar == INSTANCE ScalarField WITH W <- 3, T <- 2, p <- <<5, 1, 1, 0, 4>>
Group  == INSTANCE Curve       WITH P <- 61, A24 <- 2, L <- 7, BaseU <- 5,
                                    FieldBits <- 6, ScalarBits <- 8
Hash   == INSTANCE Sha2
Box    == INSTANCE Aead        WITH BYTE <- 8
Frame  == INSTANCE Wire

(* The hashes have room for a length in a block, and count bits.           *)
ASSUME HashAssumption ==
    /\ {sha_256, sha_512} \subseteq Hash!Algorithm
    /\ Stream \in Seq(Nat) /\ Piece \subseteq Nat

(* Bytes of plaintext and of associated data are made of plain bits, and   *)
(* the block counter does not wrap in a message.                           *)
ASSUME BoxAssumption ==
    /\ KSBLOCK \in Nat \ {0, 1} /\ COUNTERS \in Nat \ {0, 1}
    /\ PAD \in Nat \ {0} /\ TAG \in Nat \ {0}
    /\ Plaintexts \cup Associated \subseteq Seq(SUBSET {<<"b">>})
    /\ \A m \in Plaintexts : Len(m) <= (COUNTERS - 1) * KSBLOCK

(* The frames are made of fields of the right sizes.                       *)
ASSUME FrameAssumption ==
    /\ BYTE \in Nat \ {0, 1}
    /\ {KEY, SIG, NONCE, IP} \subseteq Nat \ {0}
    /\ PeerLists \subseteq Seq(Frame!peer_info)
    /\ Blobs \subseteq Seq(Frame!Byte)
    /\ Keys \subseteq [1 .. KEY -> Frame!Byte]
    /\ Signatures \subseteq [1 .. SIG -> Frame!Byte]
    /\ FrameNonces \subseteq [1 .. NONCE -> Frame!Byte]

VARIABLES
    call,           \* the call that was made last, <<>> for none
    fed,            \* bytes fed to the hash objects since they were new
    h256, h512,     \* sha_256, sha_512
    digests         \* [of, h256, h512] of the last finalize, <<>> before it

vars == <<call, fed, h256, h512, digests>>

Init ==
    /\ call = <<>>
    /\ fed = <<>>
    /\ h256 = Hash!New(sha_256) /\ h512 = Hash!New(sha_512)
    /\ digests = <<>>

(* One call is made, of objects that are new.                              *)
Idle == call = <<>> /\ fed = <<>> /\ digests = <<>>
Call(c) ==
    /\ call' = c
    /\ UNCHANGED <<fed, h256, h512, digests>>

-----------------------------------------------------------------------------
FieldArithmetic  == Idle /\ \E a, b \in Elements : Call(<<"field", a, b>>)
ScalarArithmetic == Idle /\ \E x, y \in Scalars : Call(<<"scalar", x, y>>)
ScalarProducts   == Idle /\ \E x \in Scalars, y \in Factors : Call(<<"product", x, y>>)
Chain            == Idle /\ \E m \in Moduli : Call(<<"chain", m>>)
Multiply         == Idle /\ \E u \in 0 .. 60, s \in 0 .. 63 : Call(<<"ladder", u, s>>)
Exchange         == Idle /\ \E a, b \in Secrets, pk \in PublicKeys : Call(<<"exchange", a, b, pk>>)
Decode           == Idle /\ \E b \in PublicKeys : Call(<<"decode", b>>)
SignAndVerify    == Idle /\ \E k \in Secrets, n \in Nonces, h \in Challenges, S \in Responses :
                       Call(<<"sign", k, n, h, S>>)
SealAndOpen      == Idle /\ \E m \in Plaintexts, aad, other \in Associated :
                       Call(<<"seal", m, aad, other>>)
Authenticate     == Idle /\ \E r, s \in MacKeys, m \in MacMessages : Call(<<"mac", r, s, m>>)
ExchangeFrames   == Idle /\ \E l \in PeerLists, b \in Blobs : Call(<<"frame", l, b>>)

(* The hash objects live on: they are fed the bytes of Stream in pieces,   *)
(* and used again after finalize.                                          *)
Update ==
    \E n \in Piece :
       LET data == SubSeq(Stream, Len(fed) + 1, Len(fed) + n)
       IN  /\ call = <<>> /\ Len(fed) + n <= Len(Stream)
           /\ fed' = fed \o data
           /\ h256' = Hash!update(sha_256, h256, data) /\ h512' = Hash!update(sha_512, h512, data)
           /\ UNCHANGED <<call, digests>>
Finalize ==
    /\ call = <<>>
    /\ digests' = [of |-> fed, h256 |-> Hash!finalize(sha_256, h256), h512 |-> Hash!finalize(sha_512, h512)]
    /\ fed' = <<>>
    /\ h256' = Hash!New(sha_256) /\ h512' = Hash!New(sha_512)
    /\ UNCHANGED call

Next ==
    \/ FieldArithmetic
    \/ ScalarArithmetic
    \/ ScalarProducts
    \/ Chain
    \/ Multiply
    \/ Exchange
    \/ Decode
    \/ SignAndVerify
    \/ SealAndOpen
    \/ Authenticate
    \/ ExchangeFrames
    \/ Update
    \/ Finalize

Spec == Init /\ [][Next]_vars

-----------------------------------------------------------------------------
Op == IF call = <<>> THEN "none" ELSE call[1]

(* Sums, products, comparisons and encodings of the two prime fields, and  *)
(* differences without a borrow, are those of the integers modulo P, and   *)
(* no word overflows on the way: field_25519 and field_1305, from operands *)
(* at the edges of their limbs, and from unreduced sums of such, which the *)
(* comment on the products of field_1305 (limbs below 2^W) leaves out.     *)
(* The tag of poly_1305 is the polynomial that the standard says.          *)
FieldsComputeModP ==
    /\ Op = "field" => /\ Field!RingIsRight(call[2], call[3])
                       /\ Field!DifferenceIsRight(call[2], call[3])
    /\ Op = "mac" => Box!TagIsRight(call[2], call[3], call[4])

(* "(a-b) mod p = (p+a-b) mod p" says field_25519 of operator-, for all a  *)
(* and b.  It does not hold when a limb borrows.                           *)
DifferencesComputeModP ==
    Op = "field" =>
       LET v == Field!Value(call[2])  w == Field!Value(call[3])
       IN  Field!Value(Field!Minus(call[2], call[3])) = (v + Field!P - w) % Field!P

(* field_q computes modulo L, whether its operands are reduced or just     *)
(* loaded, and reduces a hash of twice their width.                        *)
ScalarsComputeModL ==
    /\ Op = "scalar" => Scalar!ScalarsAreRight(call[2], call[3])
    /\ Op = "product" => Scalar!ProductsAreRight(call[2], call[3])

(* Both sides of an X25519 exchange get the same secret, peers of small    *)
(* order are refused, and the ladder multiplies, on the curve and on its   *)
(* twist; the chains of field_25519 raise to the powers they are named for.*)
ExchangeAgrees ==
    /\ Op = "chain" => Group!ChainsAreRight(call[2])
    /\ Op = "ladder" => Group!LadderIsRight(call[2], call[3])
    /\ Op = "exchange" => Group!ExchangeIsRight(call[2], call[3], call[4])

(* verify accepts exactly the response that sign makes, of all those with  *)
(* its R, and decodes exactly the points of the curve.                     *)
SignedVerifies ==
    /\ Op = "decode" => Group!EncodingIsRight(call[2])
    /\ Op = "sign" => Group!SignatureIsRight(call[2], call[3], call[4], call[5])

(* However the bytes were cut into calls of update, and whatever was       *)
(* hashed before, finalize hashes them with the padding of the standard.   *)
HashPads ==
    digests # <<>> =>
       /\ digests.h256 = Hash!Blocks(sha_256, Hash!Padded(sha_256, digests.of))
       /\ digests.h512 = Hash!Blocks(sha_512, Hash!Padded(sha_512, digests.of))

(* open gives back what seal was given and refuses everything else, and no *)
(* position of the keystream is used twice.  A refusal is the empty vector *)
(* and shows only where the plaintext is not empty.                        *)
OpenUndoesSeal ==
    Op = "seal" => /\ Box!SealIsRight(1, 1, call[2], call[3])
                   /\ Box!ChangesAreRefused(1, 1, call[2], call[3], call[4])

(* Every frame is read back as it was built, by its parser only, and one   *)
(* that was cut is refused; a list whose length is over 16 bits is not     *)
(* read in full.                                                           *)
FramesRoundTrip ==
    Op = "frame" =>
       /\ Frame!ListIsRight(call[2])
       /\ \A nonce \in FrameNonces : Frame!EncryptedIsRight(nonce, call[3])
       /\ Frame!SignalsAreRight
       /\ \A key \in Keys :
            /\ \A port \in Frame!Port :
                 Frame!FrameIsRight(Frame!build_register(port, key), [port |-> port, pubkey |-> key])
            /\ Frame!FrameIsRight(Frame!build_hs_init(key), [eph_pk |-> key])
            /\ \A sig \in Signatures :
                 /\ \A eph \in Keys :
                      Frame!FrameIsRight(Frame!build_hs_resp(eph, key, sig),
                                         [eph_pk |-> eph, identity_pk |-> key, sig |-> sig])
                 /\ Frame!FrameIsRight(Frame!build_hs_finish(key, sig),
                                       [identity_pk |-> key, sig |-> sig])
=============================================================================
