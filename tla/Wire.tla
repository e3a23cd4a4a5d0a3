-------------------------------- MODULE Wire --------------------------------
(***************************************************************************)
(* protocol/wire: the frames that nodes and the coordinator exchange, as   *)
(* sequences of bytes.  How many bytes a key, a signature, a nonce, a tag  *)
(* and an address have, and how many values a byte, are parameters.        *)
(***************************************************************************)
EXTENDS Integers, Sequences

CONSTANTS
    BYTE,       \* 256
    KEY,        \* 32 bytes
    SIG,        \* 64
    NONCE,      \* 12
    TAG,        \* 16
    IP          \* 4

ENTRY == IP + 2 + KEY
Byte == 0 .. BYTE - 1
Port == 0 .. BYTE * BYTE - 1
peer_info == [ip : [1 .. IP -> Byte], port : Port, pubkey : [1 .. KEY -> Byte]]

\* msg_type; the values are outside the range of a byte of data
register_node == 101
get_peers     == 102
peer_list     == 103
ok            == 104
hs_init       == 116
hs_resp       == 117
hs_finish     == 118
encrypted     == 132

nullopt == [none |-> TRUE]
u16be(n) == <<(n \div BYTE) % BYTE, n % BYTE>>
read_u16be(f, at) == f[at] * BYTE + f[at + 1]
Bytes(f, at, n) == SubSeq(f, at, at + n - 1)

-----------------------------------------------------------------------------
build_register(port, pubkey) == <<register_node>> \o u16be(port) \o pubkey
build_get_peers == <<get_peers>>
build_ok == <<ok>>

Entry(p) == p.ip \o u16be(p.port) \o p.pubkey
(* Faulty variant: the count keeps the byte order of the host.             *)
build_peer_list_HostOrder(peers) ==
    LET all[i \in 0 .. Len(peers)] == IF i = 0 THEN <<>> ELSE all[i - 1] \o Entry(peers[i])
        n == u16be(Len(peers))
    IN  <<peer_list>> \o <<n[2], n[1]>> \o all[Len(peers)]

build_peer_list(peers) ==
    LET all[i \in 0 .. Len(peers)] == IF i = 0 THEN <<>> ELSE all[i - 1] \o Entry(peers[i])
    IN  <<peer_list>> \o u16be(Len(peers)) \o all[Len(peers)]

build_hs_init(eph_pk) == <<hs_init>> \o eph_pk
build_hs_resp(eph_pk, identity_pk, sig) == <<hs_resp>> \o eph_pk \o identity_pk \o sig
build_hs_finish(identity_pk, sig) == <<hs_finish>> \o identity_pk \o sig
build_encrypted(nonce, blob) == <<encrypted>> \o nonce \o blob

get_type(f) == IF f = <<>> THEN 0 ELSE f[1]

(* The condition of every parser: long enough, and of its type.            *)
Fits(f, n, type) == Len(f) >= n /\ f[1] = type

parse_register(f) ==
    IF ~Fits(f, 3 + KEY, register_node) THEN nullopt
    ELSE [port |-> read_u16be(f, 2), pubkey |-> Bytes(f, 4, KEY)]

parse_peer_list(f) ==
    IF ~Fits(f, 3, peer_list) \/ Len(f) < 3 + read_u16be(f, 2) * ENTRY THEN nullopt
    ELSE [peers |-> [i \in 1 .. read_u16be(f, 2) |->
            LET at == 4 + (i - 1) * ENTRY
            IN  [ip     |-> Bytes(f, at, IP),
                 port   |-> read_u16be(f, at + IP),
                 pubkey |-> Bytes(f, at + IP + 2, KEY)]]]

parse_hs_init(f) ==
    IF ~Fits(f, 1 + KEY, hs_init) THEN nullopt ELSE [eph_pk |-> Bytes(f, 2, KEY)]
parse_hs_resp(f) ==
    IF ~Fits(f, 1 + 2 * KEY + SIG, hs_resp) THEN nullopt
    ELSE [eph_pk      |-> Bytes(f, 2, KEY),
          identity_pk |-> Bytes(f, 2 + KEY, KEY),
          sig         |-> Bytes(f, 2 + 2 * KEY, SIG)]
parse_hs_finish(f) ==
    IF ~Fits(f, 1 + KEY + SIG, hs_finish) THEN nullopt
    ELSE [identity_pk |-> Bytes(f, 2, KEY), sig |-> Bytes(f, 2 + KEY, SIG)]
parse_encrypted(f) ==
    IF ~Fits(f, 1 + NONCE + TAG, encrypted) THEN nullopt
    ELSE [nonce |-> Bytes(f, 2, NONCE), blob |-> SubSeq(f, 2 + NONCE, Len(f))]

-----------------------------------------------------------------------------
Parsed(f) == {r \in {parse_register(f), parse_peer_list(f), parse_hs_init(f),
                     parse_hs_resp(f), parse_hs_finish(f), parse_encrypted(f)} : r # nullopt}

(* The frame f that was built from what is read back as it was, by one     *)
(* parser only; cut anywhere it is refused, and what follows it is ignored.*)
FrameIsRight(f, what) ==
    /\ Parsed(f) = {what}
    /\ \A n \in 0 .. Len(f) - 1 : Parsed(SubSeq(f, 1, n)) = {}
    /\ Parsed(f \o <<0>>) = {what}

(* A blob has no length of its own: it ends with its frame, and one that   *)
(* cannot hold a tag is refused.                                           *)
EncryptedIsRight(nonce, blob) ==
    LET f == build_encrypted(nonce, blob)
    IN  Parsed(f) = IF Len(blob) < TAG THEN {} ELSE {[nonce |-> nonce, blob |-> blob]}

(* A list is read back as it was built if its length fits in two bytes; of *)
(* a longer one the reader takes the first of its entries, as many as the  *)
(* lower two bytes say.                                                    *)
ListIsRight(peers) ==
    LET n == Len(peers) % (BYTE * BYTE)
        f == build_peer_list(peers)
    IN  /\ Parsed(f) = {[peers |-> SubSeq(peers, 1, n)]}
        /\ \A k \in 0 .. 2 + n * ENTRY : Parsed(SubSeq(f, 1, k)) = {}

(* The other frames carry nothing but their type.                          *)
SignalsAreRight == \A f \in {build_get_peers, build_ok} : Parsed(f) = {} /\ get_type(f) = f[1]
=============================================================================
