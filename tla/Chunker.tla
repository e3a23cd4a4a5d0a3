------------------------------- MODULE Chunker -------------------------------
(***************************************************************************)
(* Chunk frames and chunk reassembly: transfer/chunker.{hpp,cpp}.          *)
(*                                                                         *)
(* A byte string is a sequence of cells.  A cell is either an ordinary     *)
(* cell (a model value) or a whole 9-byte chunk header, that is a record   *)
(* of ChunkHeader; what the properties tell apart is only whether a        *)
(* plaintext begins with a header and what the header says.  The header    *)
(* fields index and total are uint16_t: numbers below UINT16, which is     *)
(* 2^16 in the build and small in a model.                                 *)
(***************************************************************************)
EXTENDS Naturals, Sequences, SequencesExt

CONSTANTS
    TransferId,   \* the values of a uint32_t transfer_id
    UINT16,       \* the modulus of uint16_t
    NoData        \* an empty std::optional: a slot that is not filled

ASSUME UINT16Assumption == UINT16 \in Nat \ {0}

ChunkHeader == [transfer_id : TransferId, index : 0..UINT16-1, total : 0..UINT16-1]

(* make_chunk_frame: the header in front of the payload.                   *)
make_chunk_frame(transfer_id, index, total, data) ==
    <<[transfer_id |-> transfer_id, index |-> index, total |-> total]>> \o data

(* parse_chunk_frame returns a value: at least one whole header, the magic *)
(* byte (the first cell is a header), total # 0 and index < total.         *)
is_chunk_frame(bytes) ==
    /\ Len(bytes) >= 1
    /\ Head(bytes) \in ChunkHeader
    /\ Head(bytes).total # 0
    /\ Head(bytes).index < Head(bytes).total

-----------------------------------------------------------------------------
(* class chunk_reassembler                                                 *)

(* Faulty variant: one slot more than total_.                              *)
chunk_reassembler_ExtraSlot(total) ==
    [slots |-> [i \in 0..total |-> NoData], total |-> total, received |-> 0]

(* The constructor: total empty slots, none received.                      *)
chunk_reassembler(total) ==
    [slots |-> [i \in 0..total-1 |-> NoData], total |-> total, received |-> 0]

(* The early return of chunk_reassembler::add.                             *)
add_refuses(asm, index) == index >= asm.total \/ asm.slots[index] # NoData

(* Faulty variant: a duplicate is counted although its slot is filled.     *)
add_CountsDuplicate(asm, index, data) ==
    IF add_refuses(asm, index)
    THEN [asm EXCEPT !.received = (asm.received + 1) % UINT16]
    ELSE [asm EXCEPT !.slots[index] = data,
                     !.received = (asm.received + 1) % UINT16]

(* Faulty variant: a duplicate replaces the chunk that arrived first.      *)
add_LastWins(asm, index, data) ==
    IF index >= asm.total
    THEN asm
    ELSE [asm EXCEPT !.slots[index] = data,
                     !.received = IF asm.slots[index] = NoData
                                  THEN (asm.received + 1) % UINT16 ELSE asm.received]

(* The reassembler after add(index, data).                                 *)
add(asm, index, data) ==
    IF add_refuses(asm, index)
    THEN asm
    ELSE [asm EXCEPT !.slots[index] = data,
                     !.received = (asm.received + 1) % UINT16]

(* Faulty variant: one chunk too many is awaited.                          *)
add_completes_OneMore(asm, index, data) ==
    /\ ~add_refuses(asm, index)
    /\ add(asm, index, data).received > asm.total

(* add(index, data) returns the assembled payload.                         *)
add_completes(asm, index, data) ==
    /\ ~add_refuses(asm, index)
    /\ add(asm, index, data).received >= asm.total

(* Faulty variant: the slots are concatenated from the last one down.      *)
assembled_Reversed(asm) ==
    FlattenSeq([i \in 1..asm.total |-> asm.slots[asm.total - i]])

(* The payload that add returns: the slots in index order.                 *)
assembled(asm) == FlattenSeq([i \in 1..asm.total |-> asm.slots[i - 1]])

-----------------------------------------------------------------------------
(* class transfer_registry: map is a function from the open transfer_ids   *)
(* to entries.                                                             *)

entry(total, created) == [asm |-> chunk_reassembler(total), created |-> created]

(* The emplace of ingest: an id that is open keeps its entry, whatever     *)
(* total the new chunk claims.                                             *)
emplace(map, id, total, now) ==
    [x \in DOMAIN map \cup {id} |->
        IF x \in DOMAIN map THEN map[x] ELSE entry(total, now)]

(* ingest returns a payload.                                               *)
ingest_completes(map, id, index, total, data, now) ==
    add_completes(emplace(map, id, total, now)[id].asm, index, data)

(* The payload ingest returns, when it returns one.                        *)
ingest_payload(map, id, index, total, data, now) ==
    assembled(add(emplace(map, id, total, now)[id].asm, index, data))

(* Faulty variant: the entry of a completed transfer is not erased.        *)
ingest_KeepsEntry(map, id, index, total, data, now) ==
    LET m == emplace(map, id, total, now)
    IN  [m EXCEPT ![id].asm = add(m[id].asm, index, data)]

(* The map after ingest: the chunk is added, and the entry of a completed  *)
(* transfer is erased.                                                     *)
ingest(map, id, index, total, data, now) ==
    LET m == emplace(map, id, total, now)
    IN  IF ingest_completes(map, id, index, total, data, now)
        THEN [x \in DOMAIN m \ {id} |-> m[x]]
        ELSE [m EXCEPT ![id].asm = add(m[id].asm, index, data)]

(* Faulty variant: an entry exactly ttl old is dropped too.                *)
prune_AtTtl(map, now, ttl) ==
    [x \in {y \in DOMAIN map : ~(now - map[y].created >= ttl)} |-> map[x]]

(* The map after prune(ttl).                                               *)
prune(map, now, ttl) ==
    [x \in {y \in DOMAIN map : ~(now - map[y].created > ttl)} |-> map[x]]

=============================================================================
