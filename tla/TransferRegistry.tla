-------------------------- MODULE TransferRegistry --------------------------
(***************************************************************************)
(* The transfer_registry of one peer (transfer/chunker.{hpp,cpp}) on its   *)
(* own: chunks of any open or new transfer arrive in any order and any     *)
(* number of times, with any total and index that parse_chunk_frame lets   *)
(* through, and prune may be called at any time.                           *)
(*                                                                         *)
(* map_ is the only state of the code; now is its steady clock.  log,      *)
(* returned and calls are history: the chunks ingested for an id since its *)
(* entry was opened, the last payload ingest returned with the log it was  *)
(* returned from, and the number of ingest calls.                          *)
(***************************************************************************)
EXTENDS Chunker, FiniteSets

CONSTANTS
    Data,         \* the possible payloads of a chunk
    TTL,          \* the age prune tolerates
    MaxTime,      \* bound: the clock stops here
    MaxIngests    \* bound: calls of ingest

ASSUME RegistryAssumption ==
    /\ NoData \notin Data
    /\ TTL \in Nat /\ MaxTime \in Nat /\ MaxIngests \in Nat

VARIABLES map_, now, log, returned, calls

vars == <<map_, now, log, returned, calls>>

Chunk == [index : 0..UINT16-1, total : 1..UINT16-1, data : Data]

Init ==
    /\ map_ = [x \in {} |-> NoData]
    /\ now = 0
    /\ log = [id \in TransferId |-> <<>>]
    /\ returned = {}
    /\ calls = 0

(* recv_loop hands a parsed chunk to ingest; what ingest returns is        *)
(* recorded in returned together with the chunks it was made from.         *)
Ingest(id, index, total, data) ==
    LET chunk == [index |-> index, total |-> total, data |-> data]
        done  == ingest_completes(map_, id, index, total, data, now)
        seen  == Append(log[id], chunk)
    IN  /\ calls < MaxIngests
        /\ total # 0 /\ index < total
        /\ map_' = ingest(map_, id, index, total, data, now)
        /\ log' = [log EXCEPT ![id] = IF done THEN <<>> ELSE seen]
        /\ returned' = IF done
                       THEN {[id |-> id, log |-> seen,
                              payload |-> ingest_payload(map_, id, index, total, data, now)]}
                       ELSE {}
        /\ calls' = calls + 1
        /\ UNCHANGED now

(* transfer_registry::prune, part of the class but called by nobody.       *)
Prune ==
    /\ map_' = prune(map_, now, TTL)
    /\ log' = [id \in TransferId |-> IF id \in DOMAIN map_' THEN log[id] ELSE <<>>]
    /\ returned' = {}
    /\ UNCHANGED <<now, calls>>

Tick ==
    /\ now < MaxTime
    /\ now' = now + 1
    /\ UNCHANGED <<map_, log, returned, calls>>

Next ==
    \/ \E id \in TransferId, index, total \in 0..UINT16-1, data \in Data :
          Ingest(id, index, total, data)
    \/ Prune
    \/ Tick

Spec == Init /\ [][Next]_vars

-----------------------------------------------------------------------------
Slots(total) == [0..total-1 -> Data \cup {NoData}]

Reassembler ==
    UNION {[slots : Slots(t), total : {t}, received : 0..UINT16-1] : t \in 1..UINT16-1}

(* Every entry of map_ is a reassembler with as many slots as its total_,  *)
(* opened in the past.                                                     *)
TypeOK ==
    /\ DOMAIN map_ \subseteq TransferId
    /\ \A id \in DOMAIN map_ : map_[id] \in [asm : Reassembler, created : 0..now]
    /\ log \in [TransferId -> Seq(Chunk)]
    /\ now \in 0..MaxTime
    /\ calls \in 0..MaxIngests

Filled(asm) == {i \in 0..asm.total-1 : asm.slots[i] # NoData}

(* chunk_reassembler::add counts in received_ the slots that are filled:   *)
(* neither a duplicate nor a chunk beyond total_ is counted, and an entry  *)
(* that stays in the map_ of transfer_registry is never complete.          *)
CountsFilledSlots ==
    \A id \in DOMAIN map_ :
        /\ map_[id].asm.received = Cardinality(Filled(map_[id].asm))
        /\ map_[id].asm.received < map_[id].asm.total

(* The k-th chunk of a log is the first one for index i.                   *)
IsFirst(chunks, k, i) ==
    /\ chunks[k].index = i
    /\ \A j \in 1..k-1 : chunks[j].index # i

(* When ingest returns a payload, it is made of the first chunk that       *)
(* arrived for each index since the transfer was opened, in index order,   *)
(* as many as the first chunk announced: a late duplicate, or a chunk that *)
(* claims another total, never replaces or lengthens anything.             *)
FirstChunkWins ==
    \A r \in returned :
        \E first \in [1..r.log[1].total -> DOMAIN r.log] :
            /\ \A i \in 1..r.log[1].total : IsFirst(r.log, first[i], i - 1)
            /\ r.payload = FlattenSeq([i \in 1..r.log[1].total |-> r.log[first[i]].data])

(* A transfer is delivered as soon as every index has arrived, whatever    *)
(* the order and the duplicates: an open transfer misses an index.         *)
NoStall ==
    \A id \in DOMAIN map_ :
        \E i \in 0..log[id][1].total-1 :
            \A k \in DOMAIN log[id] : log[id][k].index # i

(* An open transfer leaves the registry only because its last chunk made   *)
(* ingest return its payload, or because prune found it older than ttl.    *)
LeavesDoneOrExpired ==
    [][\A id \in DOMAIN map_ \ DOMAIN map_' :
          (\E r \in returned' : r.id = id) \/ now - map_[id].created > TTL]_vars

=============================================================================
