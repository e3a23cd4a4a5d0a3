----------------------- MODULE TransferRegistryProofs -----------------------
(***************************************************************************)
(* Proofs about TransferRegistry, for every set of transfer ids and chunk  *)
(* payloads, every width of uint16_t and every bound.                      *)
(***************************************************************************)
EXTENDS TransferRegistry, FiniteSetTheorems, TLAPS

(* What a reassembler in the registry satisfies between two calls.         *)
Consistent(asm) ==
    /\ asm \in Reassembler
    /\ asm.received = Cardinality(Filled(asm))
    /\ asm.received < asm.total

(* A fresh reassembler has no filled slot.                                 *)
LEMMA FreshConsistent ==
  ASSUME NEW total \in 1..UINT16-1
  PROVE  Consistent(chunk_reassembler(total))
<1> DEFINE asm == chunk_reassembler(total)
<1>1. asm \in Reassembler
  BY UINT16Assumption DEF chunk_reassembler, Reassembler, Slots
<1>2. Filled(asm) = {}
  BY DEF chunk_reassembler, Filled
<1>3. Cardinality(Filled(asm)) = 0
  BY <1>2, FS_EmptySet
<1> QED
  BY <1>1, <1>3, UINT16Assumption DEF Consistent, chunk_reassembler

(* The filled slots of a reassembler are a finite set.                     *)
LEMMA FilledFinite ==
  ASSUME NEW asm \in Reassembler
  PROVE  IsFiniteSet(Filled(asm)) /\ Cardinality(Filled(asm)) \in Nat
<1>1. asm.total \in 1..UINT16-1
  BY DEF Reassembler
<1>2. IsFiniteSet(0..asm.total-1)
  BY <1>1, UINT16Assumption, FS_Interval
<1>3. Filled(asm) \subseteq 0..asm.total-1
  BY DEF Filled
<1> QED
  BY <1>2, <1>3, FS_Subset, FS_CardinalityType

(* chunk_reassembler::add fills one more slot and counts it, or changes    *)
(* nothing; the count never wraps around.                                  *)
LEMMA AddCounts ==
  ASSUME NEW asm, Consistent(asm), NEW index \in Nat, NEW data \in Data
  PROVE  /\ add(asm, index, data) \in Reassembler
         /\ add(asm, index, data).total = asm.total
         /\ add(asm, index, data).received = Cardinality(Filled(add(asm, index, data)))
         /\ add(asm, index, data).received <= asm.total
<1>1. CASE add_refuses(asm, index)
  BY <1>1 DEF add, Consistent, Reassembler
<1>2. CASE ~add_refuses(asm, index)
  <2> DEFINE new == [asm EXCEPT !.slots[index] = data,
                                !.received = (asm.received + 1) % UINT16]
  <2>1. add(asm, index, data) = new
    BY <1>2 DEF add
  <2>2. PICK t \in 1..UINT16-1 :
          asm \in [slots : Slots(t), total : {t}, received : 0..UINT16-1]
    BY DEF Consistent, Reassembler
  <2>3. index \in 0..t-1 /\ asm.slots[index] = NoData
    BY <1>2, <2>2, UINT16Assumption DEF add_refuses
  <2>4. (asm.received + 1) % UINT16 = asm.received + 1
    BY <2>2, UINT16Assumption DEF Consistent
  <2>5. new \in [slots : Slots(t), total : {t}, received : 0..UINT16-1]
    <3>1. [asm.slots EXCEPT ![index] = data] \in Slots(t)
      BY <2>2, <2>3 DEF Slots
    <3>2. asm.received + 1 \in 0..UINT16-1
      BY <2>2, UINT16Assumption DEF Consistent
    <3> QED
      BY <2>2, <2>4, <3>1, <3>2
  <2>6. Filled(new) = Filled(asm) \cup {index}
    BY <2>2, <2>3, RegistryAssumption, UINT16Assumption DEF Filled, Slots
  <2>7. index \notin Filled(asm)
    BY <2>3 DEF Filled
  <2>8. Cardinality(Filled(new)) = Cardinality(Filled(asm)) + 1
    BY <2>6, <2>7, FS_AddElement, FilledFinite DEF Consistent
  <2>9. new.received = asm.received + 1 /\ new.total = asm.total
    BY <2>2, <2>4
  <2>10. asm.received \in Nat /\ asm.total \in Nat
    BY <2>2, UINT16Assumption
  <2>11. new \in Reassembler
    BY <2>5 DEF Reassembler
  <2> QED
    BY <2>1, <2>8, <2>9, <2>10, <2>11 DEF Consistent
<1> QED
  BY <1>1, <1>2

-----------------------------------------------------------------------------
(* The slots of a reassembler hold the first chunk of each index in a log. *)
Matches(asm, chunks) ==
    \A i \in 0..asm.total-1 :
        /\ asm.slots[i] = NoData => \A k \in DOMAIN chunks : chunks[k].index # i
        /\ asm.slots[i] # NoData =>
              \E k \in DOMAIN chunks : IsFirst(chunks, k, i) /\ asm.slots[i] = chunks[k].data

(* A fresh reassembler matches the empty log.                              *)
LEMMA FreshMatches ==
  ASSUME NEW total \in 1..UINT16-1
  PROVE  Matches(chunk_reassembler(total), <<>>)
BY DEF Matches, chunk_reassembler

(* add keeps the slots in step with the log of the chunks offered to it.   *)
LEMMA AddMatches ==
  ASSUME NEW asm \in Reassembler, NEW chunks \in Seq(Chunk), NEW chunk \in Chunk,
         Matches(asm, chunks)
  PROVE  Matches(add(asm, chunk.index, chunk.data), Append(chunks, chunk))
<1> DEFINE new == add(asm, chunk.index, chunk.data)
           seen == Append(chunks, chunk)
           n == Len(chunks)
<1>1. PICK t \in 1..UINT16-1 :
        asm \in [slots : Slots(t), total : {t}, received : 0..UINT16-1]
  BY DEF Reassembler
<1>2. chunk.index \in Nat /\ chunk.data \in Data /\ chunk.data # NoData
  BY RegistryAssumption, UINT16Assumption DEF Chunk
<1>3. /\ n \in Nat
      /\ DOMAIN chunks = 1..n
      /\ DOMAIN seen = 1..(n+1)
      /\ seen[n+1] = chunk
      /\ \A k \in 1..n : seen[k] = chunks[k]
  OBVIOUS
<1>4. \A i \in 0..t-1, k \in 1..n : IsFirst(chunks, k, i) => IsFirst(seen, k, i)
  BY <1>3 DEF IsFirst
<1>5. new.total = t
  BY <1>1 DEF add
<1>6. \A i \in 0..t-1 : i # chunk.index => new.slots[i] = asm.slots[i]
  BY <1>1, <1>2 DEF add, Slots
<1>7. ASSUME NEW i \in 0..t-1
      PROVE  /\ new.slots[i] = NoData => \A k \in DOMAIN seen : seen[k].index # i
             /\ new.slots[i] # NoData =>
                  \E k \in DOMAIN seen : IsFirst(seen, k, i) /\ new.slots[i] = seen[k].data
  <2>0. /\ asm.slots[i] = NoData => \A k \in DOMAIN chunks : chunks[k].index # i
        /\ asm.slots[i] # NoData =>
             \E k \in DOMAIN chunks : IsFirst(chunks, k, i) /\ asm.slots[i] = chunks[k].data
    BY <1>1 DEF Matches
  <2>1. CASE i # chunk.index
    <3>1. new.slots[i] = asm.slots[i]
      BY <1>6, <2>1
    <3>2. CASE asm.slots[i] = NoData
      BY <2>0, <2>1, <3>1, <3>2, <1>3
    <3>3. CASE asm.slots[i] # NoData
      BY <2>0, <3>1, <3>3, <1>3, <1>4
    <3> QED
      BY <3>2, <3>3
  <2>2. CASE i = chunk.index /\ asm.slots[i] = NoData
    <3>1. new.slots[i] = chunk.data
      BY <1>1, <1>2, <2>2 DEF add, add_refuses, Slots
    <3>2. IsFirst(seen, n+1, i)
      BY <1>3, <2>0, <2>2 DEF IsFirst
    <3> QED
      BY <3>1, <3>2, <1>2, <1>3
  <2>3. CASE i = chunk.index /\ asm.slots[i] # NoData
    <3>1. new.slots[i] = asm.slots[i]
      BY <2>3 DEF add, add_refuses
    <3> QED
      BY <2>0, <2>3, <3>1, <1>3, <1>4
  <2> QED
    BY <2>1, <2>2, <2>3
<1> QED
  BY <1>5, <1>7 DEF Matches

-----------------------------------------------------------------------------
(* An id is open exactly while it has a log, and its slots match the log.  *)
LogMatches ==
    \A id \in TransferId :
        /\ id \notin DOMAIN map_ => log[id] = <<>>
        /\ id \in DOMAIN map_ =>
              /\ log[id] # <<>>
              /\ map_[id].asm.total = log[id][1].total
              /\ Matches(map_[id].asm, log[id])

(* The inductive invariant: neither NoStall nor FirstChunkWins mentions    *)
(* the slots, which is all the next call of ingest looks at.               *)
IInv == TypeOK /\ CountsFilledSlots /\ LogMatches /\ FirstChunkWins

(* The reassembler to which ingest adds a chunk, and what it holds after.  *)
LEMMA EmplaceConsistent ==
  ASSUME IInv, NEW id \in TransferId, NEW index \in 0..UINT16-1,
         NEW total \in 1..UINT16-1, NEW data \in Data
  PROVE  LET m     == emplace(map_, id, total, now)
             chunk == [index |-> index, total |-> total, data |-> data]
             seen  == Append(log[id], chunk)
         IN  /\ DOMAIN m = DOMAIN map_ \cup {id}
             /\ \A x \in DOMAIN map_ : m[x] = map_[x]
             /\ m[id] \in [asm : Reassembler, created : 0..now]
             /\ Consistent(m[id].asm)
             /\ Matches(m[id].asm, log[id])
             /\ seen \in Seq(Chunk) /\ seen # <<>>
             /\ m[id].asm.total = seen[1].total
<1> DEFINE m     == emplace(map_, id, total, now)
           chunk == [index |-> index, total |-> total, data |-> data]
           seen  == Append(log[id], chunk)
<1>1. log[id] \in Seq(Chunk) /\ chunk \in Chunk
  BY DEF IInv, TypeOK, Chunk
<1>2. seen \in Seq(Chunk) /\ seen # <<>>
  BY <1>1
<1>3. DOMAIN m = DOMAIN map_ \cup {id} /\ \A x \in DOMAIN map_ : m[x] = map_[x]
  BY DEF emplace
<1>4. CASE id \in DOMAIN map_
  <2>1. m[id] = map_[id] /\ map_[id] \in [asm : Reassembler, created : 0..now]
    BY <1>3, <1>4 DEF IInv, TypeOK
  <2>2. Consistent(map_[id].asm)
    BY <1>4, <2>1 DEF IInv, CountsFilledSlots, Consistent
  <2>3. Matches(map_[id].asm, log[id]) /\ map_[id].asm.total = log[id][1].total
    BY <1>4 DEF IInv, LogMatches
  <2>4. seen[1] = log[id][1]
    BY <1>1, <1>4 DEF IInv, LogMatches
  <2> QED
    BY <1>2, <1>3, <2>1, <2>2, <2>3, <2>4
<1>5. CASE id \notin DOMAIN map_
  <2>1. m[id] = [asm |-> chunk_reassembler(total), created |-> now]
    BY <1>5 DEF emplace, entry
  <2>2. Consistent(chunk_reassembler(total))
    BY FreshConsistent
  <2>3. log[id] = <<>>
    BY <1>5 DEF IInv, LogMatches
  <2>4. Matches(chunk_reassembler(total), log[id])
    BY <2>3, FreshMatches
  <2>5. seen[1] = chunk
    BY <2>3, <1>1
  <2>6. chunk_reassembler(total).total = total
    BY DEF chunk_reassembler
  <2>7. now \in 0..now
    BY DEF IInv, TypeOK
  <2>8. chunk_reassembler(total) \in Reassembler
    BY <2>2 DEF Consistent
  <2> QED
    BY <1>2, <1>3, <2>1, <2>2, <2>4, <2>5, <2>6, <2>7, <2>8
<1> QED
  BY <1>4, <1>5

(* A full reassembler yields the first chunk of each index of its log.     *)
LEMMA FullGivesFirstChunks ==
  ASSUME NEW asm \in Reassembler, NEW chunks \in Seq(Chunk),
         Matches(asm, chunks), asm.total = chunks[1].total,
         asm.received = Cardinality(Filled(asm)), asm.received = asm.total
  PROVE  \E first \in [1..chunks[1].total -> DOMAIN chunks] :
            /\ \A i \in 1..chunks[1].total : IsFirst(chunks, first[i], i - 1)
            /\ assembled(asm) = FlattenSeq([i \in 1..chunks[1].total |-> chunks[first[i]].data])
<1> DEFINE t == asm.total
<1>1. t \in 1..UINT16-1 /\ t \in Nat /\ t >= 1
  BY UINT16Assumption DEF Reassembler
<1>2. Filled(asm) = 0..t-1
  <2>1. Filled(asm) \subseteq 0..t-1
    BY DEF Filled
  <2>2. IsFiniteSet(0..t-1) /\ Cardinality(0..t-1) = t
    <3>1. 0 \in Int /\ t-1 \in Int /\ ~(0 > t-1) /\ (t-1)-0+1 = t
      BY <1>1
    <3> QED
      BY <3>1, FS_Interval, Zenon
  <2> QED
    BY <2>1, <2>2, FS_Subset
<1>3. \A i \in 1..t : \E k \in DOMAIN chunks :
        IsFirst(chunks, k, i - 1) /\ asm.slots[i - 1] = chunks[k].data
  BY <1>1, <1>2 DEF Matches, Filled
<1> DEFINE first == [i \in 1..t |-> CHOOSE k \in DOMAIN chunks :
                       IsFirst(chunks, k, i - 1) /\ asm.slots[i - 1] = chunks[k].data]
<1>4. \A i \in 1..t : /\ first[i] \in DOMAIN chunks
                      /\ IsFirst(chunks, first[i], i - 1)
                      /\ asm.slots[i - 1] = chunks[first[i]].data
  BY <1>3
<1>5. first \in [1..t -> DOMAIN chunks]
  BY <1>4
<1>6. [i \in 1..t |-> asm.slots[i - 1]] = [i \in 1..t |-> chunks[first[i]].data]
  BY <1>4
<1>7. assembled(asm) = FlattenSeq([i \in 1..t |-> chunks[first[i]].data])
  BY <1>6 DEF assembled
<1> HIDE DEF first
<1> QED
  BY <1>4, <1>5, <1>7

(* ingest keeps the invariant.                                             *)
LEMMA IngestKeepsIInv ==
  ASSUME IInv, NEW id \in TransferId, NEW index \in 0..UINT16-1,
         NEW total \in 0..UINT16-1, NEW data \in Data,
         Ingest(id, index, total, data)
  PROVE  IInv'
<1> DEFINE m     == emplace(map_, id, total, now)
           asm   == m[id].asm
           new   == add(asm, index, data)
           chunk == [index |-> index, total |-> total, data |-> data]
           seen  == Append(log[id], chunk)
           done  == ingest_completes(map_, id, index, total, data, now)
<1>1. total \in 1..UINT16-1 /\ index \in Nat /\ chunk \in Chunk
  BY UINT16Assumption DEF Ingest, Chunk
<1>2. /\ DOMAIN m = DOMAIN map_ \cup {id}
      /\ \A x \in DOMAIN map_ : m[x] = map_[x]
      /\ m[id] \in [asm : Reassembler, created : 0..now]
      /\ Consistent(asm)
      /\ Matches(asm, log[id])
      /\ seen \in Seq(Chunk) /\ seen # <<>>
      /\ asm.total = seen[1].total
  BY <1>1, EmplaceConsistent
<1>3. /\ new \in Reassembler
      /\ new.total = asm.total
      /\ new.received = Cardinality(Filled(new))
      /\ new.received <= asm.total
  BY <1>1, <1>2, AddCounts
<1>4. Matches(new, seen)
  <2>1. chunk.index = index /\ chunk.data = data
    OBVIOUS
  <2>2. asm \in Reassembler /\ log[id] \in Seq(Chunk)
    BY <1>2 DEF IInv, TypeOK
  <2> QED
    BY <1>1, <1>2, <2>1, <2>2, AddMatches
<1>5. /\ now' = now
      /\ calls' \in 0..MaxIngests
      /\ log' = [log EXCEPT ![id] = IF done THEN <<>> ELSE seen]
      /\ returned' = IF done THEN {[id |-> id, log |-> seen, payload |-> assembled(new)]} ELSE {}
      /\ map_' = IF done THEN [x \in DOMAIN m \ {id} |-> m[x]]
                         ELSE [m EXCEPT ![id].asm = new]
  BY RegistryAssumption DEF Ingest, ingest, ingest_payload, IInv, TypeOK
<1>6. done <=> ~add_refuses(asm, index) /\ new.received >= asm.total
  BY DEF ingest_completes, add_completes
<1>7. log' \in [TransferId -> Seq(Chunk)] /\ \A x \in TransferId : x # id => log'[x] = log[x]
  BY <1>2, <1>5 DEF IInv, TypeOK
<1>8. \A x \in DOMAIN map_ : x \in TransferId
  BY DEF IInv, TypeOK
<1>9. asm.received \in Nat /\ new.received \in Nat /\ asm.total \in Nat
  BY <1>2, <1>3, UINT16Assumption DEF Reassembler
<1> HIDE DEF m, new, chunk, seen, done
<1>10. CASE done
  <2>1. /\ DOMAIN map_' = DOMAIN map_ \ {id}
        /\ \A x \in DOMAIN map_' : map_'[x] = map_[x]
    BY <1>2, <1>5, <1>10
  <2>2. TypeOK'
    BY <2>1, <1>5, <1>7 DEF IInv, TypeOK
  <2>3. CountsFilledSlots'
    BY <2>1 DEF IInv, CountsFilledSlots
  <2>4. log'[id] = <<>>
    BY <1>5, <1>10 DEF IInv, TypeOK
  <2>5. LogMatches'
    BY <2>1, <2>4, <1>7 DEF IInv, LogMatches
  <2>6. new.received = new.total
    BY <1>3, <1>6, <1>9, <1>10
  <2>7. returned' = {[id |-> id, log |-> seen, payload |-> assembled(new)]}
    BY <1>5, <1>10
  <2>8. FirstChunkWins'
    <3>1. \E first \in [1..seen[1].total -> DOMAIN seen] :
            /\ \A i \in 1..seen[1].total : IsFirst(seen, first[i], i - 1)
            /\ assembled(new) = FlattenSeq([i \in 1..seen[1].total |-> seen[first[i]].data])
      BY <1>2, <1>3, <1>4, <2>6, FullGivesFirstChunks
    <3>2. \A r \in returned' : r.log = seen /\ r.payload = assembled(new)
      BY <2>7
    <3> QED
      BY <3>1, <3>2, Zenon DEF FirstChunkWins
  <2> QED
    BY <2>2, <2>3, <2>5, <2>8 DEF IInv
<1>11. CASE ~done
  <2>1. /\ DOMAIN map_' = DOMAIN map_ \cup {id}
        /\ map_'[id] = [m[id] EXCEPT !.asm = new]
        /\ \A x \in DOMAIN map_ : x # id => map_'[x] = map_[x]
    BY <1>2, <1>5, <1>11
  <2>2. map_'[id] \in [asm : Reassembler, created : 0..now] /\ map_'[id].asm = new
    BY <1>2, <1>3, <2>1
  <2>3. TypeOK'
    BY <2>1, <2>2, <1>5, <1>7 DEF IInv, TypeOK
  <2>4. new.received < new.total
    <3>1. CASE add_refuses(asm, index)
      BY <3>1, <1>2 DEF new, add, Consistent
    <3>2. CASE ~add_refuses(asm, index)
      BY <3>2, <1>3, <1>6, <1>9, <1>11
    <3> QED
      BY <3>1, <3>2
  <2>5. CountsFilledSlots'
    BY <2>1, <2>2, <2>4, <1>3 DEF IInv, CountsFilledSlots
  <2>6. log'[id] = seen
    BY <1>5, <1>11 DEF IInv, TypeOK
  <2>7. LogMatches'
    <3>1. /\ log'[id] # <<>> /\ map_'[id].asm.total = log'[id][1].total
          /\ Matches(map_'[id].asm, log'[id])
      BY <2>2, <2>6, <1>2, <1>3, <1>4 DEF IInv, LogMatches
    <3>2. ASSUME NEW x \in TransferId, x # id
          PROVE  /\ x \notin DOMAIN map_' => log'[x] = <<>>
                 /\ x \in DOMAIN map_' => /\ log'[x] # <<>>
                                          /\ map_'[x].asm.total = log'[x][1].total
                                          /\ Matches(map_'[x].asm, log'[x])
      BY <3>2, <2>1, <1>7 DEF IInv, LogMatches
    <3>3. id \in DOMAIN map_'
      BY <2>1
    <3> QED
      BY <3>1, <3>2, <3>3, SMT DEF LogMatches
  <2>8. FirstChunkWins'
    BY <1>5, <1>11 DEF FirstChunkWins
  <2> QED
    BY <2>3, <2>5, <2>7, <2>8 DEF IInv
<1> QED
  BY <1>10, <1>11

(* prune keeps the invariant.                                              *)
LEMMA PruneKeepsIInv ==
  ASSUME IInv, Prune
  PROVE  IInv'
<1>1. /\ DOMAIN map_' \subseteq DOMAIN map_
      /\ \A x \in DOMAIN map_' : map_'[x] = map_[x]
      /\ now' = now /\ calls' = calls /\ returned' = {}
      /\ log' = [id \in TransferId |-> IF id \in DOMAIN map_' THEN log[id] ELSE <<>>]
  BY DEF Prune, prune
<1>2. TypeOK'
  <2>1. <<>> \in Seq(Chunk)
    OBVIOUS
  <2>2. \A id \in TransferId : log[id] \in Seq(Chunk)
    BY DEF IInv, TypeOK
  <2>3. log' \in [TransferId -> Seq(Chunk)]
    BY <1>1, <2>1, <2>2
  <2> QED
    BY <1>1, <2>3 DEF IInv, TypeOK
<1>3. CountsFilledSlots'
  BY <1>1 DEF IInv, CountsFilledSlots
<1>4. LogMatches'
  BY <1>1 DEF IInv, LogMatches
<1>5. FirstChunkWins'
  BY <1>1 DEF FirstChunkWins
<1> QED
  BY <1>2, <1>3, <1>4, <1>5 DEF IInv

(* IInv is an invariant of the specification.                              *)
THEOREM RegistryInvariant == Spec => []IInv
<1>1. Init => IInv
  <2> SUFFICES ASSUME Init PROVE IInv
    OBVIOUS
  <2>1. DOMAIN map_ = {} /\ returned = {} /\ log \in [TransferId -> Seq(Chunk)]
    BY DEF Init
  <2>2. TypeOK
    BY <2>1, RegistryAssumption DEF Init, TypeOK
  <2> QED
    BY <2>1, <2>2 DEF Init, IInv, CountsFilledSlots, LogMatches, FirstChunkWins
<1>2. IInv /\ [Next]_vars => IInv'
  <2> SUFFICES ASSUME IInv, [Next]_vars PROVE IInv'
    OBVIOUS
  <2>1. ASSUME NEW id \in TransferId, NEW index \in 0..UINT16-1,
               NEW total \in 0..UINT16-1, NEW data \in Data,
               Ingest(id, index, total, data)
        PROVE  IInv'
    BY <2>1, IngestKeepsIInv
  <2>2. CASE Prune
    BY <2>2, PruneKeepsIInv
  <2>3. CASE Tick
    <3>1. /\ UNCHANGED <<map_, log, returned, calls>>
          /\ now' = now + 1 /\ now \in 0..MaxTime /\ now' \in 0..MaxTime
      BY <2>3, RegistryAssumption DEF Tick, IInv, TypeOK
    <3>2. \A c \in 0..now : c \in 0..now'
      BY <3>1, RegistryAssumption
    <3>3. TypeOK'
      BY <3>1, <3>2 DEF IInv, TypeOK
    <3> QED
      BY <3>1, <3>3 DEF IInv, CountsFilledSlots, LogMatches, FirstChunkWins
  <2>4. CASE UNCHANGED vars
    BY <2>4 DEF vars, IInv, TypeOK, CountsFilledSlots, LogMatches, FirstChunkWins
  <2> QED
    BY <2>1, <2>2, <2>3, <2>4 DEF Next
<1> QED
  BY <1>1, <1>2, PTL DEF Spec

(* received_ counts the filled slots and no complete entry stays open.     *)
THEOREM CountsFilledSlotsAlways == Spec => [](TypeOK /\ CountsFilledSlots)
BY RegistryInvariant, PTL DEF IInv

(* The slots, the counters and the times of the registry keep their types, *)
(* for every TTL and every width of the index: an index that is not below  *)
(* the total of its transfer never reaches a slot.                         *)
THEOREM RegistryTypeOK == Spec => []TypeOK
BY RegistryInvariant, PTL DEF IInv

(* What ingest returns is the first chunk of every index, in order.        *)
THEOREM FirstChunkWinsAlways == Spec => []FirstChunkWins
BY RegistryInvariant, PTL DEF IInv

(* An open transfer always misses an index: a full one was delivered.      *)
THEOREM NoStallAlways == Spec => []NoStall
<1>1. IInv => NoStall
  <2> SUFFICES ASSUME IInv, NEW id \in DOMAIN map_
               PROVE  \E i \in 0..log[id][1].total-1 :
                         \A k \in DOMAIN log[id] : log[id][k].index # i
    BY DEF NoStall
  <2> DEFINE asm == map_[id].asm
             t == asm.total
  <2>1. id \in TransferId /\ asm \in Reassembler
    BY DEF IInv, TypeOK
  <2>2. asm.received = Cardinality(Filled(asm)) /\ asm.received < t
    BY DEF IInv, CountsFilledSlots
  <2>3. t = log[id][1].total /\ Matches(asm, log[id])
    BY <2>1 DEF IInv, LogMatches
  <2>4. t \in Nat /\ t >= 1
    BY <2>1, UINT16Assumption DEF Reassembler
  <2>5. Cardinality(0..t-1) = t
    <3>1. 0 \in Int /\ t-1 \in Int /\ ~(0 > t-1) /\ (t-1)-0+1 = t
      BY <2>4
    <3> QED
      BY <3>1, FS_Interval, Zenon
  <2>6. Filled(asm) # 0..t-1
    BY <2>2, <2>4, <2>5
  <2>7. PICK i \in 0..t-1 : asm.slots[i] = NoData
    BY <2>6 DEF Filled
  <2> QED
    BY <2>3, <2>7 DEF Matches
<1> QED
  BY <1>1, RegistryInvariant, PTL

(* A transfer leaves the registry delivered or expired.                    *)
THEOREM LeavesDoneOrExpiredAlways == Spec => LeavesDoneOrExpired
<1> DEFINE Leaves == \A id \in DOMAIN map_ \ DOMAIN map_' :
                      (\E r \in returned' : r.id = id) \/ now - map_[id].created > TTL
<1>1. [Next]_vars => [Leaves]_vars
  <2> SUFFICES ASSUME Next, NEW id \in DOMAIN map_ \ DOMAIN map_'
               PROVE  (\E r \in returned' : r.id = id) \/ now - map_[id].created > TTL
    OBVIOUS
  <2>1. ASSUME NEW i \in TransferId, NEW index \in 0..UINT16-1,
               NEW total \in 0..UINT16-1, NEW data \in Data,
               Ingest(i, index, total, data)
        PROVE  \E r \in returned' : r.id = id
    <3>1. i = id /\ ingest_completes(map_, i, index, total, data, now)
      BY <2>1 DEF Ingest, ingest, emplace
    <3> QED
      BY <2>1, <3>1 DEF Ingest
  <2>2. CASE Prune
    BY <2>2 DEF Prune, prune
  <2>3. CASE Tick
    BY <2>3 DEF Tick
  <2> QED
    BY <2>1, <2>2, <2>3 DEF Next
<1> QED
  BY <1>1, PTL DEF Spec, LeavesDoneOrExpired

=============================================================================
