--------------------------- MODULE PeerLinkProofs ---------------------------
(***************************************************************************)
(* Proofs about PeerLink, for any number of sender threads, any texts and  *)
(* files, any chunk size and any capacities.                               *)
(*                                                                         *)
(* The first part needs no hypothesis: the state keeps its types, the      *)
(* nonces are read in order, and the ring holds the latest messages.  The  *)
(* second part is about what is delivered.  The model has two known ways   *)
(* to deliver something else than what was sent, a text that looks like a  *)
(* chunk frame (the run lookalike) and a file of too many chunks; where    *)
(* there are no such texts and files, the connection implements            *)
(* MessageChannel.                                                         *)
(***************************************************************************)
EXTENDS PeerLink, SequenceFacts

Message == Texts \cup Files
Plain   == {text \in Texts : Len(text) <= CHUNK_PAYLOAD_SIZE}
Cell    == UNION {ToSet(d) : d \in Message}
Bytes   == Seq(Cell \cup ChunkHeader)
Item    == [part : {"len"}, of : Nat] \cup [part : {"body"}, nonce : Nat, pt : Bytes]

ThreadState ==
    [pc : {"idle", "lock", "seal", "len", "body"}, data : Message \cup {<<>>},
     chunked : BOOLEAN, id : TransferId \cup {NoData}, i : Nat, nonce : Nat, call : Nat]

(* A thread holds send_mu from Lock to its return.  Only what is longer    *)
(* than nothing is sent in chunks; a frame on its way has the last nonce.  *)
Senders ==
    /\ send_mu \in Thread \cup {NoThread} /\ send_ctr_ \in Nat
    /\ sent \in Seq(Message)
    /\ th \in [Thread -> ThreadState]
    /\ \A t \in Thread :
          /\ th[t].pc \in {"seal", "len", "body"} <=> send_mu = t
          /\ th[t].pc # "idle" => th[t].data \in IF th[t].chunked THEN Message \ {<<>>} ELSE Plain
          /\ th[t].pc \in {"seal", "len", "body"} /\ th[t].chunked => th[t].id \in TransferId
          /\ th[t].chunked => th[t].i <= Total(th[t].data)
          /\ ~th[t].chunked => th[t].i = 0
          /\ th[t].pc \in {"idle", "lock"} => th[t].i = 0
          /\ th[t].pc \in {"len", "body"} => MoreToSend(t) /\ th[t].nonce + 1 = send_ctr_

(* The thread of recv_loop still reads.                                    *)
Reading == rpc \in {"setup", "loop"}

(* The items that the holder of send_mu has yet to write of its frame.     *)
Pending ==
    IF send_mu = NoThread THEN 0
    ELSE IF th[send_mu].pc = "len" THEN 2 ELSE IF th[send_mu].pc = "body" THEN 1 ELSE 0

(* The stream is the frames from the next nonce to be read up to the last  *)
(* one taken, or a beginning of them if the connection is lost.            *)
Stream ==
    /\ link \in Seq(Item) /\ Len(link) <= LinkCap
    /\ rcvd \in Seq(Nat) /\ \A k \in 1 .. Len(rcvd) : rcvd[k] = k - 1
    /\ Reading =>
          /\ \A m \in Nat : 2 * m \in 1 .. Len(link) => link[2 * m].nonce = Len(rcvd) + m - 1
          /\ up => 2 * Len(rcvd) + Len(link) + Pending = 2 * send_ctr_

(* received_msgs_ is the end of delivered, place by place.                 *)
RingOf(T) ==
    /\ delivered \in Seq(T) /\ received_msgs_ \in Seq(T)
    /\ drained \in 0 .. Len(delivered)
    /\ Len(received_msgs_) = IF Len(delivered) - drained > RING THEN RING
                             ELSE Len(delivered) - drained
    /\ \A i \in 1 .. Len(received_msgs_) :
          received_msgs_[i] = delivered[Len(delivered) - Len(received_msgs_) + i]

Ring == \E T : RingOf(T)

Rest == up \in BOOLEAN /\ rpc \in {"setup", "loop", "leaving", "gone"} /\ held \in BOOLEAN
        /\ DOMAIN chunks \subseteq TransferId

(* The inductive invariant of the first part.                              *)
IInv == Senders /\ Stream /\ Ring /\ Rest

-----------------------------------------------------------------------------
(* Messages are sequences of cells.                                        *)
LEMMA MessageFacts ==
    ASSUME NEW d \in Message \cup {<<>>}
    PROVE  d \in Seq(Cell) /\ Len(d) \in Nat /\ (d = <<>> <=> Len(d) = 0)
<1>1. d \in Seq(Cell)
  <2>1. CASE d \in Message
    <3>1. d \in Seq(ToSet(d))
      BY <2>1, PeerLinkAssumption DEF Message
    <3>2. ToSet(d) \subseteq Cell
      BY <2>1 DEF Cell
    <3> QED
      BY <3>1, <3>2, SeqMonotonic
  <2>2. CASE d = <<>>
    BY <2>2, EmptySeq
  <2> QED
    BY <2>1, <2>2
<1>2. Len(d) \in Nat
  BY <1>1, LenProperties
<1> QED
  BY <1>1, <1>2, EmptySeq

(* total of send_chunked is a uint16_t.                                    *)
LEMMA TotalFacts ==
    ASSUME NEW d \in Message \cup {<<>>}
    PROVE  Needed(d) \in Nat /\ Total(d) \in Nat /\ Total(d) \in 0 .. UINT16 - 1
<1>1. Len(d) \in Nat /\ CHUNK_PAYLOAD_SIZE \in Nat \ {0}
  BY MessageFacts, PeerLinkAssumption
<1>2. Len(d) + CHUNK_PAYLOAD_SIZE - 1 \in Nat
  BY <1>1
<1>3. (Len(d) + CHUNK_PAYLOAD_SIZE - 1) \div CHUNK_PAYLOAD_SIZE \in Nat
  BY <1>1, <1>2
<1>4. Needed(d) \in Nat
  BY <1>3 DEF Needed, CeilDiv
<1> QED
  BY <1>4, UINT16Assumption DEF Total

(* A piece of the data is a sequence of its cells.                         *)
LEMMA PieceFacts ==
    ASSUME NEW d \in Message, NEW i \in Nat
    PROVE  Piece(d, i) \in Seq(Cell)
<1> DEFINE C == CHUNK_PAYLOAD_SIZE
           offset == i * C
           rest == Len(d) - offset
           end == offset + (IF rest < C THEN rest ELSE C)
<1>1. Len(d) \in Nat /\ C \in Nat \ {0} /\ d \in Seq(ToSet(d)) /\ ToSet(d) \subseteq Cell
  BY MessageFacts, PeerLinkAssumption DEF Message, Cell
<1>2. offset \in Nat
  BY <1>1
<1>3. end \in Int /\ end <= Len(d)
  <2> HIDE DEF offset
  <2> QED
    BY <1>1, <1>2
<1>4. \A j \in offset + 1 .. end : d[j] \in ToSet(d)
  <2> HIDE DEF end, offset
  <2> QED
    BY <1>1, <1>2, <1>3, LenProperties DEF ToSet
<1>5. Piece(d, i) = SubSeq(d, offset + 1, end)
  BY DEF Piece
<1>6. Piece(d, i) \in Seq(ToSet(d))
  <2> HIDE DEF end, offset
  <2> QED
    BY <1>2, <1>3, <1>4, <1>5, SubSeqProperties
<1> QED
  BY <1>1, <1>6, SeqMonotonic

(* What a thread is about to send is a byte string.                        *)
LEMMA PlaintextFacts ==
    ASSUME NEW t \in Thread, Senders, th[t].pc \in {"len", "body"}
    PROVE  Plaintext(t) \in Bytes /\ Len(Plaintext(t)) \in Nat
<1>1. th[t] \in ThreadState /\ th[t].data \in Message
  BY DEF Senders, Message, Plain
<1>2. CASE ~th[t].chunked
  <2>1. th[t].data \in Seq(Cell)
    BY <1>1, MessageFacts
  <2>2. th[t].data \in Bytes
    BY <2>1, SeqMonotonic DEF Bytes
  <2> QED
    BY <1>2, <2>1, <2>2, LenProperties DEF Plaintext
<1>3. CASE th[t].chunked
  <2> DEFINE d == th[t].data
             i == th[t].i
             h == [transfer_id |-> th[t].id, index |-> i, total |-> Total(d)]
             S == Cell \cup ChunkHeader
  <2>1. i \in Nat /\ i < Total(d) /\ Total(d) \in 0 .. UINT16 - 1 /\ th[t].id \in TransferId
    BY <1>1, <1>3, TotalFacts DEF Senders, ThreadState, MoreToSend
  <2>2. h \in ChunkHeader
    BY <2>1, UINT16Assumption DEF ChunkHeader
  <2>3. Piece(d, i) \in Seq(Cell)
    BY <1>1, <2>1, PieceFacts
  <2>4. Piece(d, i) \in Seq(S) /\ <<h>> \in Seq(S)
    <3> HIDE DEF h, i, d
    <3> QED
      BY <2>2, <2>3, SeqMonotonic
  <2>5. Plaintext(t) = <<h>> \o Piece(d, i)
    BY <1>3 DEF Plaintext, make_chunk_frame
  <2> HIDE DEF h, i, d
  <2>6. <<h>> \o Piece(d, i) \in Seq(S) /\ Len(<<h>> \o Piece(d, i)) \in Nat
    BY <2>4, ConcatProperties, LenProperties
  <2> QED
    BY <2>5, <2>6 DEF Bytes
<1> QED
  BY <1>2, <1>3

-----------------------------------------------------------------------------
(* The initial state satisfies the invariant.                              *)
LEMMA InitIInv == Init => IInv
<1> SUFFICES ASSUME Init PROVE IInv
  OBVIOUS
<1>1. Senders
  <2>1. IdleThread \in ThreadState
    BY DEF IdleThread, ThreadState
  <2>2. th \in [Thread -> ThreadState] /\ \A t \in Thread : th[t] = IdleThread
    BY <2>1 DEF Init
  <2> QED
    BY <2>2, PeerLinkAssumption, EmptySeq DEF Init, Senders, IdleThread
<1>2. Stream
  <2>1. link = <<>> /\ rcvd = <<>> /\ send_mu = NoThread /\ send_ctr_ = 0
    BY DEF Init
  <2>2. Len(<<>>) = 0
    OBVIOUS
  <2> QED
    BY <2>1, <2>2, PeerLinkAssumption, EmptySeq DEF Stream, Pending
<1>3. Ring
  <2>1. RingOf({})
    BY PeerLinkAssumption, EmptySeq DEF Init, RingOf
  <2> QED
    BY <2>1 DEF Ring
<1>4. Rest
  BY DEF Init, Rest
<1> QED
  BY <1>1, <1>2, <1>3, <1>4 DEF IInv

-----------------------------------------------------------------------------
(* What is said of one thread in Senders.                                  *)
ThreadOK(s, ctr) ==
    /\ s \in ThreadState
    /\ s.pc # "idle" => s.data \in IF s.chunked THEN Message \ {<<>>} ELSE Plain
    /\ s.pc \in {"seal", "len", "body"} /\ s.chunked => s.id \in TransferId
    /\ s.chunked => s.i <= Total(s.data)
    /\ ~s.chunked => s.i = 0
    /\ s.pc \in {"idle", "lock"} => s.i = 0
    /\ s.pc \in {"len", "body"} => (s.chunked => s.i < Total(s.data)) /\ s.nonce + 1 = ctr

(* Senders, thread by thread.                                              *)
LEMMA SendersIs ==
    Senders <=> /\ send_mu \in Thread \cup {NoThread} /\ send_ctr_ \in Nat
                /\ sent \in Seq(Message)
                /\ th \in [Thread -> ThreadState]
                /\ \A t \in Thread : /\ th[t].pc \in {"seal", "len", "body"} <=> send_mu = t
                                     /\ ThreadOK(th[t], send_ctr_)
BY DEF Senders, ThreadOK, MoreToSend

(* The same of the state after a step.                                     *)
LEMMA SendersIsPrimed ==
    Senders' <=> /\ send_mu' \in Thread \cup {NoThread} /\ send_ctr_' \in Nat
                 /\ sent' \in Seq(Message)
                 /\ th' \in [Thread -> ThreadState]
                 /\ \A t \in Thread : /\ th'[t].pc \in {"seal", "len", "body"} <=> send_mu' = t
                                      /\ ThreadOK(th'[t], send_ctr_')
BY DEF Senders, ThreadOK, MoreToSend

(* A step of one thread: send_mu is with it or was free, and changes only  *)
(* as the thread's own place says.                                         *)
LEMMA SendersStep ==
    ASSUME Senders, NEW t \in Thread, NEW s, ThreadOK(s, send_ctr_'),
           th' = [th EXCEPT ![t] = s],
           send_mu' = IF s.pc \in {"seal", "len", "body"} THEN t
                      ELSE IF send_mu = t THEN NoThread ELSE send_mu,
           send_mu \in {t, NoThread} \/ (s.pc \notin {"seal", "len", "body"} /\ send_ctr_' = send_ctr_),
           send_ctr_' \in Nat, sent' \in Seq(Message)
    PROVE  Senders' /\ th'[t] = s /\ \A u \in Thread : u # t => th'[u] = th[u]
<1>1. /\ send_mu \in Thread \cup {NoThread} /\ th \in [Thread -> ThreadState]
      /\ \A u \in Thread : /\ th[u].pc \in {"seal", "len", "body"} <=> send_mu = u
                           /\ ThreadOK(th[u], send_ctr_)
  BY SendersIs
<1>2. th' \in [Thread -> ThreadState] /\ th'[t] = s /\ \A u \in Thread : u # t => th'[u] = th[u]
  BY <1>1 DEF ThreadOK
<1>3. NoThread \notin Thread
  BY PeerLinkAssumption
<1>4. send_mu' \in Thread \cup {NoThread}
  BY <1>1
<1>5. ASSUME NEW u \in Thread
      PROVE  /\ th'[u].pc \in {"seal", "len", "body"} <=> send_mu' = u
             /\ ThreadOK(th'[u], send_ctr_')
  <2>1. CASE u = t
    BY <1>1, <1>2, <1>3, <2>1
  <2>2. CASE u # t
    <3>1. th'[u].pc \in {"seal", "len", "body"} <=> send_mu' = u
      BY <1>1, <1>2, <1>3, <2>2
    <3>2. ThreadOK(th[u], send_ctr_) /\ (send_ctr_' = send_ctr_ \/ send_mu # u)
      BY <1>1, <1>3, <2>2
    <3>3. ThreadOK(th[u], send_ctr_')
      <4>1. CASE send_ctr_' = send_ctr_
        BY <3>2, <4>1
      <4>2. CASE send_mu # u
        <5>1. th[u].pc \notin {"seal", "len", "body"}
          BY <1>1, <4>2
        <5> QED
          BY <3>2, <5>1 DEF ThreadOK
      <4> QED
        BY <3>2, <4>1, <4>2
    <3> QED
      BY <1>2, <2>2, <3>1, <3>3
  <2> QED
    BY <2>1, <2>2
<1> QED
  BY <1>2, <1>4, <1>5, SendersIsPrimed

(* A step that leaves the receiver alone keeps what is said of it.         *)
LEMMA ReceiverSame ==
    ASSUME Ring, Rest, UNCHANGED receiver, up' \in BOOLEAN
    PROVE  Ring' /\ Rest'
BY DEF Ring, RingOf, Rest, receiver

-----------------------------------------------------------------------------
(* A thread hands over a message.                                          *)
LEMMA CallKeeps ==
    ASSUME NEW t \in Thread, NEW data \in Message, NEW chunked \in BOOLEAN,
           data \in IF chunked THEN Message \ {<<>>} ELSE Plain,
           IInv, Call(t, data, chunked)
    PROVE  IInv'
<1> DEFINE s == [IdleThread EXCEPT !.pc = "lock", !.data = data, !.chunked = chunked]
<1>1. /\ th' = [th EXCEPT ![t] = s] /\ th[t].pc = "idle"
      /\ UNCHANGED <<send_mu, send_ctr_, sent, outcome, link, up, receiver>>
  BY DEF Call
<1>2. /\ s \in ThreadState /\ s.pc = "lock" /\ s.data = data /\ s.chunked = chunked /\ s.i = 0
  BY DEF IdleThread, ThreadState
<1> HIDE DEF s
<1>3. ThreadOK(s, send_ctr_')
  <2>1. 0 <= Total(data)
    BY TotalFacts
  <2> QED
    BY <1>2, <2>1 DEF ThreadOK
<1>4. s.pc = "lock"
  BY <1>2
<1>5. send_mu # t /\ send_ctr_ \in Nat /\ sent \in Seq(Message)
      /\ send_mu \in Thread \cup {NoThread}
  BY <1>1 DEF IInv, Senders
<1>6. Senders' /\ th'[t] = s /\ \A u \in Thread : u # t => th'[u] = th[u]
  BY <1>1, <1>3, <1>4, <1>5, SendersStep DEF IInv
<1>7. Pending' = Pending
  BY <1>1, <1>5, <1>6 DEF Pending
<1>8. Stream'
  BY <1>1, <1>7 DEF IInv, Stream, Reading, receiver
<1> QED
  BY <1>1, <1>6, <1>8, ReceiverSame DEF IInv, Rest

(* A thread takes send_mu.                                                 *)
LEMMA LockKeeps ==
    ASSUME NEW t \in Thread, IInv, NEW id \in TransferId \cup {NoData},
           th[t].chunked => id \in TransferId, Lock(t, id)
    PROVE  IInv' /\ th[t].data \in Message /\ sent' = Append(sent, th[t].data)
<1> DEFINE s == [th[t] EXCEPT !.pc = "seal", !.id = id, !.call = Len(sent) + 1]
<1>1. /\ th' = [th EXCEPT ![t].pc = "seal", ![t].id = id, ![t].call = Len(sent) + 1]
      /\ th[t].pc = "lock" /\ send_mu = NoThread /\ send_mu' = t
      /\ sent' = Append(sent, th[t].data)
      /\ UNCHANGED <<send_ctr_, outcome, link, up, receiver>>
  BY DEF Lock
<1>2. th \in [Thread -> ThreadState] /\ ThreadOK(th[t], send_ctr_) /\ send_ctr_ \in Nat
      /\ sent \in Seq(Message)
  BY SendersIs DEF IInv
<1>3. th' = [th EXCEPT ![t] = s]
  BY <1>1, <1>2
<1>4. th[t].data \in Message
  BY <1>1, <1>2 DEF ThreadOK, Message, Plain
<1>5. sent' \in Seq(Message) /\ Len(sent) + 1 \in Nat
  BY <1>1, <1>2, <1>4, AppendProperties, LenProperties
<1>6. /\ s \in ThreadState /\ s.pc = "seal" /\ s.data = th[t].data /\ s.chunked = th[t].chunked
      /\ s.i = th[t].i /\ s.id = id
  BY <1>2, <1>5 DEF ThreadState
<1> HIDE DEF s
<1>7. ThreadOK(s, send_ctr_')
  BY <1>1, <1>2, <1>6 DEF ThreadOK
<1>8. Senders' /\ th'[t] = s /\ \A u \in Thread : u # t => th'[u] = th[u]
  BY <1>1, <1>2, <1>3, <1>5, <1>6, <1>7, SendersStep DEF IInv
<1>9. Pending' = 0 /\ Pending = 0
  BY <1>1, <1>6, <1>8, PeerLinkAssumption DEF Pending
<1>10. Stream'
  BY <1>1, <1>9 DEF IInv, Stream, Reading, receiver
<1> QED
  BY <1>1, <1>4, <1>8, <1>10, ReceiverSame DEF IInv, Rest

(* A thread takes a nonce.                                                 *)
LEMMA SealKeeps ==
    ASSUME NEW t \in Thread, IInv, Seal(t)
    PROVE  IInv'
<1> DEFINE s == [th[t] EXCEPT !.pc = "len", !.nonce = send_ctr_]
<1>1. /\ th' = [th EXCEPT ![t].pc = "len", ![t].nonce = send_ctr_]
      /\ th[t].pc = "seal" /\ MoreToSend(t) /\ send_ctr_' = send_ctr_ + 1
      /\ UNCHANGED <<send_mu, sent, outcome, link, up, receiver>>
  BY DEF Seal
<1>2. th \in [Thread -> ThreadState] /\ ThreadOK(th[t], send_ctr_) /\ send_ctr_ \in Nat
      /\ sent \in Seq(Message) /\ send_mu = t
  BY <1>1, SendersIs DEF IInv
<1>3. th' = [th EXCEPT ![t] = s]
  BY <1>1, <1>2
<1>4. /\ s \in ThreadState /\ s.pc = "len" /\ s.data = th[t].data /\ s.chunked = th[t].chunked
      /\ s.i = th[t].i /\ s.id = th[t].id /\ s.nonce = send_ctr_
  BY <1>2 DEF ThreadState
<1> HIDE DEF s
<1>5. ThreadOK(s, send_ctr_')
  BY <1>1, <1>2, <1>4 DEF ThreadOK, MoreToSend
<1>6. Senders' /\ th'[t] = s /\ \A u \in Thread : u # t => th'[u] = th[u]
  <2>1. /\ send_mu' = t /\ s.pc \in {"seal", "len", "body"}
        /\ send_ctr_' \in Nat /\ sent' \in Seq(Message)
    BY <1>1, <1>2, <1>4
  <2> QED
    BY <1>2, <1>3, <1>5, <2>1, SendersStep DEF IInv
<1>7. Pending' = 2 /\ Pending = 0
  BY <1>1, <1>2, <1>4, <1>6, PeerLinkAssumption DEF Pending
<1>8. Len(link) \in Nat /\ Len(rcvd) \in Nat
  BY LenProperties DEF IInv, Stream
<1>9. UNCHANGED <<link, up, rcvd, rpc>>
  BY <1>1 DEF receiver
<1>10. Stream'
  <2>1. Reading /\ up => 2 * Len(rcvd) + Len(link) + Pending' = 2 * send_ctr_'
    <3>1. Reading /\ up => 2 * Len(rcvd) + Len(link) + Pending = 2 * send_ctr_
      BY DEF IInv, Stream
    <3>2. send_ctr_' = send_ctr_ + 1
      BY <1>1
    <3> QED
      BY <1>2, <1>7, <1>8, <3>1, <3>2
  <2> QED
    BY <1>9, <2>1 DEF IInv, Stream, Reading
<1> QED
  BY <1>1, <1>6, <1>10, ReceiverSame DEF IInv, Rest

(* What a successful write does to the stream.                             *)
LEMMA PutFacts ==
    ASSUME NEW item \in Item, Stream, Put(item)
    PROVE  /\ link' \in Seq(Item) /\ Len(link') <= LinkCap
           /\ ~up => link' = link
           /\ up => /\ Len(link') = Len(link) + 1 /\ link'[Len(link) + 1] = item
                    /\ \A j \in 1 .. Len(link) : link'[j] = link[j]
<1>1. link \in Seq(Item) /\ Len(link) \in Nat /\ Len(link) <= LinkCap
  BY LenProperties DEF Stream
<1>2. CASE up /\ Len(link) < LinkCap /\ link' = Append(link, item)
  BY <1>1, <1>2, AppendProperties, PeerLinkAssumption
<1>3. CASE ~up /\ UNCHANGED link
  BY <1>1, <1>3
<1> QED
  BY <1>2, <1>3 DEF Put

(* An item more on the stream, with the nonce that is due if it is a body. *)
LEMMA StreamGrows ==
    ASSUME Stream, UNCHANGED <<rcvd, rpc, up, send_ctr_>>, send_ctr_ \in Nat,
           NEW item \in Item, Put(item), Pending \in {1, 2}, Pending' = Pending - 1,
           Pending = 1 => item.nonce + 1 = send_ctr_ /\ item.nonce \in Nat
    PROVE  Stream'
<1>1. /\ link' \in Seq(Item) /\ Len(link') <= LinkCap
      /\ ~up => link' = link
      /\ up => /\ Len(link') = Len(link) + 1 /\ link'[Len(link) + 1] = item
               /\ \A j \in 1 .. Len(link) : link'[j] = link[j]
  BY PutFacts
<1>2. Len(link) \in Nat /\ Len(rcvd) \in Nat
  BY LenProperties DEF Stream
<1>3. Reading /\ up => 2 * Len(rcvd) + Len(link) + Pending = 2 * send_ctr_
  BY DEF Stream
<1>4. Reading /\ up => 2 * Len(rcvd) + Len(link') + Pending' = 2 * send_ctr_
  BY <1>1, <1>2, <1>3
<1>5. ASSUME NEW m \in Nat, Reading, 2 * m \in 1 .. Len(link')
      PROVE  link'[2 * m].nonce = Len(rcvd) + m - 1
  <2>1. CASE 2 * m \in 1 .. Len(link)
    BY <1>1, <1>5, <2>1 DEF Stream
  <2>2. CASE ~(2 * m \in 1 .. Len(link))
    <3>1. up /\ 2 * m = Len(link) + 1
      BY <1>1, <1>2, <1>5, <2>2
    <3>2. Pending = 1
      BY <1>2, <1>3, <1>5, <3>1
    <3>3. Len(rcvd) + m = send_ctr_
      BY <1>2, <1>3, <1>5, <3>1, <3>2
    <3> QED
      BY <1>1, <1>2, <3>1, <3>2, <3>3
  <2> QED
    BY <2>1, <2>2
<1> QED
  BY <1>1, <1>4, <1>5 DEF Stream, Reading

(* A thread writes a length prefix.                                        *)
LEMMA SendLenKeeps ==
    ASSUME NEW t \in Thread, IInv, SendLen(t)
    PROVE  IInv'
<1> DEFINE s == [th[t] EXCEPT !.pc = "body"]
           item == [part |-> "len", of |-> Len(Plaintext(t))]
<1>1. /\ th' = [th EXCEPT ![t].pc = "body"] /\ th[t].pc = "len" /\ Put(item)
      /\ UNCHANGED <<send_mu, send_ctr_, sent, outcome, up, receiver>>
  BY DEF SendLen
<1>2. th \in [Thread -> ThreadState] /\ ThreadOK(th[t], send_ctr_) /\ send_ctr_ \in Nat
      /\ sent \in Seq(Message) /\ send_mu = t
  BY <1>1, SendersIs DEF IInv
<1>3. th' = [th EXCEPT ![t] = s]
  BY <1>1, <1>2
<1>4. /\ s \in ThreadState /\ s.pc = "body" /\ s.data = th[t].data /\ s.chunked = th[t].chunked
      /\ s.i = th[t].i /\ s.id = th[t].id /\ s.nonce = th[t].nonce
  BY <1>2 DEF ThreadState
<1> HIDE DEF s
<1>5. ThreadOK(s, send_ctr_')
  BY <1>1, <1>2, <1>4 DEF ThreadOK
<1>6. Senders' /\ th'[t] = s /\ \A u \in Thread : u # t => th'[u] = th[u]
  <2>1. /\ send_mu' = t /\ s.pc \in {"seal", "len", "body"}
        /\ send_ctr_' \in Nat /\ sent' \in Seq(Message)
    BY <1>1, <1>2, <1>4
  <2> QED
    BY <1>2, <1>3, <1>5, <2>1, SendersStep DEF IInv
<1>7. Pending' = 1 /\ Pending = 2
  BY <1>1, <1>2, <1>4, <1>6, PeerLinkAssumption DEF Pending
<1>8. item \in Item
  BY <1>1, PlaintextFacts DEF IInv, Item
<1>9. UNCHANGED <<rcvd, rpc, up, send_ctr_>>
  BY <1>1 DEF receiver
<1>10. Stream'
  <2> HIDE DEF item
  <2> QED
    BY <1>1, <1>2, <1>7, <1>8, <1>9, StreamGrows DEF IInv
<1> QED
  BY <1>1, <1>6, <1>10, ReceiverSame DEF IInv, Rest

(* A thread returns to its caller.                                         *)
LEMMA ReturnFacts ==
    ASSUME NEW t \in Thread, IInv, NEW ok, NEW n, Return(t, ok, n), send_mu = t,
           UNCHANGED <<send_ctr_, sent>>
    PROVE  Senders' /\ Pending' = 0 /\ send_mu' = NoThread /\ th'[t] = IdleThread
           /\ \A u \in Thread : u # t => th'[u] = th[u]
<1>1. th' = [th EXCEPT ![t] = IdleThread] /\ send_mu' = NoThread
  BY DEF Return
<1>2. IdleThread.pc = "idle" /\ ThreadOK(IdleThread, send_ctr_')
  BY DEF IdleThread, ThreadOK, ThreadState
<1>3. send_ctr_ \in Nat /\ sent \in Seq(Message)
  BY DEF IInv, Senders
<1>4. Senders' /\ th'[t] = IdleThread /\ \A u \in Thread : u # t => th'[u] = th[u]
  BY <1>1, <1>2, <1>3, SendersStep DEF IInv
<1> QED
  BY <1>1, <1>4 DEF Pending

(* A thread writes the body of a frame.                                    *)
LEMMA SendBodyKeeps ==
    ASSUME NEW t \in Thread, IInv, SendBody(t)
    PROVE  IInv'
<1> DEFINE s == [th[t] EXCEPT !.pc = "seal", !.i = th[t].i + 1]
           item == [part |-> "body", nonce |-> th[t].nonce, pt |-> Plaintext(t)]
<1>1. th[t].pc = "body" /\ Put(item) /\ UNCHANGED <<send_ctr_, sent, up, receiver>>
  BY DEF SendBody
<1>2. th \in [Thread -> ThreadState] /\ ThreadOK(th[t], send_ctr_) /\ send_ctr_ \in Nat
      /\ sent \in Seq(Message) /\ send_mu = t
  BY <1>1, SendersIs DEF IInv
<1>3. Senders' /\ Pending' = 0
  <2>1. CASE th[t].chunked
    <3>1. th' = [th EXCEPT ![t].pc = "seal", ![t].i = th[t].i + 1] /\ send_mu' = send_mu
      BY <2>1 DEF SendBody
    <3>2. th' = [th EXCEPT ![t] = s]
      BY <1>2, <3>1
    <3>3. /\ th[t] \in ThreadState /\ th[t].i \in Nat /\ th[t].chunked = TRUE
          /\ th[t].data \in Message \ {<<>>} /\ th[t].id \in TransferId
          /\ th[t].i < Total(th[t].data)
      BY <1>1, <1>2, <2>1 DEF ThreadState, ThreadOK
    <3>4. /\ s \in ThreadState /\ s.pc = "seal" /\ s.data = th[t].data /\ s.chunked = th[t].chunked
          /\ s.i = th[t].i + 1 /\ s.id = th[t].id
      <4>1. PICK x \in Nat : x = th[t].i + 1
        BY <3>3
      <4>2. s = [th[t] EXCEPT !.pc = "seal", !.i = x]
        BY <4>1
      <4> HIDE DEF s
      <4>3. s \in ThreadState
        BY <3>3, <4>2 DEF ThreadState
      <4>4. s.pc = "seal" /\ s.data = th[t].data /\ s.chunked = th[t].chunked
            /\ s.i = x /\ s.id = th[t].id
        BY <3>3, <4>2 DEF ThreadState
      <4> QED
        BY <4>1, <4>3, <4>4
    <3> HIDE DEF s
    <3>5. ThreadOK(s, send_ctr_')
      <4>1. Total(th[t].data) \in Nat
        BY <3>3, TotalFacts
      <4>2. th[t].i + 1 <= Total(th[t].data)
        BY <4>1, <3>3
      <4> QED
        BY <3>3, <3>4, <4>2 DEF ThreadOK
    <3>6. Senders' /\ th'[t] = s
      <4>1. /\ send_mu' = t /\ s.pc \in {"seal", "len", "body"}
            /\ send_ctr_' \in Nat /\ sent' \in Seq(Message)
        BY <1>1, <1>2, <3>1, <3>4
      <4> QED
        BY <1>2, <3>2, <3>5, <4>1, SendersStep DEF IInv
    <3> QED
      BY <1>2, <3>1, <3>4, <3>6, PeerLinkAssumption DEF Pending
  <2>2. CASE ~th[t].chunked
    <3>1. Return(t, TRUE, 1)
      BY <2>2 DEF SendBody
    <3> QED
      BY <1>1, <1>2, <3>1, ReturnFacts
  <2> QED
    BY <2>1, <2>2
<1>4. Pending = 1
  BY <1>1, <1>2, PeerLinkAssumption DEF Pending
<1>5. item \in Item /\ item.nonce \in Nat /\ item.nonce + 1 = send_ctr_
  BY <1>1, <1>2, PlaintextFacts DEF IInv, Item, ThreadOK, ThreadState
<1>6. UNCHANGED <<rcvd, rpc, up, send_ctr_>>
  BY <1>1 DEF receiver
<1>7. Stream'
  <2> HIDE DEF item
  <2> QED
    BY <1>1, <1>2, <1>3, <1>4, <1>5, <1>6, StreamGrows DEF IInv
<1> QED
  BY <1>1, <1>3, <1>7, ReceiverSame DEF IInv, Rest

(* A call of send_all fails, or send_chunked has sent all of total.        *)
LEMMA ReturnKeeps ==
    ASSUME NEW t \in Thread, IInv, SendFails(t) \/ ChunksDone(t)
    PROVE  IInv'
<1>1. UNCHANGED <<send_ctr_, sent, link, up, receiver>>
      /\ th[t].pc \in {"seal", "len", "body"} /\ \E ok, n : Return(t, ok, n)
  BY DEF SendFails, ChunksDone
<1>2. send_mu = t
  BY <1>1 DEF IInv, Senders
<1>3. Senders' /\ Pending' = 0
  BY <1>1, <1>2, ReturnFacts
<1>4. up => Pending = 0
  BY <1>2, PeerLinkAssumption DEF SendFails, ChunksDone, Pending
<1>5. UNCHANGED <<link, up, rcvd, rpc, send_ctr_>>
  BY <1>1 DEF receiver
<1>6. Stream'
  BY <1>3, <1>4, <1>5 DEF IInv, Stream, Reading
<1> QED
  BY <1>1, <1>3, <1>6, ReceiverSame DEF IInv, Rest

-----------------------------------------------------------------------------
(* A step that leaves the senders alone keeps what is said of them.        *)
LEMMA SenderSame ==
    ASSUME Senders, UNCHANGED sender
    PROVE  Senders' /\ Pending' = Pending
BY DEF sender, Senders, MoreToSend, Pending

(* A message is pushed into the ring.                                      *)
LEMMA DeliverRing ==
    ASSUME Ring, NEW msg, Deliver(msg), UNCHANGED drained
    PROVE  Ring'
<1>1. PICK T : RingOf(T)
  BY DEF Ring
<1> DEFINE U == T \cup {msg}
           ring == IF Len(received_msgs_) >= RING THEN Tail(received_msgs_) ELSE received_msgs_
<1>a. PICK L \in Nat : L = Len(delivered)
  BY <1>1, LenProperties DEF RingOf
<1>b. PICK n \in Nat : n = Len(received_msgs_)
  BY <1>1, LenProperties DEF RingOf
<1>c. delivered \in Seq(U) /\ received_msgs_ \in Seq(U) /\ msg \in U
  BY <1>1, SeqMonotonic DEF RingOf
<1>d. drained \in 0 .. L /\ RING \in Nat \ {0}
  BY <1>1, <1>a, PeerLinkAssumption DEF RingOf
<1>e. n = IF L - drained > RING THEN RING ELSE L - drained
  BY <1>1, <1>a, <1>b DEF RingOf
<1> HIDE DEF U
<1>2. /\ delivered \in Seq(U) /\ received_msgs_ \in Seq(U) /\ msg \in U
      /\ L \in Nat /\ n \in Nat /\ RING \in Nat \ {0}
      /\ L = Len(delivered) /\ n = Len(received_msgs_)
  BY <1>a, <1>b, <1>c, <1>d
<1>3. \A i \in 1 .. n : received_msgs_[i] = delivered[L - n + i]
  BY <1>1, <1>2 DEF RingOf
<1>4. received_msgs_' = Append(ring, msg) /\ delivered' = Append(delivered, msg)
  BY DEF Deliver, Pushed
<1>5. n <= RING
  BY <1>d, <1>e
<1>6. /\ delivered' \in Seq(U) /\ Len(delivered') = L + 1 /\ delivered'[L + 1] = msg
      /\ \A i \in 1 .. L : delivered'[i] = delivered[i]
  BY <1>2, <1>4, AppendProperties
<1>7. drained' \in 0 .. L + 1
  BY <1>d
<1>8. CASE n >= RING
  <2>1. n = RING /\ n - 1 \in Nat /\ n # 0
    BY <1>5, <1>8, <1>d
  <2>2. received_msgs_ # <<>> /\ ring = Tail(received_msgs_)
    BY <1>2, <1>8, <2>1, EmptySeq
  <2>3. /\ ring \in Seq(U) /\ Len(ring) = n - 1
        /\ \A i \in 1 .. n - 1 : ring[i] = received_msgs_[i + 1]
    BY <1>2, <2>2, HeadTailProperties
  <2> HIDE DEF ring
  <2>4. PICK k \in Nat : k = n - 1
    BY <2>1
  <2>5. n = k + 1
    BY <2>4
  <2>6. /\ received_msgs_' \in Seq(U) /\ Len(received_msgs_') = k + 1 /\ received_msgs_'[k + 1] = msg
        /\ \A i \in 1 .. k : received_msgs_'[i] = ring[i]
    BY <1>2, <1>4, <2>3, <2>4, AppendProperties
  <2>7. L - drained >= RING /\ n <= L
    BY <1>d, <1>e, <2>1
  <2>8. ASSUME NEW i \in 1 .. n PROVE received_msgs_'[i] = delivered'[(L + 1) - n + i]
    <3>1. CASE i = n
      <4>1. (L + 1) - n + i = L + 1
        BY <3>1
      <4> QED
        BY <1>6, <2>5, <2>6, <3>1, <4>1
    <3>2. CASE i # n
      <4>1. i \in 1 .. k /\ i + 1 \in 1 .. n
        BY <2>5, <3>2
      <4>2. L - n + (i + 1) = (L + 1) - n + i
        OBVIOUS
      <4>3. (L + 1) - n + i \in 1 .. L
        BY <2>5, <2>7, <4>1
      <4>4. received_msgs_'[i] = delivered[L - n + (i + 1)]
        BY <1>3, <2>3, <2>4, <2>6, <4>1
      <4> QED
        BY <1>6, <4>2, <4>3, <4>4
    <3> QED
      BY <3>1, <3>2
  <2>9. Len(received_msgs_') = IF Len(delivered') - drained' > RING THEN RING
                               ELSE Len(delivered') - drained'
    BY <1>6, <1>d, <2>1, <2>5, <2>6, <2>7
  <2>10. \A i \in 1 .. Len(received_msgs_') :
            received_msgs_'[i] = delivered'[Len(delivered') - Len(received_msgs_') + i]
    BY <1>6, <2>5, <2>6, <2>8
  <2> QED
    BY <1>6, <1>7, <2>6, <2>9, <2>10 DEF Ring, RingOf
<1>9. CASE ~(n >= RING)
  <2>1. ring = received_msgs_
    BY <1>2, <1>9
  <2>2. n = L - drained /\ n < RING /\ n <= L
    BY <1>d, <1>e, <1>9
  <2> HIDE DEF ring
  <2>3. /\ received_msgs_' \in Seq(U) /\ Len(received_msgs_') = n + 1
        /\ received_msgs_'[n + 1] = msg
        /\ \A i \in 1 .. n : received_msgs_'[i] = received_msgs_[i]
    BY <1>2, <1>4, <2>1, AppendProperties
  <2>4. ASSUME NEW i \in 1 .. n + 1 PROVE received_msgs_'[i] = delivered'[(L + 1) - (n + 1) + i]
    <3>1. CASE i = n + 1
      <4>1. (L + 1) - (n + 1) + i = L + 1
        BY <3>1
      <4> QED
        BY <1>6, <2>3, <3>1, <4>1
    <3>2. CASE i # n + 1
      <4>1. i \in 1 .. n
        BY <3>2
      <4>2. L - n + i = (L + 1) - (n + 1) + i
        OBVIOUS
      <4>3. L - n + i \in 1 .. L
        BY <2>2, <4>1
      <4> QED
        BY <1>3, <1>6, <2>3, <4>1, <4>2, <4>3
    <3> QED
      BY <3>1, <3>2
  <2>5. Len(received_msgs_') = IF Len(delivered') - drained' > RING THEN RING
                               ELSE Len(delivered') - drained'
    BY <1>6, <1>d, <2>2, <2>3
  <2>6. \A i \in 1 .. Len(received_msgs_') :
            received_msgs_'[i] = delivered'[Len(delivered') - Len(received_msgs_') + i]
    BY <1>6, <2>3, <2>4
  <2> QED
    BY <1>6, <1>7, <2>3, <2>5, <2>6 DEF Ring, RingOf
<1> QED
  BY <1>8, <1>9

(* The stream after a frame has been read from it.                         *)
LEMMA FrameRead ==
    ASSUME Stream, Len(link) >= 2, link' = SubSeq(link, 3, Len(link))
    PROVE  /\ link' \in Seq(Item) /\ Len(link') = Len(link) - 2
           /\ \A j \in 1 .. Len(link) - 2 : link'[j] = link[j + 2]
<1>1. link \in Seq(Item) /\ Len(link) \in Nat /\ \A j \in 3 .. Len(link) : link[j] \in Item
  BY ElementOfSeq, LenProperties DEF Stream
<1>2. /\ SubSeq(link, 3, Len(link)) \in Seq(Item)
      /\ Len(SubSeq(link, 3, Len(link))) = IF 3 <= Len(link) THEN Len(link) - 3 + 1 ELSE 0
      /\ \A i \in 1 .. Len(link) - 3 + 1 : SubSeq(link, 3, Len(link))[i] = link[3 + i - 1]
  BY <1>1, SubSeqProperties
<1>3. \A j \in 1 .. Len(link) - 2 : j \in 1 .. Len(link) - 3 + 1 /\ 3 + j - 1 = j + 2
  BY <1>1
<1>4. Len(link') = Len(link) - 2
  <2>1. PICK n \in Nat : n = Len(link)
    BY <1>1
  <2>2. PICK x \in Nat : x = Len(link')
    BY <1>2, LenProperties
  <2>3. x = IF 3 <= n THEN n - 3 + 1 ELSE 0
    BY <1>2, <2>1, <2>2
  <2>4. x = n - 2
    BY <2>1, <2>3
  <2> QED
    BY <2>1, <2>2, <2>4
<1>5. ASSUME NEW j \in 1 .. Len(link) - 2 PROVE link'[j] = link[j + 2]
  <2>1. link'[j] = link[3 + j - 1]
    BY <1>2, <1>3
  <2> QED
    BY <1>3, <2>1
<1> QED
  BY <1>2, <1>4, <1>5

(* The first body on the stream.                                           *)
LEMMA FirstBody ==
    ASSUME Stream, Reading, Len(link) >= 2
    PROVE  link[2].nonce = Len(rcvd)
<1>1. Len(link) \in Nat /\ Len(rcvd) \in Nat
  BY LenProperties DEF Stream
<1>2. 2 * 1 \in 1 .. Len(link) /\ 1 \in Nat /\ 2 * 1 = 2 /\ Len(rcvd) + 1 - 1 = Len(rcvd)
  BY <1>1
<1>3. link[2 * 1].nonce = Len(rcvd) + 1 - 1
  BY <1>2 DEF Stream
<1> QED
  BY <1>2, <1>3

(* recv_loop handles a plaintext.                                          *)
LEMMA RecvMsgKeeps ==
    ASSUME IInv, RecvMsg
    PROVE  IInv'
<1>1. /\ rpc = "loop" /\ Len(link) >= 2 /\ rcvd' = Append(rcvd, link[2].nonce)
      /\ link' = SubSeq(link, 3, Len(link)) /\ UNCHANGED <<sender, up, rpc, held, drained>>
  BY DEF RecvMsg
<1>2. Senders' /\ Pending' = Pending /\ UNCHANGED send_ctr_
  BY <1>1, SenderSame DEF IInv, sender
<1>3. Stream'
  <2>1. Stream /\ Reading
    BY <1>1 DEF IInv, Reading
  <2>2. /\ link' \in Seq(Item) /\ Len(link') = Len(link) - 2
        /\ \A j \in 1 .. Len(link) - 2 : link'[j] = link[j + 2]
    BY <1>1, <2>1, FrameRead
  <2>3. Len(link) \in Nat /\ Len(rcvd) \in Nat /\ rcvd \in Seq(Nat) /\ Len(link) <= LinkCap
    BY LenProperties DEF IInv, Stream
  <2>4. rcvd' = Append(rcvd, Len(rcvd))
    BY <1>1, <2>1, FirstBody
  <2>5. /\ rcvd' \in Seq(Nat) /\ Len(rcvd') = Len(rcvd) + 1 /\ rcvd'[Len(rcvd) + 1] = Len(rcvd)
        /\ \A k \in 1 .. Len(rcvd) : rcvd'[k] = rcvd[k]
    BY <2>3, <2>4, AppendProperties
  <2>6. ASSUME NEW k \in 1 .. Len(rcvd') PROVE rcvd'[k] = k - 1
    <3>1. CASE k = Len(rcvd) + 1
      BY <2>3, <2>5, <3>1
    <3>2. CASE k # Len(rcvd) + 1
      <4>1. k \in 1 .. Len(rcvd)
        BY <2>3, <2>5, <3>2
      <4> QED
        BY <2>5, <4>1 DEF IInv, Stream
    <3> QED
      BY <3>1, <3>2
  <2>7. ASSUME NEW m \in Nat, 2 * m \in 1 .. Len(link')
        PROVE  link'[2 * m].nonce = Len(rcvd') + m - 1
    <3>1. 2 * (m + 1) = 2 * m + 2 /\ m + 1 \in Nat /\ 2 * (m + 1) \in 1 .. Len(link)
      BY <2>2, <2>3, <2>7
    <3>2. link[2 * (m + 1)].nonce = Len(rcvd) + (m + 1) - 1
      BY <2>1, <3>1 DEF Stream
    <3>3. link'[2 * m] = link[2 * m + 2]
      BY <2>2, <2>3, <2>7
    <3> QED
      BY <2>3, <2>5, <3>1, <3>2, <3>3
  <2>8. up => 2 * Len(rcvd') + Len(link') + Pending' = 2 * send_ctr_'
    <3>1. up => 2 * Len(rcvd) + Len(link) + Pending = 2 * send_ctr_
      BY <2>1 DEF Stream
    <3>2. Pending \in Nat
      BY DEF Pending
    <3> QED
      BY <1>2, <2>2, <2>3, <2>5, <3>1, <3>2
  <2>9. Len(link') <= LinkCap
    BY <2>2, <2>3, PeerLinkAssumption
  <2> QED
    BY <1>1, <2>2, <2>5, <2>6, <2>7, <2>8, <2>9 DEF Stream
<1>4. Ring'
  <2>1. CASE \E msg : Deliver(msg)
    BY <1>1, <2>1, DeliverRing DEF IInv
  <2>2. CASE UNCHANGED <<received_msgs_, delivered>>
    BY <1>1, <2>2 DEF IInv, Ring, RingOf
  <2> QED
    BY <2>1, <2>2 DEF RecvMsg
<1>5. Rest'
  <2>1. DOMAIN chunks' \subseteq TransferId
    <3>1. CASE ~is_chunk_frame(link[2].pt)
      BY <3>1 DEF RecvMsg, IInv, Rest
    <3>2. CASE is_chunk_frame(link[2].pt)
      <4> DEFINE pt == link[2].pt
                 ci == Head(pt)
      <4>1. ci.transfer_id \in TransferId
        BY <3>2 DEF is_chunk_frame, ChunkHeader
      <4>2. chunks' = ingest(chunks, ci.transfer_id, ci.index, ci.total, Tail(pt), 0)
        BY <3>2 DEF RecvMsg
      <4>3. DOMAIN chunks' \subseteq DOMAIN chunks \cup {ci.transfer_id}
        <5> HIDE DEF ci, pt
        <5> QED
          BY <4>2 DEF ingest, emplace
      <4> QED
        BY <4>1, <4>3 DEF IInv, Rest
    <3> QED
      BY <3>1, <3>2
  <2> QED
    BY <1>1, <2>1 DEF IInv, Rest
<1> QED
  BY <1>2, <1>3, <1>4, <1>5 DEF IInv

(* recv_loop starts or ends, or an owner of the peer_conn comes or goes.   *)
LEMMA LoopKeeps ==
    ASSUME IInv, StartLoop \/ RecvRefused \/ RecvEof \/ RemovePeer \/ Hold \/ Release
    PROVE  IInv'
<1>1. UNCHANGED <<sender, chunks, received_msgs_, delivered, rcvd, drained>>
      /\ up' \in BOOLEAN /\ rpc' \in {"setup", "loop", "leaving", "gone"} /\ held' \in BOOLEAN
  BY DEF StartLoop, RecvRefused, RecvEof, RemovePeer, Hold, Release, Close, IInv, Rest
<1>2. Senders' /\ Pending' = Pending /\ UNCHANGED send_ctr_
  BY <1>1, SenderSame DEF IInv, sender
<1>3. Ring' /\ Rest'
  BY <1>1 DEF IInv, Ring, RingOf, Rest
<1>4. Stream'
  <2>1. CASE StartLoop
    BY <1>1, <1>2, <2>1 DEF StartLoop, IInv, Stream, Reading
  <2>2. CASE RecvRefused
    <3>1. link' = SubSeq(link, 3, Len(link)) /\ Len(link) >= 2 /\ ~Reading'
      BY <2>2 DEF RecvRefused, Reading
    <3>2. link' \in Seq(Item) /\ Len(link') = Len(link) - 2 /\ Len(link) \in Nat
      BY <3>1, FrameRead, LenProperties DEF IInv, Stream
    <3>3. Len(link') <= LinkCap
      BY <3>2, PeerLinkAssumption DEF IInv, Stream
    <3> QED
      BY <1>1, <3>1, <3>2, <3>3 DEF IInv, Stream
  <2>3. CASE RecvEof
    BY <1>1, <2>3 DEF RecvEof, IInv, Stream, Reading
  <2>4. CASE RemovePeer \/ Hold \/ Release
    <3>1. \/ UNCHANGED <<link, up>> /\ (Reading' => Reading)
          \/ link' = <<>> /\ ~Reading'
      BY <2>4 DEF RemovePeer, Hold, Release, Close, Reading
    <3>2. <<>> \in Seq(Item) /\ Len(<<>>) = 0
      BY EmptySeq
    <3>3. CASE link' = <<>> /\ ~Reading'
      BY <1>1, <3>2, <3>3, PeerLinkAssumption DEF IInv, Stream
    <3>4. CASE UNCHANGED <<link, up>> /\ (Reading' => Reading)
      BY <1>1, <1>2, <3>4 DEF IInv, Stream
    <3> QED
      BY <3>1, <3>3, <3>4
  <2> QED
    BY <2>1, <2>2, <2>3, <2>4
<1> QED
  BY <1>2, <1>3, <1>4 DEF IInv

(* ctl_recv empties the ring.                                              *)
LEMMA CtlRecvKeeps ==
    ASSUME IInv, CtlRecv
    PROVE  IInv'
<1>1. /\ received_msgs_' = <<>> /\ drained' = Len(delivered)
      /\ UNCHANGED <<sender, link, up, rpc, held, chunks, delivered, rcvd>>
  BY DEF CtlRecv
<1>2. Senders' /\ Pending' = Pending /\ UNCHANGED send_ctr_
  BY <1>1, SenderSame DEF IInv, sender
<1>3. Ring'
  <2>1. PICK T : RingOf(T)
    BY DEF IInv, Ring
  <2>2. delivered \in Seq(T) /\ Len(delivered) \in Nat /\ <<>> \in Seq(T) /\ Len(<<>>) = 0
    BY <2>1, LenProperties, EmptySeq DEF RingOf
  <2>3. RingOf(T)'
    BY <1>1, <2>2, PeerLinkAssumption DEF RingOf
  <2> QED
    BY <2>3 DEF Ring
<1>4. Stream' /\ Rest'
  BY <1>1, <1>2 DEF IInv, Stream, Rest, Reading
<1> QED
  BY <1>2, <1>3, <1>4 DEF IInv

(* The network loses the connection.                                       *)
LEMMA BreakKeeps ==
    ASSUME IInv, Break
    PROVE  IInv'
<1>1. PICK k \in 0 .. Len(link) : link' = SubSeq(link, 1, k)
  BY DEF Break
<1>2. up' = FALSE /\ UNCHANGED <<sender, receiver>>
  BY DEF Break
<1>3. Senders' /\ Pending' = Pending /\ UNCHANGED send_ctr_
  BY <1>2, SenderSame DEF IInv, sender
<1>4. link \in Seq(Item) /\ Len(link) \in Nat /\ \A j \in 1 .. k : link[j] \in Item
  BY ElementOfSeq, LenProperties DEF IInv, Stream
<1>5. /\ link' \in Seq(Item) /\ Len(link') = k
      /\ \A j \in 1 .. k : link'[j] = link[j]
  BY <1>1, <1>4, SubSeqProperties
<1>6. Stream'
  <2>1. Len(link') <= LinkCap
    BY <1>4, <1>5, PeerLinkAssumption DEF IInv, Stream
  <2>2. ASSUME NEW m \in Nat, Reading, 2 * m \in 1 .. Len(link')
        PROVE  link'[2 * m].nonce = Len(rcvd) + m - 1
    <3>1. 2 * m \in 1 .. k /\ 2 * m \in 1 .. Len(link)
      BY <1>4, <1>5, <2>2
    <3>2. link'[2 * m] = link[2 * m]
      BY <1>5, <3>1
    <3> QED
      BY <2>2, <3>1, <3>2 DEF IInv, Stream
  <2>3. UNCHANGED <<rcvd, rpc>>
    BY <1>2 DEF receiver
  <2> QED
    BY <1>2, <1>5, <2>1, <2>2, <2>3 DEF IInv, Stream, Reading
<1> QED
  BY <1>2, <1>3, <1>6, ReceiverSame DEF IInv

-----------------------------------------------------------------------------
(* Every step keeps the invariant of the first part.                       *)
LEMMA StepIInv == IInv /\ [Next]_vars => IInv'
<1> SUFFICES ASSUME IInv, [Next]_vars PROVE IInv'
  OBVIOUS
<1>1. ASSUME NEW t \in Thread, NEW text \in Texts, SendText(t, text) PROVE IInv'
  <2>1. text \in Message /\ (Len(text) > CHUNK_PAYLOAD_SIZE => text # <<>>)
        /\ (~(Len(text) > CHUNK_PAYLOAD_SIZE) => text \in Plain)
    BY MessageFacts, PeerLinkAssumption DEF Message, Plain
  <2>2. Call(t, text, Len(text) > CHUNK_PAYLOAD_SIZE)
    BY <1>1 DEF SendText
  <2>3. (Len(text) > CHUNK_PAYLOAD_SIZE) \in BOOLEAN
    OBVIOUS
  <2> QED
    BY <2>1, <2>2, <2>3, CallKeeps
<1>2. ASSUME NEW t \in Thread, NEW data \in Files, SendFile(t, data) PROVE IInv'
  BY <1>2, CallKeeps, PeerLinkAssumption DEF SendFile, Message
<1>3. ASSUME NEW t \in Thread, SenderStep(t) PROVE IInv'
  <2>1. ASSUME NEW id \in (IF th[t].chunked THEN TransferId ELSE {NoData}), Lock(t, id)
        PROVE  IInv'
    BY <2>1, LockKeeps
  <2> QED
    BY <1>3, <2>1, SealKeeps, SendLenKeeps, SendBodyKeeps, ReturnKeeps DEF SenderStep
<1>4. CASE ReceiverStep
  BY <1>4, RecvMsgKeeps, LoopKeeps DEF ReceiverStep
<1>5. CASE UNCHANGED vars
  <2>1. UNCHANGED sender /\ UNCHANGED receiver /\ UNCHANGED <<link, up>>
    BY <1>5 DEF vars
  <2>2. Senders' /\ Pending' = Pending /\ UNCHANGED send_ctr_
    BY <2>1, SenderSame DEF IInv, sender
  <2>3. Stream'
    BY <2>1, <2>2 DEF IInv, Stream, Reading, receiver
  <2> QED
    BY <2>1, <2>2, <2>3, ReceiverSame DEF IInv, Rest
<1> QED
  BY <1>1, <1>2, <1>3, <1>4, <1>5, LoopKeeps, CtlRecvKeeps, BreakKeeps DEF Next

(* The invariant of the first part holds in every reachable state, however *)
(* many threads send and wherever the connection is cut.                   *)
THEOREM LinkInvariant == Spec => []IInv
BY InitIInv, StepIInv, PTL DEF Spec

(* The types of peer_conn, of its session and of the ring are kept: no     *)
(* index of send_chunked passes total, no ring grows past its capacity.    *)
THEOREM LinkTypeOK == Spec => []TypeOK
<1>1. ASSUME IInv PROVE TypeOK
  <2>1. /\ send_mu \in Thread \cup {NoThread}
        /\ send_ctr_ \in Nat
        /\ Len(link) <= LinkCap
        /\ up \in BOOLEAN
        /\ rpc \in {"setup", "loop", "leaving", "gone"}
        /\ held \in BOOLEAN
        /\ DOMAIN chunks \subseteq TransferId
    BY <1>1 DEF IInv, Senders, Stream, Rest
  <2>2. Len(received_msgs_) <= RING
    <3>1. PICK T : RingOf(T)
      BY <1>1 DEF IInv, Ring
    <3>2. PICK L \in Nat : L = Len(delivered)
      BY <3>1, LenProperties DEF RingOf
    <3>3. drained \in 0 .. L /\ RING \in Nat
          /\ Len(received_msgs_) = IF L - drained > RING THEN RING ELSE L - drained
      BY <3>1, <3>2, PeerLinkAssumption DEF RingOf
    <3> QED
      BY <3>3
  <2>3. ASSUME NEW t \in Thread
        PROVE  /\ th[t].pc \in {"idle", "lock", "seal", "len", "body"}
               /\ th[t].data \in Texts \cup Files \cup {<<>>}
               /\ th[t].chunked => th[t].i \in 0 .. Total(th[t].data)
    <3>1. th[t] \in ThreadState
      BY <1>1 DEF IInv, Senders
    <3>2. /\ th[t].pc \in {"idle", "lock", "seal", "len", "body"}
          /\ th[t].data \in Message \cup {<<>>} /\ th[t].i \in Nat
      BY <3>1 DEF ThreadState
    <3>3. Total(th[t].data) \in Nat /\ (th[t].chunked => th[t].i <= Total(th[t].data))
      BY <1>1, <3>2, TotalFacts DEF IInv, Senders
    <3> QED
      BY <3>2, <3>3 DEF Message
  <2> QED
    BY <2>1, <2>2, <2>3 DEF TypeOK
<1> QED
  BY <1>1, LinkInvariant, PTL

(* session::recv reads every nonce once and in order, although it never    *)
(* checks them: send_mu covers the frame from send_ctr_++ to its last byte.*)
THEOREM NoncesAreInOrder == Spec => []NoncesInOrder
<1>1. ASSUME IInv PROVE NoncesInOrder
  <2>1. DOMAIN rcvd = 1 .. Len(rcvd)
    BY <1>1, LenProperties DEF IInv, Stream
  <2> QED
    BY <1>1, <2>1 DEF IInv, Stream, NoncesInOrder
<1> QED
  BY <1>1, LinkInvariant, PTL

(* received_msgs_ is what was delivered since the last ctl_recv, or the    *)
(* latest RING messages of it.                                             *)
THEOREM RingIsLatest == Spec => []RingKeepsLatest
<1>1. ASSUME IInv PROVE RingKeepsLatest
  <2> DEFINE new  == SubSeq(delivered, drained + 1, Len(delivered))
             drop == IF Len(new) > RING THEN Len(new) - RING ELSE 0
             kept == SubSeq(new, drop + 1, Len(new))
  <2> SUFFICES received_msgs_ = kept
    BY DEF RingKeepsLatest
  <2>1. PICK T : RingOf(T)
    BY <1>1 DEF IInv, Ring
  <2>2. PICK L \in Nat : L = Len(delivered)
    BY <2>1, LenProperties DEF RingOf
  <2>3. PICK n \in Nat : n = Len(received_msgs_)
    BY <2>1, LenProperties DEF RingOf
  <2>4. /\ drained \in 0 .. L /\ RING \in Nat \ {0}
        /\ delivered \in Seq(T) /\ received_msgs_ \in Seq(T)
    BY <2>1, <2>2, PeerLinkAssumption DEF RingOf
  <2>5. n = IF L - drained > RING THEN RING ELSE L - drained
    BY <2>1, <2>2, <2>3 DEF RingOf
  <2>6. PICK k \in Nat : k = L - drained
    BY <2>4
  <2>7. \A j \in drained + 1 .. L : delivered[j] \in T
    BY <2>2, <2>4, ElementOfSeq
  <2>8. drained + 1 \in Int /\ L \in Int /\ L - (drained + 1) + 1 = k
        /\ (IF drained + 1 <= L THEN L - (drained + 1) + 1 ELSE 0) = k
    BY <2>4, <2>6
  <2>9. /\ new \in Seq(T) /\ Len(new) = k
        /\ \A i \in 1 .. k : new[i] = delivered[drained + 1 + i - 1]
    BY <2>2, <2>7, <2>8, SubSeqProperties
  <2> HIDE DEF new
  <2>10. PICK e \in Nat : e = IF k > RING THEN k - RING ELSE 0
    <3>1. (IF k > RING THEN k - RING ELSE 0) \in Nat
      BY <2>4
    <3> QED
      BY <3>1
  <2>10a. e = drop
    BY <2>9, <2>10
  <2>11. e = k - n /\ n <= k
    BY <2>4, <2>5, <2>6, <2>10
  <2>12. \A j \in e + 1 .. k : new[j] \in T
    BY <2>9, ElementOfSeq
  <2>13. e + 1 \in Int /\ k \in Int /\ k - (e + 1) + 1 = n
         /\ (IF e + 1 <= k THEN k - (e + 1) + 1 ELSE 0) = n
    BY <2>11
  <2>14. kept = SubSeq(new, e + 1, k)
    BY <2>9, <2>10a
  <2> HIDE DEF kept
  <2>15. /\ kept \in Seq(T) /\ Len(kept) = n
         /\ \A i \in 1 .. n : kept[i] = new[e + 1 + i - 1]
    BY <2>12, <2>13, <2>14, SubSeqProperties
  <2>16. ASSUME NEW i \in 1 .. n PROVE received_msgs_[i] = kept[i]
    <3>1. e + 1 + i - 1 = e + i /\ e + i \in 1 .. k
      BY <2>11
    <3>2. drained + 1 + (e + i) - 1 = L - n + i
      BY <2>4, <2>6, <2>11
    <3>3. kept[i] = new[e + i]
      BY <2>15, <3>1
    <3>4. new[e + i] = delivered[drained + 1 + (e + i) - 1]
      BY <2>9, <3>1
    <3>5. received_msgs_[i] = delivered[L - n + i]
      BY <2>1, <2>2, <2>3 DEF RingOf
    <3> QED
      BY <3>2, <3>3, <3>4, <3>5
  <2>17. Len(received_msgs_) = Len(kept)
         /\ \A i \in 1 .. Len(received_msgs_) : received_msgs_[i] = kept[i]
    BY <2>3, <2>15, <2>16
  <2> QED
    BY <2>4, <2>15, <2>17, SeqEqual
<1> QED
  BY <1>1, LinkInvariant, PTL

-----------------------------------------------------------------------------
(* send_chunked cuts the data into as many pieces as are needed, none of   *)
(* them empty.                                                             *)
LEMMA NeededBounds ==
    ASSUME NEW d \in Message \ {<<>>}
    PROVE  /\ Needed(d) \in Nat \ {0}
           /\ (Needed(d) - 1) * CHUNK_PAYLOAD_SIZE < Len(d)
           /\ Len(d) <= Needed(d) * CHUNK_PAYLOAD_SIZE
<1>1. PICK L \in Nat \ {0} : L = Len(d)
  BY MessageFacts
<1>2. PICK C \in Nat \ {0} : C = CHUNK_PAYLOAD_SIZE
  BY PeerLinkAssumption
<1>3. PICK a \in Nat : a = L + C - 1
  BY <1>1, <1>2
<1>4. PICK q \in Nat : q = a \div C
  BY <1>2, <1>3
<1>5. q * C <= a /\ a < q * C + C
  BY <1>2, <1>3, <1>4
<1>6. q # 0
  BY <1>1, <1>2, <1>3, <1>5
<1>7. PICK x \in Int : x = q * C
  BY <1>2, <1>4
<1>8. (q - 1) * C = x - C
  BY <1>2, <1>4, <1>7
<1>9. x - C < L /\ L <= x
  BY <1>1, <1>2, <1>3, <1>5, <1>7
<1>10. Needed(d) = q
  BY <1>1, <1>2, <1>3, <1>4 DEF Needed, CeilDiv
<1> QED
  BY <1>1, <1>2, <1>4, <1>6, <1>7, <1>8, <1>9, <1>10

(* Where the k-th piece of the data ends.                                  *)
End(d, k) == IF k * CHUNK_PAYLOAD_SIZE < Len(d) THEN k * CHUNK_PAYLOAD_SIZE ELSE Len(d)

(* A piece lies between two ends.                                          *)
LEMMA PieceIs ==
    ASSUME NEW d \in Message, NEW i \in Nat, i * CHUNK_PAYLOAD_SIZE < Len(d)
    PROVE  /\ End(d, i) = i * CHUNK_PAYLOAD_SIZE
           /\ Piece(d, i) = SubSeq(d, End(d, i) + 1, End(d, i + 1))
           /\ End(d, i) \in 0 .. Len(d) /\ End(d, i + 1) \in End(d, i) .. Len(d)
<1>1. PICK L \in Nat : L = Len(d)
  BY MessageFacts
<1>2. PICK C \in Nat \ {0} : C = CHUNK_PAYLOAD_SIZE
  BY PeerLinkAssumption
<1>3. PICK x \in Nat : x = i * C
  BY <1>2
<1>4. (i + 1) * C = x + C
  BY <1>2, <1>3
<1>5. x < L
  BY <1>1, <1>2, <1>3
<1>6. End(d, i) = x
  BY <1>1, <1>2, <1>3, <1>5 DEF End
<1>7. End(d, i + 1) = IF x + C < L THEN x + C ELSE L
  BY <1>1, <1>2, <1>4 DEF End
<1>8. Piece(d, i) = SubSeq(d, x + 1, x + (IF L - x < C THEN L - x ELSE C))
  BY <1>1, <1>2, <1>3 DEF Piece
<1>9. x + (IF L - x < C THEN L - x ELSE C) = IF x + C < L THEN x + C ELSE L
  <2>1. CASE L - x < C
    BY <2>1
  <2>2. CASE ~(L - x < C)
    BY <2>2
  <2> QED
    BY <2>1, <2>2
<1>10. Piece(d, i) = SubSeq(d, x + 1, End(d, i + 1))
  BY <1>7, <1>8, <1>9
<1>11. End(d, i + 1) \in x .. L /\ x \in 0 .. L
  BY <1>1, <1>2, <1>3, <1>5, <1>7
<1> QED
  BY <1>1, <1>2, <1>3, <1>6, <1>10, <1>11

(* Put together in order, the pieces are the data.                         *)
LEMMA PiecesJoin ==
    ASSUME NEW d \in Message \ {<<>>}, Needed(d) < UINT16
    PROVE  Total(d) = Needed(d) /\ FlattenSeq([i \in 1 .. Total(d) |-> Piece(d, i - 1)]) = d
<1>1. PICK n \in Nat \ {0} : n = Needed(d)
  BY NeededBounds
<1>2. Total(d) = n
  BY <1>1, UINT16Assumption DEF Total
<1> DEFINE seqs == [i \in 1 .. n |-> Piece(d, i - 1)]
<1>3. PICK L \in Nat : L = Len(d)
  BY MessageFacts
<1>4. PICK C \in Nat \ {0} : C = CHUNK_PAYLOAD_SIZE
  BY PeerLinkAssumption
<1>5. (n - 1) * C < L /\ L <= n * C
  BY <1>1, <1>3, <1>4, NeededBounds
<1>6. ASSUME NEW k \in 0 .. n - 1 PROVE k * C < L
  <2>1. PICK j \in Nat : n - 1 = k + j
    <3>1. n - 1 - k \in Nat /\ n - 1 = k + (n - 1 - k)
      OBVIOUS
    <3> QED
      BY <3>1
  <2>2. (k + j) * C = k * C + j * C
    BY <1>4, <2>1
  <2>3. k * C \in Nat /\ j * C \in Nat
    BY <1>4, <2>1
  <2>4. (n - 1) * C = k * C + j * C
    BY <2>1, <2>2
  <2> QED
    BY <1>3, <1>5, <2>3, <2>4
<1>7. Len(seqs) = n
  OBVIOUS
<1>8. d \in Seq(Cell)
  BY MessageFacts
<1> HIDE DEF seqs
<1>9. PICK f : Flattens(seqs, n, f) /\ FlattenSeq(seqs) = f[n]
  BY <1>7, FlattenSeqIs
<1>10. \A k \in 1 .. n : f[k] = IF k = 1 THEN seqs[k] ELSE f[k - 1] \o seqs[k]
  BY <1>9 DEF Flattens
<1> DEFINE S == {k \in Nat : k + 1 <= n => f[k + 1] = SubSeq(d, 1, End(d, k + 1))}
<1>11. 0 \in S
  <2>1. 0 * C < L /\ 0 * C = 0
    BY <1>1, <1>4, <1>6
  <2>2. Piece(d, 0) = SubSeq(d, End(d, 0) + 1, End(d, 0 + 1)) /\ End(d, 0) = 0 * CHUNK_PAYLOAD_SIZE
    BY <1>3, <1>4, <2>1, PieceIs
  <2>3. f[1] = seqs[1] /\ seqs[1] = Piece(d, 0)
    BY <1>1, <1>10 DEF seqs
  <2>4. End(d, 0) + 1 = 1
    BY <1>4, <2>1, <2>2
  <2> QED
    BY <2>2, <2>3, <2>4
<1>12. ASSUME NEW k \in Nat, k \in S PROVE k + 1 \in S
  <2> SUFFICES ASSUME (k + 1) + 1 <= n PROVE f[(k + 1) + 1] = SubSeq(d, 1, End(d, (k + 1) + 1))
    OBVIOUS
  <2>1. PICK m \in Nat : m = k + 1
    OBVIOUS
  <2>2. m \in 0 .. n - 1 /\ m + 1 \in 1 .. n /\ m + 1 # 1 /\ (m + 1) - 1 = m /\ m \in 1 .. n
    BY <2>1
  <2>3. f[m] = SubSeq(d, 1, End(d, m))
    BY <1>12, <2>1, <2>2
  <2>4. m * C < L
    BY <1>6, <2>2
  <2>5. /\ Piece(d, m) = SubSeq(d, End(d, m) + 1, End(d, m + 1))
        /\ End(d, m) \in 0 .. Len(d) /\ End(d, m + 1) \in End(d, m) .. Len(d)
    BY <1>3, <1>4, <2>4, PieceIs
  <2>6. f[m + 1] = f[m] \o seqs[m + 1]
    BY <1>10, <2>2
  <2>7. seqs[m + 1] = Piece(d, m)
    BY <2>2 DEF seqs
  <2>8. 1 \in 1 .. Len(d) + 1 /\ End(d, m) \in 1 - 1 .. Len(d)
    BY <1>3, <2>5
  <2>9. SubSeq(d, 1, End(d, m)) \o SubSeq(d, End(d, m) + 1, End(d, m + 1)) = SubSeq(d, 1, End(d, m + 1))
    BY <1>8, <2>5, <2>8, ConcatAdjacentSubSeq
  <2> QED
    BY <2>1, <2>3, <2>5, <2>6, <2>7, <2>9
<1>13. n - 1 \in S
  <2> HIDE DEF S
  <2>1. Nat \subseteq S
    BY <1>11, <1>12, Induct
  <2> QED
    BY <2>1
<1>14. f[n] = SubSeq(d, 1, End(d, n))
  <2>1. (n - 1) + 1 = n /\ n - 1 \in Nat
    OBVIOUS
  <2> QED
    BY <1>13, <2>1
<1>15. End(d, n) = Len(d)
  <2>1. PICK x \in Nat : x = n * C
    BY <1>4
  <2> QED
    BY <1>3, <1>4, <1>5, <2>1 DEF End
<1>16. f[n] = d
  BY <1>8, <1>14, <1>15, SubSeqFull
<1> QED
  BY <1>1, <1>2, <1>9, <1>16 DEF seqs

-----------------------------------------------------------------------------
(* The second part.  A message may be delivered wrongly in two known ways: *)
(* a text sent as it is that begins like a chunk frame, and data of 2^16   *)
(* chunks or more, of which total keeps the low 16 bits.  Neither is sent. *)
Faithful ==
    /\ \A text \in Plain : ~is_chunk_frame(text)
    /\ \A d \in Message : Needed(d) < UINT16

(* A frame: the call that sends it, and its place in the call's data.      *)
Frame ==
    [call : Nat \ {0}, data : Message, chunked : BOOLEAN, id : TransferId \cup {NoData}, i : Nat]

(* The plaintext of a frame, and the frame that a thread is about to send. *)
Pt(f) == IF f.chunked THEN make_chunk_frame(f.id, f.i, Total(f.data), Piece(f.data, f.i))
         ELSE f.data

FrameOf(t) ==
    [call |-> th[t].call, data |-> th[t].data, chunked |-> th[t].chunked,
     id |-> th[t].id, i |-> th[t].i]

FrameOK(f) ==
    /\ f \in Frame
    /\ IF f.chunked THEN f.data # <<>> /\ f.id \in TransferId /\ f.i < Total(f.data)
       ELSE f.data \in Plain /\ f.i = 0

IsLast(f) == f.chunked => f.i + 1 = Total(f.data)

(* What the first n frames amount to: so many whole messages, and so many  *)
(* pieces of the one after them.                                           *)
Done(fs, n) == IF n = 0 THEN 0 ELSE IF IsLast(fs[n]) THEN fs[n].call ELSE fs[n].call - 1
Part(fs, n) == IF n = 0 THEN 0 ELSE IF IsLast(fs[n]) THEN 0 ELSE fs[n].i + 1

(* The frame f goes on where the first n frames end.                       *)
Follows(fs, n, f) ==
    /\ f.call = Done(fs, n) + 1
    /\ f.i = Part(fs, n)
    /\ f.i # 0 => f.data = fs[n].data /\ f.chunked = fs[n].chunked /\ f.id = fs[n].id

(* fs are the frames sealed while the connection was alive, by nonce.      *)
Log(fs) ==
    /\ fs \in Seq(Frame)
    /\ \A n \in 1 .. Len(fs) :
          /\ FrameOK(fs[n]) /\ Follows(fs, n - 1, fs[n])
          /\ fs[n].call <= Len(sent) /\ fs[n].data = sent[fs[n].call]
    /\ up => Len(fs) = send_ctr_

(* How far the stream reaches, in items from the first frame on.           *)
Reach == 2 * Len(rcvd) + Len(link)

(* The holder of send_mu sends the last message.  Before it has sent a     *)
(* piece, no frame of that message can reach the receiver; while the       *)
(* connection is alive, its frames are the ones due.                       *)
Sending(fs) ==
    /\ send_mu # NoThread =>
          LET s == th[send_mu]
          IN  /\ Len(sent) # 0 /\ s.call = Len(sent) /\ s.data = sent[Len(sent)]
              /\ s.i = 0 => \A m \in 1 .. Len(fs) :
                               s.pc = "seal" \/ m < Len(fs) \/ 2 * m <= Reach
                               => fs[m].call < Len(sent)
    /\ up =>
          /\ (IF send_mu = NoThread THEN TRUE
              ELSE th[send_mu].pc = "seal" /\ ~MoreToSend(send_mu))
             => Done(fs, Len(fs)) = Len(sent) /\ Part(fs, Len(fs)) = 0
          /\ send_mu # NoThread =>
                /\ th[send_mu].pc = "seal" /\ MoreToSend(send_mu)
                   => Follows(fs, Len(fs), FrameOf(send_mu))
                /\ th[send_mu].pc \in {"len", "body"}
                   => Len(fs) # 0 /\ fs[Len(fs)] = FrameOf(send_mu)

(* The items on the stream are those of the frames not yet read.           *)
Carries(fs) ==
    /\ Len(rcvd) <= Len(fs)
    /\ up => Reach + Pending <= 2 * send_ctr_
    /\ Reading =>
          \A m \in Nat \ {0} :
             /\ 2 * m - 1 \in 1 .. Len(link) =>
                   /\ Len(rcvd) + m <= Len(fs)
                   /\ link[2 * m - 1] = [part |-> "len", of |-> Len(Pt(fs[Len(rcvd) + m]))]
             /\ 2 * m \in 1 .. Len(link) =>
                   link[2 * m] = [part |-> "body", nonce |-> Len(rcvd) + m - 1,
                                  pt |-> Pt(fs[Len(rcvd) + m])]

(* A reassembler with the first i pieces of the data.                      *)
AsmAt(d, i) ==
    [slots |-> [j \in 0 .. Total(d) - 1 |-> IF j < i THEN Piece(d, j) ELSE NoData],
     total |-> Total(d), received |-> i]

(* What has been read is delivered, or is the one open transfer.           *)
Received(fs) ==
    /\ Len(delivered) = Done(fs, Len(rcvd))
    /\ IF Part(fs, Len(rcvd)) = 0 THEN DOMAIN chunks = {}
       ELSE /\ DOMAIN chunks = {fs[Len(rcvd)].id}
            /\ chunks[fs[Len(rcvd)].id]
               = [asm |-> AsmAt(fs[Len(rcvd)].data, Part(fs, Len(rcvd))), created |-> 0]
    /\ ~Reading /\ up => DOMAIN chunks = {}

(* No frame of a message that was reported as failed will be read.         *)
Unreached(fs) ==
    \A o \in outcome : ~o.ok =>
        /\ ~up /\ o.call \in Nat \ {0}
        /\ \A m \in 1 .. Len(fs) : 2 * m <= Reach => fs[m].call < o.call

Delivery(fs) == Log(fs) /\ Sending(fs) /\ Carries(fs) /\ Received(fs) /\ Unreached(fs)

(* The inductive invariant of the second part.                             *)
IInv2 == IInv /\ \E fs : Delivery(fs)

-----------------------------------------------------------------------------
(* The lengths are natural numbers.                                        *)
LEMMA Lengths ==
    ASSUME IInv
    PROVE  /\ Len(rcvd) \in Nat /\ Len(link) \in Nat /\ Len(sent) \in Nat /\ Len(delivered) \in Nat
           /\ send_ctr_ \in Nat /\ Pending \in Nat /\ Reach \in Nat
<1>1. Len(delivered) \in Nat
  <2>1. PICK T : RingOf(T)
    BY DEF IInv, Ring
  <2> QED
    BY <2>1, LenProperties DEF RingOf
<1>2. Len(rcvd) \in Nat /\ Len(link) \in Nat /\ Len(sent) \in Nat /\ send_ctr_ \in Nat
  BY LenProperties DEF IInv, Stream, Senders
<1>3. Pending \in Nat
  BY DEF Pending
<1>4. Reach \in Nat
  BY <1>2 DEF Reach
<1> QED
  BY <1>1, <1>2, <1>3, <1>4

(* The frames stay as they are described.                                  *)
LEMMA LogSame ==
    ASSUME NEW fs, Log(fs), UNCHANGED sent, up' => up /\ UNCHANGED send_ctr_
    PROVE  Log(fs)'
BY DEF Log

(* A step of other threads, or of the receiver.                            *)
LEMMA SendingSame ==
    ASSUME NEW fs, Sending(fs), UNCHANGED <<send_mu, sent>>,
           send_mu # NoThread => th'[send_mu] = th[send_mu],
           up' => up, Reach \in Nat, Reach' \in Nat, Reach' <= Reach,
           fs \in Seq(Frame)
    PROVE  Sending(fs)'
<1>1. Len(fs) \in Nat
  BY LenProperties
<1>2. ASSUME send_mu # NoThread
      PROVE  /\ FrameOf(send_mu)' = FrameOf(send_mu) /\ MoreToSend(send_mu)' = MoreToSend(send_mu)
  BY <1>2 DEF FrameOf, MoreToSend
<1>3. \A m \in 1 .. Len(fs) : 2 * m <= Reach' => 2 * m <= Reach
  BY <1>1
<1>4. ASSUME send_mu # NoThread
      PROVE  (LET s == th[send_mu]
              IN  /\ Len(sent) # 0 /\ s.call = Len(sent) /\ s.data = sent[Len(sent)]
                  /\ s.i = 0 => \A m \in 1 .. Len(fs) :
                                   s.pc = "seal" \/ m < Len(fs) \/ 2 * m <= Reach
                                   => fs[m].call < Len(sent))'
  BY <1>3, <1>4 DEF Sending
<1>5. up' => up /\ (send_mu # NoThread => th'[send_mu].pc = th[send_mu].pc)
  OBVIOUS
<1> QED
  BY <1>2, <1>4, <1>5 DEF Sending

(* A step that does not touch the stream.                                  *)
LEMMA CarriesSame ==
    ASSUME NEW fs, Carries(fs), UNCHANGED <<link, rcvd>>, Reading' => Reading,
           up' => up /\ UNCHANGED send_ctr_ /\ Pending' = Pending
    PROVE  Carries(fs)'
<1>1. Reach' = Reach
  BY DEF Reach
<1> QED
  BY <1>1 DEF Carries

(* A step that does not touch what was received.                           *)
LEMMA ReceivedSame ==
    ASSUME NEW fs, Received(fs), UNCHANGED <<rcvd, delivered, chunks>>,
           ~Reading' /\ up' => DOMAIN chunks = {}
    PROVE  Received(fs)'
BY DEF Received

(* A lost connection stays lost, and its stream does not grow.             *)
LEMMA UnreachedSame ==
    ASSUME NEW fs, NEW gs, Unreached(fs), fs \in Seq(Frame),
           ~up => ~up' /\ gs = fs /\ Reach' <= Reach, Reach \in Nat, Reach' \in Nat,
           \A o \in outcome' :
              \/ o \in outcome \/ o.ok
              \/ /\ ~up /\ o.call \in Nat \ {0}
                 /\ \A m \in 1 .. Len(fs) : 2 * m <= Reach => fs[m].call < o.call
    PROVE  Unreached(gs)'
<1> SUFFICES ASSUME NEW o \in outcome', ~o.ok
             PROVE  /\ ~up' /\ o.call \in Nat \ {0}
                    /\ \A m \in 1 .. Len(gs) : 2 * m <= Reach' => gs[m].call < o.call
  BY DEF Unreached
<1>1. /\ ~up /\ o.call \in Nat \ {0}
      /\ \A m \in 1 .. Len(fs) : 2 * m <= Reach => fs[m].call < o.call
  BY DEF Unreached
<1>2. Len(fs) \in Nat /\ gs = fs /\ ~up'
  BY <1>1, LenProperties
<1>3. \A m \in 1 .. Len(fs) : 2 * m <= Reach' => 2 * m <= Reach
  BY <1>1, <1>2
<1> QED
  BY <1>1, <1>2, <1>3

(* The initial state: no frames.                                           *)
LEMMA InitDelivery == Init => IInv2
<1> SUFFICES ASSUME Init PROVE IInv2
  OBVIOUS
<1>1. IInv
  BY InitIInv
<1> DEFINE fs == <<>>
<1>2. /\ fs \in Seq(Frame) /\ Len(fs) = 0 /\ send_ctr_ = 0 /\ sent = <<>> /\ link = <<>> /\ rcvd = <<>>
      /\ delivered = <<>> /\ send_mu = NoThread /\ DOMAIN chunks = {} /\ outcome = {}
  BY EmptySeq DEF Init
<1> HIDE DEF fs
<1>3. Len(sent) = 0 /\ Len(link) = 0 /\ Len(rcvd) = 0 /\ Len(delivered) = 0 /\ Reach = 0 /\ Pending = 0
  BY <1>2 DEF Reach, Pending
<1>4. Log(fs)
  BY <1>2 DEF Log
<1>5. Sending(fs)
  BY <1>2, <1>3 DEF Sending, Done, Part
<1>6. Carries(fs)
  BY <1>2, <1>3 DEF Carries
<1>7. Received(fs)
  BY <1>2, <1>3 DEF Received, Done, Part
<1>8. Unreached(fs)
  BY <1>2 DEF Unreached
<1> QED
  BY <1>1, <1>4, <1>5, <1>6, <1>7, <1>8 DEF IInv2, Delivery

-----------------------------------------------------------------------------
(* What is known of the thread that holds send_mu.                         *)
LEMMA Holder ==
    ASSUME IInv, NEW t \in Thread, th[t].pc \in {"seal", "len", "body"}
    PROVE  /\ send_mu = t /\ send_mu # NoThread
           /\ th[t] \in ThreadState /\ th[t].data \in Message /\ th[t].i \in Nat /\ th[t].call \in Nat
           /\ th[t].chunked \in BOOLEAN /\ th[t].id \in TransferId \cup {NoData} /\ th[t].nonce \in Nat
           /\ th[t].chunked => /\ th[t].data \in Message \ {<<>>} /\ th[t].id \in TransferId
                               /\ th[t].i <= Total(th[t].data)
           /\ ~th[t].chunked => th[t].data \in Plain /\ th[t].i = 0
           /\ th[t].pc \in {"len", "body"} => MoreToSend(t) /\ th[t].nonce + 1 = send_ctr_
<1>1. th[t] \in ThreadState /\ send_mu = t
  BY DEF IInv, Senders
<1>2. /\ th[t].i \in Nat /\ th[t].call \in Nat /\ th[t].chunked \in BOOLEAN
      /\ th[t].id \in TransferId \cup {NoData} /\ th[t].nonce \in Nat
  BY <1>1 DEF ThreadState
<1>3. th[t].data \in IF th[t].chunked THEN Message \ {<<>>} ELSE Plain
  BY DEF IInv, Senders
<1>4. th[t].data \in Message
  BY <1>3 DEF Plain, Message
<1> QED
  BY <1>1, <1>2, <1>3, <1>4, PeerLinkAssumption DEF IInv, Senders

(* total is the number of pieces, and not zero.                            *)
LEMMA TotalIs ==
    ASSUME Faithful, NEW d \in Message \ {<<>>}
    PROVE  Total(d) = Needed(d) /\ Total(d) \in Nat \ {0} /\ Total(d) < UINT16
BY PiecesJoin, NeededBounds DEF Faithful

(* A thread writes the plaintext of its frame, a frame as described.       *)
LEMMA FrameOfFacts ==
    ASSUME IInv, NEW fs, Sending(fs), NEW t \in Thread, th[t].pc \in {"seal", "len", "body"},
           MoreToSend(t)
    PROVE  FrameOK(FrameOf(t)) /\ Plaintext(t) = Pt(FrameOf(t))
<1>1. th[t].call = Len(sent) /\ Len(sent) # 0
  BY Holder DEF Sending
<1>2. th[t].call \in Nat \ {0}
  BY <1>1, Holder
<1>3. FrameOf(t) \in Frame
  BY <1>2, Holder DEF FrameOf, Frame
<1>4. FrameOK(FrameOf(t))
  BY <1>3, Holder DEF FrameOK, FrameOf, MoreToSend
<1> QED
  BY <1>4 DEF Plaintext, Pt, FrameOf

(* Frames more do not change what the frames before them amount to.        *)
LEMMA FramesBefore ==
    ASSUME NEW fs, NEW gs, NEW L \in Nat, \A k \in 1 .. L : gs[k] = fs[k], NEW n \in 0 .. L
    PROVE  /\ Done(gs, n) = Done(fs, n) /\ Part(gs, n) = Part(fs, n)
           /\ \A g : Follows(fs, n, g) /\ (g.i = 0 \/ n # 0) => Follows(gs, n, g)
<1>1. n # 0 => n \in 1 .. L
  OBVIOUS
<1>2. n # 0 => gs[n] = fs[n]
  BY <1>1
<1>3. Done(gs, n) = Done(fs, n) /\ Part(gs, n) = Part(fs, n)
  BY <1>2 DEF Done, Part
<1> QED
  BY <1>2, <1>3 DEF Follows

-----------------------------------------------------------------------------
(* A thread hands over a message.                                          *)
LEMMA CallDelivery ==
    ASSUME IInv, NEW fs, Delivery(fs), NEW t \in Thread, NEW data, NEW chunked,
           Call(t, data, chunked)
    PROVE  Delivery(fs)'
<1>1. /\ th[t].pc = "idle" /\ th' = [th EXCEPT ![t] = [IdleThread EXCEPT !.pc = "lock",
                                                     !.data = data, !.chunked = chunked]]
      /\ UNCHANGED <<send_mu, send_ctr_, sent, outcome, link, up>> /\ UNCHANGED receiver
  BY DEF Call
<1>2. UNCHANGED <<rpc, rcvd, delivered, chunks>>
  BY <1>1 DEF receiver
<1>3. send_mu # t /\ th \in [Thread -> ThreadState] /\ send_mu \in Thread \cup {NoThread}
  BY <1>1 DEF IInv, Senders
<1>4. send_mu # NoThread => th'[send_mu] = th[send_mu]
  BY <1>1, <1>3
<1>5. Reach' = Reach /\ Reading' = Reading /\ Reach \in Nat
  BY <1>1, <1>2, Lengths DEF Reach, Reading
<1>6. Pending' = Pending
  BY <1>1, <1>4 DEF Pending
<1>7. Log(fs)'
  BY <1>1, LogSame DEF Delivery
<1>8. Sending(fs)'
  BY <1>1, <1>4, <1>5, SendingSame DEF Delivery, Log
<1>9. Carries(fs)'
  BY <1>1, <1>2, <1>5, <1>6, CarriesSame DEF Delivery
<1>10. Received(fs)'
  BY <1>1, <1>2, <1>5, ReceivedSame DEF Delivery, Received
<1>11. Unreached(fs)'
  BY <1>1, <1>5, UnreachedSame DEF Delivery, Log
<1> QED
  BY <1>7, <1>8, <1>9, <1>10, <1>11 DEF Delivery

(* A thread takes send_mu: the frames of its message are due.              *)
LEMMA LockDelivery ==
    ASSUME Faithful, IInv, NEW fs, Delivery(fs), NEW t \in Thread, NEW id, Lock(t, id)
    PROVE  Delivery(fs)'
<1>1. /\ th[t].pc = "lock" /\ send_mu = NoThread /\ send_mu' = t
      /\ sent' = Append(sent, th[t].data)
      /\ th' = [th EXCEPT ![t].pc = "seal", ![t].id = id, ![t].call = Len(sent) + 1]
      /\ UNCHANGED <<send_ctr_, outcome, link, up>> /\ UNCHANGED receiver
  BY DEF Lock
<1>2. UNCHANGED <<rpc, rcvd, delivered, chunks>>
  BY <1>1 DEF receiver
<1>3. /\ th \in [Thread -> ThreadState] /\ th[t] \in ThreadState /\ th[t].i = 0
      /\ th[t].data \in (IF th[t].chunked THEN Message \ {<<>>} ELSE Plain)
  BY <1>1 DEF IInv, Senders
<1>4. /\ th'[t].pc = "seal" /\ th'[t].call = Len(sent) + 1 /\ th'[t].i = 0
      /\ th'[t].data = th[t].data /\ th'[t].chunked = th[t].chunked
  BY <1>1, <1>3 DEF ThreadState
<1>5. Reach' = Reach /\ Reading' = Reading /\ Reach \in Nat /\ Len(sent) \in Nat
  BY <1>1, <1>2, Lengths DEF Reach, Reading
<1>6. Pending' = 0 /\ Pending = 0
  BY <1>1, <1>4, PeerLinkAssumption DEF Pending
<1>7. /\ sent \in Seq(Message) /\ th[t].data \in Message
  BY <1>3 DEF IInv, Senders, Plain, Message
<1>8. /\ Len(sent') = Len(sent) + 1 /\ sent'[Len(sent) + 1] = th[t].data
      /\ \A n \in 1 .. Len(sent) : sent'[n] = sent[n]
  BY <1>1, <1>7, AppendProperties
<1>9. \A n \in 1 .. Len(fs) : fs[n].call \in 1 .. Len(sent) /\ fs[n].call < Len(sent')
  BY <1>5, <1>8 DEF Delivery, Log, FrameOK, Frame
<1>10. Log(fs)'
  <2>1. ASSUME NEW n \in 1 .. Len(fs)
        PROVE  fs[n].call <= Len(sent') /\ fs[n].data = sent'[fs[n].call]
    BY <1>5, <1>8, <1>9 DEF Delivery, Log
  <2> QED
    BY <1>1, <2>1 DEF Delivery, Log
<1>11. Sending(fs)'
  <2>1. th[t].chunked => 0 < Total(th[t].data)
    BY <1>3, TotalIs
  <2>2. MoreToSend(t)'
    BY <1>4, <2>1 DEF MoreToSend
  <2>3. up => Follows(fs, Len(fs), FrameOf(t)')
    <3>1. up => Done(fs, Len(fs)) = Len(sent) /\ Part(fs, Len(fs)) = 0
      BY <1>1 DEF Delivery, Sending
    <3>2. FrameOf(t)'.call = Len(sent) + 1 /\ FrameOf(t)'.i = 0
      BY <1>4 DEF FrameOf
    <3> QED
      BY <3>1, <3>2 DEF Follows
  <2>4. /\ Len(sent') # 0 /\ th'[t].call = Len(sent') /\ th'[t].data = sent'[Len(sent')]
        /\ \A m \in 1 .. Len(fs) : fs[m].call < Len(sent')
    BY <1>4, <1>5, <1>8, <1>9
  <2>5. t # NoThread
    BY PeerLinkAssumption
  <2> QED
    BY <1>1, <1>4, <2>2, <2>3, <2>4, <2>5 DEF Sending
<1>12. Carries(fs)'
  BY <1>1, <1>2, <1>5, <1>6, CarriesSame DEF Delivery
<1>13. Received(fs)'
  BY <1>1, <1>2, <1>5, ReceivedSame DEF Delivery, Received
<1>14. Unreached(fs)'
  BY <1>1, <1>5, UnreachedSame DEF Delivery, Log
<1> QED
  BY <1>10, <1>11, <1>12, <1>13, <1>14 DEF Delivery

(* A thread seals a frame.  While the connection is alive this is the      *)
(* frame that is due; later it goes nowhere.                               *)
LEMMA SealDelivery ==
    ASSUME IInv, NEW fs, Delivery(fs), NEW t \in Thread, Seal(t)
    PROVE  \E gs : Delivery(gs)'
<1>1. /\ th[t].pc = "seal" /\ MoreToSend(t) /\ send_ctr_' = send_ctr_ + 1
      /\ th' = [th EXCEPT ![t].pc = "len", ![t].nonce = send_ctr_]
      /\ UNCHANGED <<send_mu, sent, outcome, link, up>> /\ UNCHANGED receiver
  BY DEF Seal
<1>2. UNCHANGED <<rpc, rcvd, delivered, chunks>>
  BY <1>1 DEF receiver
<1>3. th \in [Thread -> ThreadState] /\ th[t] \in ThreadState /\ send_mu = t /\ t # NoThread
  BY <1>1, Holder DEF IInv, Senders
<1>4. /\ th'[t].pc = "len" /\ th'[t].call = th[t].call /\ th'[t].i = th[t].i /\ th'[t].id = th[t].id
      /\ th'[t].data = th[t].data /\ th'[t].chunked = th[t].chunked
  BY <1>1, <1>3 DEF ThreadState
<1>5. FrameOf(t)' = FrameOf(t) /\ FrameOK(FrameOf(t)) /\ FrameOf(t) \in Frame
  BY <1>1, <1>4, FrameOfFacts DEF FrameOf, Delivery, FrameOK
<1>6. /\ Reach' = Reach /\ Reading' = Reading /\ Reach \in Nat /\ Len(sent) \in Nat
      /\ send_ctr_ \in Nat /\ Len(rcvd) \in Nat /\ Len(link) \in Nat
  BY <1>1, <1>2, Lengths DEF Reach, Reading
<1>7. Pending' = 2 /\ Pending = 0
  BY <1>1, <1>3, <1>4 DEF Pending
<1>8. /\ Len(sent) # 0 /\ th[t].call = Len(sent) /\ th[t].data = sent[Len(sent)]
      /\ th[t].i = 0 => \A m \in 1 .. Len(fs) : fs[m].call < Len(sent)
  BY <1>1, <1>3 DEF Delivery, Sending
<1>9. fs \in Seq(Frame) /\ Len(fs) \in Nat
  BY LenProperties DEF Delivery, Log
<1>10. CASE ~up
  <2>1. Log(fs)'
    BY <1>1, <1>10, LogSame DEF Delivery
  <2>2. Sending(fs)'
    BY <1>1, <1>3, <1>4, <1>8, <1>10 DEF Sending
  <2>3. Carries(fs)'
    BY <1>1, <1>2, <1>6, <1>10, CarriesSame DEF Delivery
  <2>4. Received(fs)'
    BY <1>1, <1>2, <1>6, ReceivedSame DEF Delivery, Received
  <2>5. Unreached(fs)'
    BY <1>1, <1>6, <1>9, UnreachedSame DEF Delivery
  <2> QED
    BY <2>1, <2>2, <2>3, <2>4, <2>5 DEF Delivery
<1>11. CASE up
  <2>1. PICK gs : gs = Append(fs, FrameOf(t))
    OBVIOUS
  <2>2. PICK f \in Frame : f = FrameOf(t)
    BY <1>5
  <2>3. PICK L \in Nat : L = Len(fs)
    BY <1>9
  <2>4. L = send_ctr_ /\ Reach <= 2 * L
    <3>1. L = send_ctr_ /\ Reach + Pending <= 2 * send_ctr_
      BY <1>11, <2>3 DEF Delivery, Log, Carries
    <3> QED
      BY <1>6, <1>7, <3>1
  <2>5. /\ gs \in Seq(Frame) /\ Len(gs) = L + 1 /\ gs[L + 1] = f
        /\ \A n \in 1 .. L : gs[n] = fs[n]
    <3>1. gs = Append(fs, f)
      BY <2>1, <2>2
    <3> QED
      BY <1>9, <2>3, <3>1, AppendProperties
  <2>6. Follows(fs, L, f)
    BY <1>1, <1>3, <1>11, <2>2, <2>3 DEF Delivery, Sending
  <2>7. Log(gs)'
    <3>1. ASSUME NEW n \in 1 .. L + 1
          PROVE  /\ FrameOK(gs[n]) /\ Follows(gs, n - 1, gs[n])
                 /\ gs[n].call <= Len(sent) /\ gs[n].data = sent[gs[n].call]
      <4>1. CASE n \in 1 .. L
        <5>1. /\ gs[n] = fs[n] /\ n - 1 \in 0 .. L
              /\ FrameOK(fs[n]) /\ Follows(fs, n - 1, fs[n])
              /\ fs[n].call <= Len(sent) /\ fs[n].data = sent[fs[n].call]
          BY <2>3, <2>5, <4>1 DEF Delivery, Log
        <5>2. fs[n].i = 0 \/ n - 1 # 0
          BY <5>1 DEF Follows, Part
        <5>3. Follows(gs, n - 1, fs[n])
          BY <2>5, <5>1, <5>2, FramesBefore
        <5> QED
          BY <5>1, <5>3
      <4>2. CASE n = L + 1
        <5>1. n - 1 = L /\ L \in 0 .. L /\ gs[n] = f
          BY <2>5, <4>2
        <5>2. f.i = 0 \/ L # 0
          BY <2>6 DEF Follows, Part
        <5>3. Follows(gs, L, f)
          BY <2>5, <2>6, <5>1, <5>2, FramesBefore
        <5>4. f.call = Len(sent) /\ f.data = sent[Len(sent)]
          BY <1>8, <2>2 DEF FrameOf
        <5> QED
          BY <1>5, <1>6, <2>2, <5>1, <5>3, <5>4
      <4> QED
        BY <4>1, <4>2
    <3>2. Len(gs) = send_ctr_'
      BY <1>1, <2>4, <2>5
    <3> QED
      BY <1>1, <2>5, <3>1, <3>2 DEF Log
  <2>8. Sending(gs)'
    <3>1. ASSUME th[t].i = 0, NEW m \in 1 .. L + 1, m < L + 1 \/ 2 * m <= Reach
          PROVE  gs[m].call < Len(sent)
      <4>1. m \in 1 .. L
        BY <1>6, <2>4, <3>1
      <4> QED
        BY <1>8, <2>3, <2>5, <3>1, <4>1
    <3>2. Len(gs) # 0 /\ gs[Len(gs)] = FrameOf(t)'
      BY <1>5, <2>2, <2>5
    <3> QED
      BY <1>1, <1>3, <1>4, <1>6, <1>8, <2>5, <3>1, <3>2 DEF Sending
  <2>9. Carries(gs)'
    <3>1. Len(rcvd) <= L
      BY <2>3 DEF Delivery, Carries
    <3>2. Reach' + Pending' <= 2 * send_ctr_'
      BY <1>1, <1>6, <1>7, <2>4
    <3>3. ASSUME Reading, NEW m \in Nat \ {0}
          PROVE  /\ 2 * m - 1 \in 1 .. Len(link) =>
                       /\ Len(rcvd) + m <= Len(gs)
                       /\ link[2 * m - 1] = [part |-> "len", of |-> Len(Pt(gs[Len(rcvd) + m]))]
                 /\ 2 * m \in 1 .. Len(link) =>
                       link[2 * m] = [part |-> "body", nonce |-> Len(rcvd) + m - 1,
                                      pt |-> Pt(gs[Len(rcvd) + m])]
      <4>1. /\ 2 * m - 1 \in 1 .. Len(link) =>
                  /\ Len(rcvd) + m <= Len(fs)
                  /\ link[2 * m - 1] = [part |-> "len", of |-> Len(Pt(fs[Len(rcvd) + m]))]
            /\ 2 * m \in 1 .. Len(link) =>
                  link[2 * m] = [part |-> "body", nonce |-> Len(rcvd) + m - 1,
                                 pt |-> Pt(fs[Len(rcvd) + m])]
        BY <3>3 DEF Delivery, Carries
      <4>2. 2 * m \in 1 .. Len(link) => 2 * m - 1 \in 1 .. Len(link)
        BY <1>6
      <4>3. ASSUME 2 * m - 1 \in 1 .. Len(link)
            PROVE  Len(rcvd) + m <= Len(gs) /\ gs[Len(rcvd) + m] = fs[Len(rcvd) + m]
        <5>1. Len(rcvd) + m \in 1 .. L
          BY <1>6, <2>3, <4>1, <4>3
        <5>2. Len(rcvd) + m <= L + 1
          BY <1>6, <5>1
        <5> QED
          BY <2>5, <5>1, <5>2
      <4> QED
        BY <4>1, <4>2, <4>3
    <3>4. Len(rcvd) <= Len(gs)
      BY <1>6, <2>5, <3>1
    <3> QED
      BY <1>1, <1>2, <1>6, <3>2, <3>3, <3>4 DEF Carries
  <2>10. Received(gs)'
    <3>1. PICK R \in 0 .. L : R = Len(rcvd)
      BY <1>6, <2>3 DEF Delivery, Carries
    <3>2. Done(gs, R) = Done(fs, R) /\ Part(gs, R) = Part(fs, R) /\ (Part(fs, R) # 0 => gs[R] = fs[R])
      <4>1. Part(fs, R) # 0 => R \in 1 .. L
        BY DEF Part
      <4> QED
        BY <2>5, <4>1, FramesBefore
    <3> QED
      BY <1>1, <1>2, <1>6, <3>1, <3>2 DEF Delivery, Received
  <2>11. Unreached(gs)'
    BY <1>1, <1>6, <1>9, <1>11, UnreachedSame DEF Delivery
  <2> QED
    BY <2>7, <2>8, <2>9, <2>10, <2>11 DEF Delivery
<1> QED
  BY <1>10, <1>11

(* The item that is due is written to the stream.                          *)
LEMMA CarriesGrows ==
    ASSUME IInv, NEW fs, Log(fs), Carries(fs), up, UNCHANGED <<rcvd, rpc, up, send_ctr_>>,
           NEW item \in Item, Put(item), Pending \in {1, 2}, Pending' = Pending - 1,
           item = IF Pending = 2
                  THEN [part |-> "len", of |-> Len(Pt(fs[Len(fs)]))]
                  ELSE [part |-> "body", nonce |-> send_ctr_ - 1, pt |-> Pt(fs[Len(fs)])]
    PROVE  Carries(fs)' /\ Reach' = Reach + 1
<1>1. /\ Len(link') = Len(link) + 1 /\ link'[Len(link) + 1] = item
      /\ \A j \in 1 .. Len(link) : link'[j] = link[j]
  BY PutFacts DEF IInv
<1>2. PICK R \in Nat : R = Len(rcvd)
  BY Lengths
<1>3. PICK K \in Nat : K = Len(link)
  BY Lengths
<1>4. PICK L \in Nat : L = Len(fs)
  BY LenProperties DEF Log
<1>5. L = send_ctr_ /\ R <= L /\ Reach = 2 * R + K /\ Reach' = 2 * R + (K + 1)
  BY <1>1, <1>2, <1>3, <1>4 DEF Log, Carries, Reach
<1>6. Reach + Pending <= 2 * L
  BY <1>5 DEF Carries
<1>7. Reach' + Pending' <= 2 * send_ctr_'
  BY <1>5, <1>6
<1>8. ASSUME Reading, NEW m \in Nat \ {0}, 2 * m - 1 \in 1 .. K + 1
      PROVE  R + m <= L /\ link'[2 * m - 1] = [part |-> "len", of |-> Len(Pt(fs[R + m]))]
  <2>1. CASE 2 * m - 1 \in 1 .. K
    BY <1>1, <1>2, <1>3, <1>4, <1>8, <2>1 DEF Carries
  <2>2. CASE 2 * m - 1 = K + 1
    <3>1. 2 * R + K + Pending = 2 * L
      BY <1>2, <1>3, <1>5, <1>8 DEF IInv, Stream
    <3>2. Pending = 2
      <4>1. Pending = 1 => 2 * (R + m) - 1 = 2 * L
        BY <2>2, <3>1
      <4> QED
        BY <4>1
    <3>3. R + m = L
      <4>1. 2 * R + K + 2 = 2 * L
        BY <3>1, <3>2
      <4> QED
        BY <2>2, <4>1
    <3>4. link'[2 * m - 1] = item
      BY <1>1, <1>3, <2>2
    <3>5. item = [part |-> "len", of |-> Len(Pt(fs[R + m]))]
      BY <1>4, <3>2, <3>3
    <3> QED
      BY <3>3, <3>4, <3>5
  <2> QED
    BY <1>8, <2>1, <2>2
<1>9. ASSUME Reading, NEW m \in Nat \ {0}, 2 * m \in 1 .. K + 1
      PROVE  link'[2 * m] = [part |-> "body", nonce |-> R + m - 1, pt |-> Pt(fs[R + m])]
  <2>1. CASE 2 * m \in 1 .. K
    BY <1>1, <1>2, <1>3, <1>4, <1>9, <2>1 DEF Carries
  <2>2. CASE 2 * m = K + 1
    <3>1. 2 * R + K + Pending = 2 * L
      BY <1>2, <1>3, <1>5, <1>9 DEF IInv, Stream
    <3>2. Pending = 1 /\ R + m = L
      BY <2>2, <3>1
    <3>3. R + m - 1 = send_ctr_ - 1
      BY <1>5, <3>2
    <3> QED
      BY <1>1, <1>3, <1>4, <2>2, <3>2, <3>3
  <2> QED
    BY <1>9, <2>1, <2>2
<1>10. Reach' = Reach + 1
  BY <1>5
<1>11. Reading' = Reading
  BY DEF Reading
<1> QED
  BY <1>1, <1>2, <1>3, <1>4, <1>5, <1>7, <1>8, <1>9, <1>10, <1>11 DEF Carries

(* A thread writes a length prefix.                                        *)
LEMMA SendLenDelivery ==
    ASSUME IInv, NEW fs, Delivery(fs), NEW t \in Thread, SendLen(t)
    PROVE  Delivery(fs)'
<1> DEFINE item == [part |-> "len", of |-> Len(Plaintext(t))]
<1>1. /\ th[t].pc = "len" /\ Put(item) /\ th' = [th EXCEPT ![t].pc = "body"]
      /\ UNCHANGED <<send_mu, send_ctr_, sent, outcome, up>> /\ UNCHANGED receiver
  BY DEF SendLen
<1>2. UNCHANGED <<rpc, rcvd, delivered, chunks>>
  BY <1>1 DEF receiver
<1>3. th \in [Thread -> ThreadState] /\ th[t] \in ThreadState /\ send_mu = t /\ t # NoThread
      /\ MoreToSend(t)
  BY <1>1, Holder DEF IInv, Senders
<1>4. /\ th'[t].pc = "body" /\ th'[t].call = th[t].call /\ th'[t].i = th[t].i /\ th'[t].id = th[t].id
      /\ th'[t].data = th[t].data /\ th'[t].chunked = th[t].chunked
  BY <1>1, <1>3 DEF ThreadState
<1>5. FrameOf(t)' = FrameOf(t) /\ Plaintext(t) = Pt(FrameOf(t))
  BY <1>1, <1>3, <1>4, FrameOfFacts DEF FrameOf, Delivery
<1>6. /\ Reading' = Reading /\ Reach \in Nat /\ send_ctr_ \in Nat
  BY <1>1, <1>2, Lengths DEF Reading
<1>7. Pending' = 1 /\ Pending = 2
  BY <1>1, <1>3, <1>4 DEF Pending
<1>8. item \in Item
  BY <1>1, PlaintextFacts DEF IInv, Item
<1>9. fs \in Seq(Frame) /\ Len(fs) \in Nat
  BY LenProperties DEF Delivery, Log
<1>10. up => Len(fs) # 0 /\ fs[Len(fs)] = FrameOf(t) /\ Len(fs) = send_ctr_ /\ Reach + 2 <= 2 * Len(fs)
  BY <1>1, <1>3, <1>7 DEF Delivery, Sending, Log, Carries
<1>11. Carries(fs)' /\ (IF up THEN Reach' = Reach + 1 ELSE Reach' = Reach)
  <2>1. CASE up
    <3>1. item = [part |-> "len", of |-> Len(Pt(fs[Len(fs)]))]
      BY <1>5, <1>10, <2>1
    <3> HIDE DEF item
    <3> QED
      BY <1>1, <1>2, <1>7, <1>8, <2>1, <3>1, CarriesGrows DEF Delivery
  <2>2. CASE ~up
    <3>1. link' = link
      BY <1>1, <2>2 DEF Put
    <3>2. Reach' = Reach
      BY <1>2, <3>1 DEF Reach
    <3> QED
      BY <1>1, <1>2, <1>6, <2>2, <3>1, <3>2, CarriesSame DEF Delivery
  <2> QED
    BY <2>1, <2>2
<1>12. Reach' \in Nat
  BY <1>6, <1>11
<1>13. Log(fs)'
  BY <1>1, LogSame DEF Delivery
<1>14. Sending(fs)'
  <2>1. /\ Len(sent) # 0 /\ th[t].call = Len(sent) /\ th[t].data = sent[Len(sent)]
        /\ th[t].i = 0 => \A m \in 1 .. Len(fs) :
                             m < Len(fs) \/ 2 * m <= Reach => fs[m].call < Len(sent)
    BY <1>3 DEF Delivery, Sending
  <2>2. ASSUME NEW m \in 1 .. Len(fs), 2 * m <= Reach' PROVE m < Len(fs) \/ 2 * m <= Reach
    <3>1. CASE up
      BY <1>6, <1>9, <1>10, <1>11, <2>2, <3>1
    <3>2. CASE ~up
      BY <1>11, <2>2, <3>2
    <3> QED
      BY <3>1, <3>2
  <2>3. th'[t].pc # "seal"
    BY <1>4
  <2> QED
    BY <1>1, <1>3, <1>4, <1>5, <1>10, <2>1, <2>2, <2>3 DEF Sending
<1>15. Received(fs)'
  BY <1>1, <1>2, <1>6, ReceivedSame DEF Delivery, Received
<1>16. Unreached(fs)'
  BY <1>1, <1>6, <1>9, <1>11, <1>12, UnreachedSame DEF Delivery
<1> QED
  BY <1>11, <1>13, <1>14, <1>15, <1>16 DEF Delivery

(* A thread writes the body of a frame.                                    *)
LEMMA SendBodyDelivery ==
    ASSUME Faithful, IInv, NEW fs, Delivery(fs), NEW t \in Thread, SendBody(t)
    PROVE  Delivery(fs)'
<1> DEFINE item == [part |-> "body", nonce |-> th[t].nonce, pt |-> Plaintext(t)]
<1>1. /\ th[t].pc = "body" /\ Put(item)
      /\ UNCHANGED <<send_ctr_, sent, up>> /\ UNCHANGED receiver
  BY DEF SendBody
<1>2. UNCHANGED <<rpc, rcvd, delivered, chunks>>
  BY <1>1 DEF receiver
<1>3. th \in [Thread -> ThreadState] /\ th[t] \in ThreadState /\ send_mu = t /\ t # NoThread
      /\ MoreToSend(t) /\ th[t].nonce \in Nat /\ th[t].nonce + 1 = send_ctr_ /\ th[t].i \in Nat
  BY <1>1, Holder DEF IInv, Senders
<1>4. Plaintext(t) = Pt(FrameOf(t)) /\ FrameOK(FrameOf(t))
  BY <1>1, <1>3, FrameOfFacts DEF Delivery
<1>5. /\ Reading' = Reading /\ Reach \in Nat /\ send_ctr_ \in Nat
  BY <1>1, <1>2, Lengths DEF Reading
<1>6. Pending = 1 /\ Pending' = 0
  <2>1. CASE th[t].chunked
    <3>1. th' = [th EXCEPT ![t].pc = "seal", ![t].i = th[t].i + 1] /\ send_mu' = send_mu
      BY <2>1 DEF SendBody
    <3>2. th'[t].pc = "seal"
      BY <1>3, <3>1 DEF ThreadState
    <3> QED
      BY <1>1, <1>3, <3>1, <3>2 DEF Pending
  <2>2. CASE ~th[t].chunked
    BY <1>1, <1>3, <2>2 DEF SendBody, Return, Pending
  <2> QED
    BY <2>1, <2>2
<1>7. item \in Item
  BY <1>1, <1>3, PlaintextFacts DEF IInv, Item
<1>8. fs \in Seq(Frame) /\ Len(fs) \in Nat
  BY LenProperties DEF Delivery, Log
<1>9. up => Len(fs) # 0 /\ fs[Len(fs)] = FrameOf(t)
  BY <1>1, <1>3 DEF Delivery, Sending
<1>10. Carries(fs)' /\ (IF up THEN Reach' = Reach + 1 ELSE Reach' = Reach)
  <2>1. CASE up
    <3>1. th[t].nonce = send_ctr_ - 1
      BY <1>3, <1>5
    <3>2. item = [part |-> "body", nonce |-> send_ctr_ - 1, pt |-> Pt(fs[Len(fs)])]
      BY <1>4, <1>9, <2>1, <3>1
    <3> HIDE DEF item
    <3> QED
      BY <1>1, <1>2, <1>6, <1>7, <2>1, <3>2, CarriesGrows DEF Delivery
  <2>2. CASE ~up
    <3>1. link' = link
      BY <1>1, <2>2 DEF Put
    <3>2. Reach' = Reach
      BY <1>2, <3>1 DEF Reach
    <3> QED
      BY <1>1, <1>2, <1>5, <2>2, <3>1, <3>2, CarriesSame DEF Delivery
  <2> QED
    BY <2>1, <2>2
<1>11. Reach' \in Nat
  BY <1>5, <1>10
<1>12. Log(fs)'
  BY <1>1, LogSame DEF Delivery
<1>13. Received(fs)'
  BY <1>1, <1>2, <1>5, ReceivedSame DEF Delivery, Received
<1>14. /\ Len(sent) # 0 /\ th[t].call = Len(sent) /\ th[t].data = sent[Len(sent)]
  BY <1>3 DEF Delivery, Sending
<1>15. CASE th[t].chunked
  <2>1. /\ th' = [th EXCEPT ![t].pc = "seal", ![t].i = th[t].i + 1]
        /\ UNCHANGED <<send_mu, outcome>>
    BY <1>15 DEF SendBody
  <2>2. PICK x \in Nat \ {0} : x = th[t].i + 1
    BY <1>3
  <2>3. /\ th'[t].pc = "seal" /\ th'[t].call = th[t].call /\ th'[t].i = x /\ th'[t].id = th[t].id
        /\ th'[t].data = th[t].data /\ th'[t].chunked = th[t].chunked
    <3>1. th' = [th EXCEPT ![t].pc = "seal", ![t].i = x]
      BY <2>1, <2>2
    <3> QED
      BY <1>3, <3>1 DEF ThreadState
  <2>4. /\ Total(th[t].data) \in Nat /\ x <= Total(th[t].data)
        /\ MoreToSend(t)' <=> x < Total(th[t].data)
        /\ IsLast(FrameOf(t)) <=> x = Total(th[t].data)
    <3>1. Total(th[t].data) \in Nat /\ th[t].i < Total(th[t].data)
      BY <1>1, <1>3, <1>15, Holder, TotalFacts DEF MoreToSend
    <3>2. IsLast(FrameOf(t)) <=> x = Total(th[t].data)
      BY <1>15, <2>2 DEF IsLast, FrameOf
    <3> QED
      BY <1>3, <1>15, <2>2, <2>3, <3>1, <3>2 DEF MoreToSend
  <2>5. FrameOf(t).call = Len(sent) /\ FrameOf(t).i + 1 = x /\ FrameOf(t).i + 1 # 0
    BY <1>3, <1>14, <2>2 DEF FrameOf
  <2>6. up /\ ~MoreToSend(t)' => Done(fs, Len(fs)) = Len(sent) /\ Part(fs, Len(fs)) = 0
    <3>1. ~MoreToSend(t)' => IsLast(FrameOf(t))
      BY <2>2, <2>4
    <3> QED
      BY <1>9, <2>5, <3>1 DEF Done, Part
  <2>7. up /\ MoreToSend(t)' => Follows(fs, Len(fs), FrameOf(t)')
    <3>1. MoreToSend(t)' => ~IsLast(FrameOf(t))
      BY <2>2, <2>4
    <3>2. up /\ MoreToSend(t)' => Done(fs, Len(fs)) = Len(sent) - 1 /\ Part(fs, Len(fs)) = x
      BY <1>9, <2>5, <3>1 DEF Done, Part
    <3>3. Len(sent) \in Nat /\ (Len(sent) - 1) + 1 = Len(sent)
      BY Lengths
    <3>4. /\ FrameOf(t)'.call = Len(sent) /\ FrameOf(t)'.i = x /\ FrameOf(t)'.data = FrameOf(t).data
          /\ FrameOf(t)'.chunked = FrameOf(t).chunked /\ FrameOf(t)'.id = FrameOf(t).id
      BY <1>14, <2>3 DEF FrameOf
    <3> QED
      BY <1>9, <3>2, <3>3, <3>4 DEF Follows
  <2>8. Sending(fs)'
    BY <1>1, <1>3, <1>14, <2>1, <2>3, <2>6, <2>7 DEF Sending
  <2>9. Unreached(fs)'
    BY <1>1, <1>5, <1>8, <1>10, <1>11, <2>1, UnreachedSame DEF Delivery
  <2> QED
    BY <1>10, <1>12, <1>13, <2>8, <2>9 DEF Delivery
<1>16. CASE ~th[t].chunked
  <2>1. Return(t, TRUE, 1)
    BY <1>16 DEF SendBody
  <2>2. send_mu' = NoThread /\ \A o \in outcome' : o \in outcome \/ o.ok
    BY <2>1 DEF Return
  <2>3. up => Done(fs, Len(fs)) = Len(sent) /\ Part(fs, Len(fs)) = 0
    <3>1. IsLast(FrameOf(t)) /\ FrameOf(t).call = Len(sent)
      BY <1>14, <1>16 DEF IsLast, FrameOf
    <3> QED
      BY <1>9, <3>1 DEF Done, Part
  <2>4. Sending(fs)'
    BY <1>1, <2>2, <2>3 DEF Sending
  <2>5. Unreached(fs)'
    BY <1>1, <1>5, <1>8, <1>10, <1>11, <2>2, UnreachedSame DEF Delivery
  <2> QED
    BY <1>10, <1>12, <1>13, <2>4, <2>5 DEF Delivery
<1> QED
  BY <1>15, <1>16

(* A thread returns without a write.  It reports a failure only when no    *)
(* piece of its message was sent, and then none will be read.              *)
LEMMA ReturnDelivery ==
    ASSUME Faithful, IInv, NEW fs, Delivery(fs), NEW t \in Thread, SendFails(t) \/ ChunksDone(t)
    PROVE  Delivery(fs)'
<1>1. th[t].pc \in {"seal", "len", "body"} /\ send_mu' = NoThread
      /\ UNCHANGED <<send_ctr_, sent, link, up>> /\ UNCHANGED receiver
  BY DEF SendFails, ChunksDone, Return
<1>2. UNCHANGED <<rpc, rcvd, delivered, chunks>>
  BY <1>1 DEF receiver
<1>3. send_mu = t /\ t # NoThread /\ th[t].i \in Nat
  BY <1>1, Holder
<1>4. Reach' = Reach /\ Reading' = Reading /\ Reach \in Nat /\ Len(sent) \in Nat
  BY <1>1, <1>2, Lengths DEF Reach, Reading
<1>5. up => ChunksDone(t) /\ th[t].pc = "seal" /\ ~MoreToSend(t)
  BY DEF SendFails, ChunksDone
<1>6. Log(fs)'
  BY <1>1, LogSame DEF Delivery
<1>7. Sending(fs)'
  <2>1. up => Done(fs, Len(fs)) = Len(sent) /\ Part(fs, Len(fs)) = 0
    BY <1>3, <1>5 DEF Delivery, Sending
  <2> QED
    BY <1>1, <2>1 DEF Sending
<1>8. Carries(fs)'
  <2>1. up => Pending' = 0 /\ Pending = 0
    BY <1>1, <1>3, <1>5 DEF Pending
  <2> QED
    BY <1>1, <1>2, <1>4, <2>1, CarriesSame DEF Delivery
<1>9. Received(fs)'
  BY <1>1, <1>2, <1>4, ReceivedSame DEF Delivery, Received
<1>10. Unreached(fs)'
  <2>1. \A o \in outcome' :
           \/ o \in outcome \/ o.ok
           \/ /\ ~up /\ o.call \in Nat \ {0}
              /\ \A m \in 1 .. Len(fs) : 2 * m <= Reach => fs[m].call < o.call
    <3>1. CASE ChunksDone(t)
      <4>1. th[t].chunked
        BY <3>1 DEF ChunksDone, MoreToSend
      <4>2. Total(th[t].data) > 0
        BY <1>1, <4>1, Holder, TotalIs
      <4> DEFINE r == [call |-> th[t].call, chunked |-> th[t].chunked,
                       ok |-> Total(th[t].data) > 0, frames |-> Total(th[t].data)]
      <4>3. outcome' = outcome \cup {r}
        BY <3>1 DEF ChunksDone, Return
      <4>4. r.ok = (Total(th[t].data) > 0)
        OBVIOUS
      <4> HIDE DEF r
      <4> QED
        BY <4>2, <4>3, <4>4
    <3>2. CASE SendFails(t)
      <4>1. ~up /\ Return(t, th[t].i > 0, th[t].i)
        BY <3>2 DEF SendFails
      <4>2. th[t].call = Len(sent) /\ Len(sent) \in Nat \ {0}
        BY <1>3, <1>4 DEF Delivery, Sending
      <4>3. ~(th[t].i > 0) => \A m \in 1 .. Len(fs) : 2 * m <= Reach => fs[m].call < th[t].call
        <5>1. ~(th[t].i > 0) => th[t].i = 0
          BY <1>3
        <5> QED
          BY <1>3, <4>2, <5>1 DEF Delivery, Sending
      <4> DEFINE r == [call |-> th[t].call, chunked |-> th[t].chunked,
                       ok |-> th[t].i > 0, frames |-> th[t].i]
      <4>4. outcome' = outcome \cup {r}
        BY <4>1 DEF Return
      <4>5. r.call = th[t].call /\ r.ok = (th[t].i > 0)
        OBVIOUS
      <4> HIDE DEF r
      <4> QED
        BY <4>1, <4>2, <4>3, <4>4, <4>5
    <3> QED
      BY <3>1, <3>2
  <2>2. fs \in Seq(Frame)
    BY DEF Delivery, Log
  <2> QED
    BY <1>1, <1>4, <2>1, <2>2, UnreachedSame DEF Delivery
<1> QED
  BY <1>6, <1>7, <1>8, <1>9, <1>10 DEF Delivery

-----------------------------------------------------------------------------
(* parse_chunk_frame recognises a frame of send_chunked.                   *)
LEMMA ChunkFrame ==
    ASSUME Faithful, NEW f, FrameOK(f), f.chunked
    PROVE  /\ Pt(f) # <<>> /\ is_chunk_frame(Pt(f)) /\ Tail(Pt(f)) = Piece(f.data, f.i)
           /\ Head(Pt(f)).transfer_id = f.id /\ Head(Pt(f)).index = f.i
           /\ Head(Pt(f)).total = Total(f.data)
<1> DEFINE h == [transfer_id |-> f.id, index |-> f.i, total |-> Total(f.data)]
           S == Cell \cup ChunkHeader
<1>1. f.data \in Message \ {<<>>} /\ f.i \in Nat /\ f.id \in TransferId /\ f.i < Total(f.data)
  BY DEF FrameOK, Frame
<1>2. Total(f.data) \in Nat \ {0} /\ Total(f.data) < UINT16
  BY <1>1, TotalIs
<1>3. h \in ChunkHeader /\ h.total # 0 /\ h.index < h.total
  BY <1>1, <1>2, UINT16Assumption DEF ChunkHeader
<1>4. h.transfer_id = f.id /\ h.index = f.i /\ h.total = Total(f.data)
  OBVIOUS
<1>5. Pt(f) = <<h>> \o Piece(f.data, f.i)
  BY DEF Pt, make_chunk_frame
<1> HIDE DEF h
<1>6. Piece(f.data, f.i) \in Seq(S)
  BY <1>1, PieceFacts, SeqMonotonic
<1>7. PICK p \in Seq(S) : p = Piece(f.data, f.i)
  BY <1>6
<1>8. h \in S
  BY <1>3
<1> HIDE DEF S
<1>9. Head(<<h>> \o p) = h /\ Tail(<<h>> \o p) = p /\ Len(<<h>> \o p) >= 1 /\ <<h>> \o p # <<>>
  BY <1>8
<1> QED
  BY <1>3, <1>4, <1>5, <1>7, <1>9 DEF is_chunk_frame

(* A reassembler with i pieces takes the next one.                         *)
LEMMA AddAt ==
    ASSUME Faithful, NEW d \in Message \ {<<>>}, NEW i \in Nat, i < Total(d)
    PROVE  /\ ~add_refuses(AsmAt(d, i), i)
           /\ add(AsmAt(d, i), i, Piece(d, i)) = AsmAt(d, i + 1)
<1>1. PICK n \in Nat \ {0} : n = Total(d)
  BY TotalIs
<1>2. n < UINT16 /\ UINT16 \in Nat \ {0} /\ i \in 0 .. n - 1
  BY <1>1, TotalIs, UINT16Assumption
<1>3. (i + 1) % UINT16 = i + 1
  BY <1>1, <1>2
<1> DEFINE slots == [j \in 0 .. n - 1 |-> IF j < i THEN Piece(d, j) ELSE NoData]
           more  == [j \in 0 .. n - 1 |-> IF j < i + 1 THEN Piece(d, j) ELSE NoData]
<1>4. /\ AsmAt(d, i) = [slots |-> slots, total |-> n, received |-> i]
      /\ AsmAt(d, i + 1) = [slots |-> more, total |-> n, received |-> i + 1]
  BY <1>1 DEF AsmAt
<1>5. slots[i] = NoData
  BY <1>2
<1>6. [slots EXCEPT ![i] = Piece(d, i)] = more
  <2>1. ASSUME NEW j \in 0 .. n - 1 PROVE [slots EXCEPT ![i] = Piece(d, i)][j] = more[j]
    BY <1>2
  <2>2. DOMAIN [slots EXCEPT ![i] = Piece(d, i)] = 0 .. n - 1 /\ DOMAIN more = 0 .. n - 1
    OBVIOUS
  <2> QED
    BY <2>1, <2>2
<1> HIDE DEF slots, more
<1>7. PICK a : a = [slots |-> slots, total |-> n, received |-> i]
  OBVIOUS
<1>8. a.slots = slots /\ a.total = n /\ a.received = i
  BY <1>7
<1>9. ~add_refuses(a, i)
  BY <1>1, <1>2, <1>5, <1>8 DEF add_refuses
<1>10. PICK x \in Nat : x = i + 1
  OBVIOUS
<1>11. add(a, i, Piece(d, i)) = [a EXCEPT !.slots[i] = Piece(d, i), !.received = x]
  BY <1>3, <1>8, <1>9, <1>10 DEF add
<1>12. [a EXCEPT !.slots[i] = Piece(d, i), !.received = x]
       = [slots |-> [slots EXCEPT ![i] = Piece(d, i)], total |-> n, received |-> x]
  <2>1. PICK w : w = [slots EXCEPT ![i] = Piece(d, i)]
    OBVIOUS
  <2>2. [a EXCEPT !.slots[i] = Piece(d, i), !.received = x] = [a EXCEPT !.slots = w, !.received = x]
    <3>1. "slots" \in DOMAIN a /\ "received" \in DOMAIN a
      BY <1>7
    <3>2. [a EXCEPT !.slots[i] = Piece(d, i)] = [a EXCEPT !.slots = [a.slots EXCEPT ![i] = Piece(d, i)]]
      BY <3>1, Zenon
    <3>3. [a EXCEPT !.slots[i] = Piece(d, i)] = [a EXCEPT !.slots = w]
      BY <1>8, <2>1, <3>2
    <3> QED
      BY <3>3, Zenon
  <2>3. [a EXCEPT !.slots = w, !.received = x] = [slots |-> w, total |-> n, received |-> x]
    <3>1. a \in [slots : {slots}, total : {n}, received : {i}]
      BY <1>7
    <3>2. [a EXCEPT !.slots = w, !.received = x] \in [slots : {w}, total : {n}, received : {x}]
      BY <3>1
    <3>3. \A r \in [slots : {w}, total : {n}, received : {x}] :
             r = [slots |-> w, total |-> n, received |-> x]
      OBVIOUS
    <3> QED
      BY <3>2, <3>3, Zenon
  <2> QED
    BY <2>1, <2>2, <2>3
<1> QED
  BY <1>4, <1>6, <1>7, <1>9, <1>10, <1>11, <1>12

(* The open transfer of a registry, and nothing else.                      *)
Only(id, d, i) == [x \in {id} |-> [asm |-> AsmAt(d, i), created |-> 0]]

(* ingest of the next piece completes the transfer, with the data that was *)
(* sent as its payload, or leaves it open with a piece more.               *)
LEMMA IngestAt ==
    ASSUME Faithful, NEW d \in Message \ {<<>>}, NEW i \in Nat, i < Total(d), NEW id, NEW map,
           emplace(map, id, Total(d), 0) = Only(id, d, i)
    PROVE  /\ ingest_completes(map, id, i, Total(d), Piece(d, i), 0) <=> i + 1 = Total(d)
           /\ i + 1 = Total(d) =>
                 /\ ingest_payload(map, id, i, Total(d), Piece(d, i), 0) = d
                 /\ DOMAIN ingest(map, id, i, Total(d), Piece(d, i), 0) = {}
           /\ i + 1 # Total(d) =>
                 ingest(map, id, i, Total(d), Piece(d, i), 0) = Only(id, d, i + 1)
<1>1. PICK n \in Nat \ {0} : n = Total(d)
  BY TotalIs
<1>2. PICK p : p = Piece(d, i)
  OBVIOUS
<1>3. PICK m : m = emplace(map, id, n, 0)
  OBVIOUS
<1>4. m = Only(id, d, i) /\ m[id].asm = AsmAt(d, i) /\ DOMAIN m = {id}
  BY <1>1, <1>3 DEF Only
<1>5. ~add_refuses(AsmAt(d, i), i) /\ add(AsmAt(d, i), i, p) = AsmAt(d, i + 1)
  BY <1>2, AddAt
<1>6. /\ AsmAt(d, i).total = n /\ AsmAt(d, i + 1).received = i + 1 /\ AsmAt(d, i + 1).total = n
      /\ AsmAt(d, i + 1).slots = [j \in 0 .. n - 1 |-> IF j < i + 1 THEN Piece(d, j) ELSE NoData]
  BY <1>1 DEF AsmAt
<1>7. i + 1 >= n <=> i + 1 = n
  BY <1>1
<1>8. ingest_completes(map, id, i, n, p, 0) <=> i + 1 = n
  BY <1>3, <1>4, <1>5, <1>6, <1>7 DEF ingest_completes, add_completes
<1>9. ASSUME i + 1 = n
      PROVE  ingest_payload(map, id, i, n, p, 0) = d /\ DOMAIN ingest(map, id, i, n, p, 0) = {}
  <2>1. ingest_payload(map, id, i, n, p, 0) = assembled(AsmAt(d, i + 1))
    BY <1>3, <1>4, <1>5 DEF ingest_payload
  <2>2. assembled(AsmAt(d, i + 1))
        = FlattenSeq([j \in 1 .. n |-> AsmAt(d, i + 1).slots[j - 1]])
    BY <1>6 DEF assembled
  <2>3. ASSUME NEW j \in 1 .. n PROVE AsmAt(d, i + 1).slots[j - 1] = Piece(d, j - 1)
    <3>1. j - 1 \in 0 .. n - 1 /\ j - 1 < i + 1
      BY <1>9
    <3> QED
      BY <1>6, <3>1
  <2>4. [j \in 1 .. n |-> AsmAt(d, i + 1).slots[j - 1]] = [j \in 1 .. n |-> Piece(d, j - 1)]
    BY <2>3
  <2>5. FlattenSeq([j \in 1 .. n |-> Piece(d, j - 1)]) = d
    BY <1>1, PiecesJoin DEF Faithful
  <2>6. ingest(map, id, i, n, p, 0) = [x \in DOMAIN m \ {id} |-> m[x]]
    BY <1>3, <1>8, <1>9 DEF ingest
  <2>7. DOMAIN ingest(map, id, i, n, p, 0) = {}
    BY <1>4, <2>6
  <2> QED
    BY <2>1, <2>2, <2>4, <2>5, <2>7
<1>10. ASSUME i + 1 # n
       PROVE  ingest(map, id, i, n, p, 0) = Only(id, d, i + 1)
  <2>1. ingest(map, id, i, n, p, 0) = [m EXCEPT ![id].asm = add(m[id].asm, i, p)]
    BY <1>3, <1>8, <1>10 DEF ingest
  <2>2. PICK a : a = AsmAt(d, i + 1)
    OBVIOUS
  <2>3. add(m[id].asm, i, p) = a
    BY <1>4, <1>5, <2>2
  <2>4. PICK e : e = [asm |-> AsmAt(d, i), created |-> 0]
    OBVIOUS
  <2>5. m = [x \in {id} |-> e]
    BY <1>4, <2>4 DEF Only
  <2>6. [e EXCEPT !.asm = a] = [asm |-> a, created |-> 0]
    BY <2>4
  <2>7. [m EXCEPT ![id].asm = a] = [x \in {id} |-> [e EXCEPT !.asm = a]]
    BY <2>5
  <2> QED
    BY <2>1, <2>2, <2>3, <2>6, <2>7 DEF Only
<1> QED
  BY <1>1, <1>2, <1>8, <1>9, <1>10

-----------------------------------------------------------------------------
(* The first frame on the stream is the one after those already read.      *)
LEMMA FirstFrame ==
    ASSUME IInv, NEW fs, Delivery(fs), Reading, Len(link) >= 2
    PROVE  /\ Len(rcvd) + 1 \in 1 .. Len(fs) /\ WellFramed /\ link[2].pt = Pt(fs[Len(rcvd) + 1])
           /\ FrameOK(fs[Len(rcvd) + 1]) /\ Follows(fs, Len(rcvd), fs[Len(rcvd) + 1])
           /\ fs[Len(rcvd) + 1].call <= Len(sent)
           /\ fs[Len(rcvd) + 1].data = sent[fs[Len(rcvd) + 1].call]
<1>1. PICK R \in Nat : R = Len(rcvd)
  BY Lengths
<1>2. PICK K \in Nat : K = Len(link)
  BY Lengths
<1>3. Len(fs) \in Nat
  BY LenProperties DEF Delivery, Log
<1>4. 1 \in Nat \ {0} /\ 2 * 1 - 1 \in 1 .. Len(link) /\ 2 * 1 \in 1 .. Len(link)
  BY <1>2
<1>5. /\ R + 1 <= Len(fs)
      /\ link[2 * 1 - 1] = [part |-> "len", of |-> Len(Pt(fs[R + 1]))]
      /\ link[2 * 1] = [part |-> "body", nonce |-> R + 1 - 1, pt |-> Pt(fs[R + 1])]
  BY <1>1, <1>4 DEF Delivery, Carries
<1>6. 2 * 1 - 1 = 1 /\ 2 * 1 = 2 /\ R + 1 \in 1 .. Len(fs) /\ (R + 1) - 1 = R
  BY <1>3, <1>5
<1>7. /\ link[1].part = "len" /\ link[1].of = Len(Pt(fs[R + 1]))
      /\ link[2].part = "body" /\ link[2].pt = Pt(fs[R + 1])
  BY <1>5, <1>6
<1>8. WellFramed
  BY <1>7 DEF WellFramed
<1>9. /\ FrameOK(fs[R + 1]) /\ Follows(fs, (R + 1) - 1, fs[R + 1])
      /\ fs[R + 1].call <= Len(sent) /\ fs[R + 1].data = sent[fs[R + 1].call]
  BY <1>6 DEF Delivery, Log
<1> QED
  BY <1>1, <1>6, <1>7, <1>8, <1>9

(* The stream after a frame has been read and its nonce noted.             *)
LEMMA CarriesRead ==
    ASSUME IInv, NEW fs, Delivery(fs), Reading, Len(link) >= 2,
           link' = SubSeq(link, 3, Len(link)), Len(rcvd') = Len(rcvd) + 1,
           UNCHANGED <<up, rpc, send_ctr_>>, Pending' = Pending
    PROVE  Carries(fs)' /\ Reach' = Reach
<1>1. PICK R \in Nat : R = Len(rcvd)
  BY Lengths
<1>2. PICK K \in Nat : K = Len(link)
  BY Lengths
<1>3. Len(link') = K - 2 /\ \A j \in 1 .. K - 2 : link'[j] = link[j + 2]
  BY <1>2, FrameRead DEF IInv
<1>4. Reach' = Reach
  <2>1. Len(rcvd') = R + 1
    BY <1>1
  <2>2. Reach' = 2 * (R + 1) + (K - 2) /\ Reach = 2 * R + K
    BY <1>1, <1>2, <1>3, <2>1 DEF Reach
  <2>3. 2 * (R + 1) + (K - 2) = 2 * R + K
    OBVIOUS
  <2> QED
    BY <2>2, <2>3
<1>5. R + 1 <= Len(fs)
  BY <1>1, FirstFrame
<1>6. ASSUME NEW m \in Nat \ {0}
      PROVE  /\ 2 * m - 1 \in 1 .. K - 2 =>
                   /\ (R + 1) + m <= Len(fs)
                   /\ link'[2 * m - 1] = [part |-> "len", of |-> Len(Pt(fs[(R + 1) + m]))]
             /\ 2 * m \in 1 .. K - 2 =>
                   link'[2 * m] = [part |-> "body", nonce |-> (R + 1) + m - 1,
                                   pt |-> Pt(fs[(R + 1) + m])]
  <2>1. PICK l \in Nat \ {0} : l = m + 1
    OBVIOUS
  <2>2. /\ 2 * l - 1 \in 1 .. K =>
              /\ R + l <= Len(fs)
              /\ link[2 * l - 1] = [part |-> "len", of |-> Len(Pt(fs[R + l]))]
        /\ 2 * l \in 1 .. K =>
              link[2 * l] = [part |-> "body", nonce |-> R + l - 1, pt |-> Pt(fs[R + l])]
    BY <1>1, <1>2 DEF Delivery, Carries
  <2>3. R + l = (R + 1) + m /\ 2 * l - 1 = (2 * m - 1) + 2 /\ 2 * l = 2 * m + 2
        /\ R + l - 1 = (R + 1) + m - 1
    BY <2>1
  <2>4. /\ 2 * m - 1 \in 1 .. K - 2 => 2 * l - 1 \in 1 .. K /\ link'[2 * m - 1] = link[2 * l - 1]
        /\ 2 * m \in 1 .. K - 2 => 2 * l \in 1 .. K /\ link'[2 * m] = link[2 * l]
    <3>1. \A j, h \in Nat : j \in 1 .. K - 2 /\ h = j + 2 => h \in 1 .. K
      OBVIOUS
    <3>2. \A j, h \in Nat : j \in 1 .. K - 2 /\ h = j + 2 => link'[j] = link[h]
      BY <1>3
    <3>3. 2 * m - 1 \in Nat /\ 2 * m \in Nat /\ 2 * l - 1 \in Nat /\ 2 * l \in Nat
      OBVIOUS
    <3> QED
      BY <3>1, <3>2, <3>3, <2>3
  <2>5. ASSUME 2 * m - 1 \in 1 .. K - 2
        PROVE  /\ (R + 1) + m <= Len(fs)
               /\ link'[2 * m - 1] = [part |-> "len", of |-> Len(Pt(fs[(R + 1) + m]))]
    <3>1. /\ R + l <= Len(fs)
          /\ link'[2 * m - 1] = [part |-> "len", of |-> Len(Pt(fs[R + l]))]
      BY <2>2, <2>4, <2>5
    <3> QED
      BY <3>1, <2>3
  <2>6. ASSUME 2 * m \in 1 .. K - 2
        PROVE  link'[2 * m] = [part |-> "body", nonce |-> (R + 1) + m - 1,
                               pt |-> Pt(fs[(R + 1) + m])]
    <3>1. link'[2 * m] = [part |-> "body", nonce |-> R + l - 1, pt |-> Pt(fs[R + l])]
      BY <2>2, <2>4, <2>6
    <3> QED
      BY <3>1, <2>3
  <2> QED
    BY <2>5, <2>6
<1>7. (up => Reach + Pending <= 2 * send_ctr_) /\ Reading' = Reading
  BY DEF Delivery, Carries, Reading
<1> QED
  BY <1>1, <1>3, <1>4, <1>5, <1>6, <1>7 DEF Carries

(* What recv_loop does with the frame f that goes on where it stands: the  *)
(* message is delivered with its last frame, and not before.               *)
LEMMA RecvFrame ==
    ASSUME Faithful, IInv, NEW fs, Delivery(fs), RecvMsg
    PROVE  /\ Received(fs)'
           /\ \/ UNCHANGED delivered
              \/ /\ Len(delivered) < Len(sent)
                 /\ delivered' = Append(delivered, sent[Len(delivered) + 1])
<1>1. /\ rpc = "loop" /\ Len(link) >= 2 /\ rcvd' = Append(rcvd, link[2].nonce)
      /\ UNCHANGED <<up, rpc, sent>> /\ Reading
  BY DEF RecvMsg, Reading, sender
<1>2. PICK R \in Nat : R = Len(rcvd)
  BY Lengths
<1>3. PICK f : f = fs[R + 1]
  OBVIOUS
<1>4. /\ link[2].pt = Pt(f) /\ FrameOK(f) /\ Follows(fs, R, f)
      /\ f.call <= Len(sent) /\ f.data = sent[f.call]
  BY <1>1, <1>2, <1>3, FirstFrame
<1>5. Len(rcvd') = R + 1
  <2>1. rcvd \in Seq(Nat) /\ link[2].nonce \in Nat
    BY <1>1, <1>2, FirstBody DEF IInv, Stream
  <2> QED
    BY <1>1, <1>2, <2>1, AppendProperties
<1>6. /\ f \in Frame /\ f.call \in Nat \ {0} /\ f.data \in Message /\ f.i \in Nat
      /\ f.chunked \in BOOLEAN
  BY <1>4 DEF FrameOK, Frame
<1>7. /\ Len(delivered) = Done(fs, R) /\ f.call = Done(fs, R) + 1 /\ f.i = Part(fs, R)
      /\ f.i # 0 => f.data = fs[R].data /\ f.id = fs[R].id
      /\ Part(fs, R) = 0 => DOMAIN chunks = {}
      /\ Part(fs, R) # 0 => /\ DOMAIN chunks = {fs[R].id}
                            /\ chunks[fs[R].id] = [asm |-> AsmAt(fs[R].data, Part(fs, R)), created |-> 0]
  BY <1>2, <1>4 DEF Delivery, Received, Follows
<1>8. PICK D \in Nat : D = Len(delivered)
  BY Lengths
<1>9. f.call = D + 1
  BY <1>7, <1>8
<1>10. R + 1 # 0 /\ Done(fs, R + 1) = (IF IsLast(f) THEN D + 1 ELSE D)
       /\ Part(fs, R + 1) = (IF IsLast(f) THEN 0 ELSE f.i + 1)
  <2>1. R + 1 # 0
    OBVIOUS
  <2>2. f.call - 1 = D
    BY <1>9
  <2> QED
    BY <1>3, <1>9, <2>1, <2>2 DEF Done, Part
<1>11. D < Len(sent) /\ sent[D + 1] = f.data
  BY <1>4, <1>9, Lengths
<1>12. ASSUME NEW msg, Deliver(msg), msg = f.data
       PROVE  Len(delivered') = D + 1 /\ delivered' = Append(delivered, sent[Len(delivered) + 1])
  <2>1. PICK T : RingOf(T)
    BY DEF IInv, Ring
  <2>2. delivered \in Seq(T \cup {msg}) /\ msg \in T \cup {msg}
    BY <2>1, SeqMonotonic DEF RingOf
  <2>3. delivered' = Append(delivered, msg)
    BY <1>12 DEF Deliver
  <2> QED
    BY <1>8, <1>11, <1>12, <2>2, <2>3, AppendProperties
<1>13. CASE ~f.chunked
  <2>1. Pt(f) = f.data /\ f.data \in Plain /\ f.i = 0 /\ IsLast(f)
    BY <1>4, <1>13 DEF Pt, FrameOK, IsLast
  <2>2. ~is_chunk_frame(link[2].pt)
    BY <1>4, <2>1 DEF Faithful
  <2>3. Deliver(link[2].pt) /\ UNCHANGED chunks
    BY <2>2 DEF RecvMsg
  <2>4. PICK msg : msg = link[2].pt
    OBVIOUS
  <2>5. Len(delivered') = D + 1 /\ delivered' = Append(delivered, sent[Len(delivered) + 1])
    <3>1. Deliver(msg) /\ msg = f.data
      BY <1>4, <2>1, <2>3, <2>4
    <3> QED
      BY <1>12, <3>1
  <2>6. DOMAIN chunks' = {}
    BY <1>7, <2>1, <2>3
  <2>7. Received(fs)'
    BY <1>1, <1>5, <1>10, <2>1, <2>5, <2>6 DEF Received, Reading
  <2> QED
    BY <1>8, <1>11, <2>5, <2>7
<1>14. CASE f.chunked
  <2>1. PICK d \in Message \ {<<>>} : d = f.data
    BY <1>4, <1>14 DEF FrameOK, Frame
  <2>2. PICK i \in Nat : i = f.i
    BY <1>6
  <2>3. PICK id : id = f.id
    OBVIOUS
  <2>4. i < Total(d) /\ (IsLast(f) <=> i + 1 = Total(d))
    BY <1>4, <1>14, <2>1, <2>2 DEF FrameOK, IsLast
  <2>5. PICK pt : pt = link[2].pt
    OBVIOUS
  <2>6. /\ is_chunk_frame(pt) /\ Tail(pt) = Piece(d, i) /\ Head(pt).transfer_id = id
        /\ Head(pt).index = i /\ Head(pt).total = Total(d)
    BY <1>4, <1>14, <2>1, <2>2, <2>3, <2>5, ChunkFrame
  <2>7. /\ chunks' = ingest(chunks, id, i, Total(d), Piece(d, i), 0)
        /\ IF ingest_completes(chunks, id, i, Total(d), Piece(d, i), 0)
           THEN Deliver(ingest_payload(chunks, id, i, Total(d), Piece(d, i), 0))
           ELSE UNCHANGED <<received_msgs_, delivered>>
    BY <2>5, <2>6 DEF RecvMsg
  <2>8. emplace(chunks, id, Total(d), 0) = Only(id, d, i)
    <3>1. CASE i = 0
      <4>1. DOMAIN chunks = {}
        BY <1>7, <2>2, <3>1
      <4>2. emplace(chunks, id, Total(d), 0) = [x \in {id} |-> entry(Total(d), 0)]
        BY <4>1 DEF emplace
      <4>3. PICK n \in Nat : n = Total(d)
        BY TotalIs
      <4>4. [j \in 0 .. n - 1 |-> NoData] = [j \in 0 .. n - 1 |-> IF j < 0 THEN Piece(d, j) ELSE NoData]
        <5>1. \A j \in 0 .. n - 1 : ~(j < 0)
          OBVIOUS
        <5> QED
          BY <5>1
      <4>5. chunk_reassembler(n) = AsmAt(d, 0)
        BY <4>3, <4>4 DEF chunk_reassembler, AsmAt
      <4>6. entry(n, 0) = [asm |-> AsmAt(d, 0), created |-> 0]
        BY <4>5 DEF entry
      <4> QED
        BY <3>1, <4>2, <4>3, <4>6 DEF Only
    <3>2. CASE i # 0
      <4>1. DOMAIN chunks = {id} /\ chunks[id] = [asm |-> AsmAt(d, i), created |-> 0]
        BY <1>7, <2>1, <2>2, <2>3, <3>2
      <4> QED
        BY <4>1 DEF emplace, Only
    <3> QED
      BY <3>1, <3>2
  <2>9. /\ ingest_completes(chunks, id, i, Total(d), Piece(d, i), 0) <=> i + 1 = Total(d)
        /\ i + 1 = Total(d) =>
              /\ ingest_payload(chunks, id, i, Total(d), Piece(d, i), 0) = d
              /\ DOMAIN ingest(chunks, id, i, Total(d), Piece(d, i), 0) = {}
        /\ i + 1 # Total(d) =>
              ingest(chunks, id, i, Total(d), Piece(d, i), 0) = Only(id, d, i + 1)
    <3>1. PICK map : map = chunks
      OBVIOUS
    <3>2. emplace(map, id, Total(d), 0) = Only(id, d, i)
      BY <2>8, <3>1
    <3> QED
      BY <2>4, <3>1, <3>2, IngestAt
  <2>10. CASE i + 1 = Total(d)
    <3>1. Deliver(d) /\ DOMAIN chunks' = {}
      BY <2>7, <2>9, <2>10
    <3>2. Len(delivered') = D + 1 /\ delivered' = Append(delivered, sent[Len(delivered) + 1])
      BY <1>12, <2>1, <3>1
    <3>3. Received(fs)'
      BY <1>1, <1>5, <1>10, <2>4, <2>10, <3>1, <3>2 DEF Received, Reading
    <3> QED
      BY <1>8, <1>11, <3>2, <3>3
  <2>11. CASE i + 1 # Total(d)
    <3>1. UNCHANGED delivered /\ chunks' = Only(id, d, i + 1)
      BY <2>7, <2>9, <2>11
    <3>2. DOMAIN chunks' = {id} /\ chunks'[id] = [asm |-> AsmAt(d, i + 1), created |-> 0]
      BY <3>1 DEF Only
    <3>3. Done(fs, R + 1) = D /\ Part(fs, R + 1) = i + 1 /\ i + 1 # 0
      BY <1>10, <2>2, <2>4, <2>11
    <3>4. Received(fs)'
      BY <1>1, <1>3, <1>5, <1>8, <2>1, <2>3, <3>1, <3>2, <3>3 DEF Received, Reading
    <3> QED
      BY <3>1, <3>4
  <2> QED
    BY <2>10, <2>11
<1> QED
  BY <1>6, <1>13, <1>14

-----------------------------------------------------------------------------
(* recv_loop handles a frame.                                              *)
LEMMA RecvMsgDelivery ==
    ASSUME Faithful, IInv, NEW fs, Delivery(fs), RecvMsg
    PROVE  Delivery(fs)'
<1>1. /\ rpc = "loop" /\ Len(link) >= 2 /\ rcvd' = Append(rcvd, link[2].nonce)
      /\ link' = SubSeq(link, 3, Len(link)) /\ UNCHANGED <<up, rpc>> /\ UNCHANGED sender
  BY DEF RecvMsg
<1>2. UNCHANGED <<send_mu, th, send_ctr_, sent, outcome>> /\ Pending' = Pending /\ Reading
  BY <1>1, SenderSame DEF IInv, sender, Reading
<1>3. Len(rcvd') = Len(rcvd) + 1
  <2>1. rcvd \in Seq(Nat) /\ link[2].nonce \in Nat
    BY <1>1, <1>2, FirstBody, Lengths DEF IInv, Stream
  <2> QED
    BY <1>1, <2>1, AppendProperties
<1>4. Carries(fs)' /\ Reach' = Reach /\ Reach \in Nat
  BY <1>1, <1>2, <1>3, CarriesRead, Lengths
<1>5. Log(fs)' /\ fs \in Seq(Frame)
  BY <1>1, <1>2, LogSame DEF Delivery, Log
<1>6. Sending(fs)'
  BY <1>1, <1>2, <1>4, <1>5, SendingSame DEF Delivery
<1>7. Received(fs)'
  BY RecvFrame
<1>8. Unreached(fs)'
  BY <1>1, <1>2, <1>4, <1>5, UnreachedSame DEF Delivery
<1> QED
  BY <1>4, <1>5, <1>6, <1>7, <1>8 DEF Delivery

(* The stream is shortened, and the receiver reads it no longer or reads   *)
(* what is left of it; nothing is delivered.                               *)
LEMMA ShortensDelivery ==
    ASSUME IInv, NEW fs, Delivery(fs), UNCHANGED sender,
           UNCHANGED <<rcvd, delivered, chunks>>, up' => up, Len(link') \in Nat,
           Len(link') <= Len(link),
           Reading' => Reading /\ \A j \in 1 .. Len(link') : link'[j] = link[j],
           ~Reading' /\ up' => DOMAIN chunks = {}
    PROVE  Delivery(fs)'
<1>1. UNCHANGED <<send_mu, th, send_ctr_, sent, outcome>> /\ Pending' = Pending
  BY SenderSame DEF IInv, sender
<1>2. Log(fs)' /\ fs \in Seq(Frame)
  BY <1>1, LogSame DEF Delivery, Log
<1>3. PICK R \in Nat : R = Len(rcvd)
  BY Lengths
<1>4. Reach = 2 * R + Len(link) /\ Reach' = 2 * R + Len(link') /\ Len(link) \in Nat
  BY <1>3, Lengths DEF Reach
<1>5. Reach \in Nat /\ Reach' \in Nat /\ Reach' <= Reach
  BY <1>4
<1>6. Sending(fs)'
  BY <1>1, <1>2, <1>5, SendingSame DEF Delivery
<1>7. Received(fs)'
  BY ReceivedSame DEF Delivery
<1>8. Unreached(fs)'
  BY <1>1, <1>2, <1>5, UnreachedSame DEF Delivery
<1>9. Carries(fs)'
  <2>1. up' => Reach' + Pending' <= 2 * send_ctr_'
    <3>1. up' => Reach + Pending <= 2 * send_ctr_
      BY DEF Delivery, Carries
    <3> QED
      BY <1>1, <1>5, <3>1, Lengths
  <2>2. ASSUME Reading', NEW m \in Nat \ {0}
        PROVE  /\ 2 * m - 1 \in 1 .. Len(link') =>
                     /\ R + m <= Len(fs)
                     /\ link'[2 * m - 1] = [part |-> "len", of |-> Len(Pt(fs[R + m]))]
               /\ 2 * m \in 1 .. Len(link') =>
                     link'[2 * m] = [part |-> "body", nonce |-> R + m - 1, pt |-> Pt(fs[R + m])]
    <3>1. /\ 2 * m - 1 \in 1 .. Len(link) =>
                /\ R + m <= Len(fs)
                /\ link[2 * m - 1] = [part |-> "len", of |-> Len(Pt(fs[R + m]))]
          /\ 2 * m \in 1 .. Len(link) =>
                link[2 * m] = [part |-> "body", nonce |-> R + m - 1, pt |-> Pt(fs[R + m])]
      BY <1>3, <2>2 DEF Delivery, Carries
    <3>2. \A j \in 1 .. Len(link') : j \in 1 .. Len(link) /\ link'[j] = link[j]
      BY <1>4, <2>2
    <3> QED
      BY <3>1, <3>2
  <2>3. Len(rcvd) <= Len(fs)
    BY DEF Delivery, Carries
  <2> QED
    BY <1>3, <2>1, <2>2, <2>3 DEF Carries
<1> QED
  BY <1>2, <1>6, <1>7, <1>8, <1>9 DEF Delivery

(* A whole frame is refused only when it is an empty text: then no         *)
(* transfer is open.                                                       *)
LEMMA RefusedIsEmpty ==
    ASSUME Faithful, IInv, NEW fs, Delivery(fs), RecvRefused
    PROVE  DOMAIN chunks = {}
<1>1. rpc = "loop" /\ Len(link) >= 2 /\ ~RecvOk /\ Reading
  BY DEF RecvRefused, Reading
<1>2. PICK f : f = fs[Len(rcvd) + 1]
  OBVIOUS
<1>3. WellFramed /\ link[2].pt = Pt(f) /\ FrameOK(f) /\ Follows(fs, Len(rcvd), f)
  BY <1>1, <1>2, FirstFrame
<1>4. Pt(f) = <<>>
  BY <1>1, <1>3 DEF RecvOk
<1>5. ~f.chunked
  BY <1>3, <1>4, ChunkFrame
<1>6. f.i = 0
  BY <1>3, <1>5 DEF FrameOK
<1>7. Part(fs, Len(rcvd)) = 0
  BY <1>3, <1>6 DEF Follows
<1> QED
  BY <1>7 DEF Delivery, Received

(* recv_loop starts or ends, or an owner of the peer_conn comes or goes.   *)
LEMMA LoopDelivery ==
    ASSUME Faithful, IInv, NEW fs, Delivery(fs),
           StartLoop \/ RecvRefused \/ RecvEof \/ RemovePeer \/ Hold \/ Release
    PROVE  Delivery(fs)'
<1>1. UNCHANGED sender /\ UNCHANGED <<rcvd, delivered, chunks>> /\ (up' => up)
  BY DEF StartLoop, RecvRefused, RecvEof, RemovePeer, Hold, Release, Close
<1>2. Len(link) \in Nat
  BY Lengths
<1>3. CASE StartLoop
  BY <1>1, <1>2, <1>3, ShortensDelivery DEF StartLoop, Reading
<1>4. CASE RecvRefused
  <2>1. /\ Len(link) >= 2 /\ link' = SubSeq(link, 3, Len(link)) /\ ~Reading'
    BY <1>4 DEF RecvRefused, Reading
  <2>2. Len(link') = Len(link) - 2
    BY <2>1, FrameRead DEF IInv
  <2>3. Len(link') \in Nat /\ Len(link') <= Len(link)
    BY <1>2, <2>1, <2>2
  <2> QED
    BY <1>1, <1>4, <2>1, <2>3, ShortensDelivery, RefusedIsEmpty
<1>5. CASE RecvEof
  BY <1>1, <1>2, <1>5, ShortensDelivery DEF RecvEof, Reading
<1>6. CASE RemovePeer \/ Hold \/ Release
  <2>1. CASE link' = <<>> /\ ~Reading' /\ ~up'
    <3>1. Len(<<>>) = 0
      OBVIOUS
    <3> QED
      BY <1>1, <1>2, <2>1, <3>1, ShortensDelivery
  <2>2. CASE UNCHANGED <<link, up>> /\ Reading' = Reading
    <3>1. ~Reading /\ up => DOMAIN chunks = {}
      BY DEF Delivery, Received
    <3> QED
      BY <1>1, <1>2, <2>2, <3>1, ShortensDelivery
  <2> QED
    BY <1>6, <2>1, <2>2 DEF RemovePeer, Hold, Release, Close, Reading
<1> QED
  BY <1>3, <1>4, <1>5, <1>6

(* ctl_recv empties the ring, or nothing happens.                          *)
LEMMA QuietDelivery ==
    ASSUME IInv, NEW fs, Delivery(fs), CtlRecv \/ UNCHANGED vars
    PROVE  Delivery(fs)'
<1>1. UNCHANGED sender /\ UNCHANGED <<rcvd, delivered, chunks, link, up, rpc>>
  BY DEF CtlRecv, vars, receiver
<1>2. ~Reading /\ up => DOMAIN chunks = {}
  BY DEF Delivery, Received
<1>3. Len(link) \in Nat
  BY Lengths
<1> QED
  BY <1>1, <1>2, <1>3, ShortensDelivery DEF Reading

(* The network loses the connection.                                       *)
LEMMA BreakDelivery ==
    ASSUME IInv, NEW fs, Delivery(fs), Break
    PROVE  Delivery(fs)'
<1>1. PICK k \in 0 .. Len(link) : link' = SubSeq(link, 1, k)
  BY DEF Break
<1>2. ~up' /\ UNCHANGED sender /\ UNCHANGED <<rcvd, delivered, chunks, rpc>>
  BY DEF Break, receiver
<1>3. link \in Seq(Item) /\ Len(link) \in Nat /\ \A j \in 1 .. k : link[j] \in Item
  BY ElementOfSeq, LenProperties DEF IInv, Stream
<1>4. Len(link') = k /\ \A j \in 1 .. k : link'[j] = link[j]
  BY <1>1, <1>3, SubSeqProperties
<1>5. Len(link') \in Nat /\ Len(link') <= Len(link)
  BY <1>1, <1>3, <1>4
<1>6. Reading' = Reading
  BY <1>2 DEF Reading
<1> QED
  BY <1>2, <1>4, <1>5, <1>6, ShortensDelivery

-----------------------------------------------------------------------------
(* Every step keeps the invariant of the second part.                      *)
LEMMA StepIInv2 == Faithful /\ IInv2 /\ [Next]_vars => IInv2'
<1> SUFFICES ASSUME Faithful, IInv2, [Next]_vars PROVE IInv2'
  OBVIOUS
<1>1. IInv /\ IInv'
  BY StepIInv DEF IInv2
<1>2. PICK fs : Delivery(fs)
  BY DEF IInv2
<1>3. \E gs : Delivery(gs)'
  <2>1. ASSUME NEW t \in Thread, NEW text \in Texts, SendText(t, text) PROVE \E gs : Delivery(gs)'
    BY <1>1, <1>2, <2>1, CallDelivery DEF SendText
  <2>2. ASSUME NEW t \in Thread, NEW data \in Files, SendFile(t, data) PROVE \E gs : Delivery(gs)'
    BY <1>1, <1>2, <2>2, CallDelivery DEF SendFile
  <2>3. ASSUME NEW t \in Thread, SenderStep(t) PROVE \E gs : Delivery(gs)'
    <3>1. CASE \E id \in (IF th[t].chunked THEN TransferId ELSE {NoData}) : Lock(t, id)
      BY <1>1, <1>2, <3>1, LockDelivery
    <3>2. CASE Seal(t)
      BY <1>1, <1>2, <3>2, SealDelivery
    <3>3. CASE SendLen(t)
      BY <1>1, <1>2, <3>3, SendLenDelivery
    <3>4. CASE SendBody(t)
      BY <1>1, <1>2, <3>4, SendBodyDelivery
    <3>5. CASE SendFails(t) \/ ChunksDone(t)
      BY <1>1, <1>2, <3>5, ReturnDelivery
    <3> QED
      BY <2>3, <3>1, <3>2, <3>3, <3>4, <3>5 DEF SenderStep
  <2>4. CASE ReceiverStep
    BY <1>1, <1>2, <2>4, RecvMsgDelivery, LoopDelivery DEF ReceiverStep
  <2>5. CASE CtlRecv \/ UNCHANGED vars
    BY <1>1, <1>2, <2>5, QuietDelivery
  <2>6. CASE Break
    BY <1>1, <1>2, <2>6, BreakDelivery
  <2>7. CASE Hold \/ Release
    BY <1>1, <1>2, <2>7, LoopDelivery
  <2> QED
    BY <2>1, <2>2, <2>3, <2>4, <2>5, <2>6, <2>7 DEF Next
<1> QED
  BY <1>1, <1>3 DEF IInv2

(* With no lookalike text and no message of too many chunks, the frames on *)
(* the stream and what the receiver has made of them follow what was sent. *)
THEOREM DeliveryInvariant == Faithful => (Spec => []IInv2)
<1> SUFFICES ASSUME Faithful PROVE Spec => []IInv2
  OBVIOUS
<1>1. Init => IInv2
  BY InitDelivery
<1>2. IInv2 /\ [Next]_vars => IInv2'
  BY StepIInv2
<1> QED
  BY <1>1, <1>2, PTL DEF Spec

(* A message reported as failed ("ERR send failed") is not delivered, now  *)
(* or later: sending it again cannot duplicate it.                         *)
THEOREM FailedIsNotDelivered == Faithful => (Spec => []FailedNeverDelivered)
<1> SUFFICES ASSUME Faithful PROVE Spec => []FailedNeverDelivered
  OBVIOUS
<1>1. ASSUME IInv2 PROVE FailedNeverDelivered
  <2>1. PICK fs : Delivery(fs)
    BY <1>1 DEF IInv2
  <2>2. ASSUME NEW o \in outcome, ~o.ok PROVE Len(delivered) < o.call
    <3>1. /\ o.call \in Nat \ {0}
          /\ \A m \in 1 .. Len(fs) : 2 * m <= Reach => fs[m].call < o.call
      BY <2>1, <2>2 DEF Delivery, Unreached
    <3>2. PICK R \in Nat : R = Len(rcvd)
      BY <1>1, Lengths DEF IInv2
    <3>3. Len(fs) \in Nat /\ R <= Len(fs) /\ Len(delivered) = Done(fs, R) /\ fs \in Seq(Frame)
      BY <2>1, <3>2, LenProperties DEF Delivery, Log, Carries, Received
    <3>4. CASE R = 0
      BY <3>1, <3>3, <3>4 DEF Done
    <3>5. CASE R # 0
      <4>1. R \in 1 .. Len(fs) /\ Len(link) \in Nat /\ Reach = 2 * R + Len(link)
        BY <1>1, <3>2, <3>3, <3>5, Lengths DEF Reach, IInv2
      <4>2. 2 * R <= Reach
        BY <4>1
      <4>3. fs[R].call < o.call
        BY <3>1, <4>1, <4>2
      <4>4. fs[R].call \in Nat \ {0}
        BY <2>1, <4>1 DEF Delivery, Log, FrameOK, Frame
      <4>5. Done(fs, R) <= fs[R].call
        BY <3>5, <4>4 DEF Done
      <4>6. Done(fs, R) \in Nat
        BY <3>5, <4>4 DEF Done
      <4> QED
        BY <3>1, <3>3, <4>3, <4>4, <4>5, <4>6
    <3> QED
      BY <3>4, <3>5
  <2> QED
    BY <2>2 DEF FailedNeverDelivered
<1>2. Spec => []IInv2
  BY DeliveryInvariant
<1> QED
  BY <1>1, <1>2, PTL

(* A transfer stays open only while it is being sent, or once its          *)
(* connection is lost: nobody needs to call prune.                         *)
THEOREM NoTransferIsLeft == Faithful => (Spec => []NoLeftoverTransfers)
<1> SUFFICES ASSUME Faithful PROVE Spec => []NoLeftoverTransfers
  OBVIOUS
<1>1. ASSUME IInv2 PROVE NoLeftoverTransfers
  <2> SUFFICES ASSUME up, link = <<>>, send_mu = NoThread PROVE DOMAIN chunks = {}
    BY DEF NoLeftoverTransfers
  <2>1. PICK fs : Delivery(fs)
    BY <1>1 DEF IInv2
  <2>2. CASE ~Reading
    BY <2>1, <2>2 DEF Delivery, Received
  <2>3. CASE Reading
    <3>1. 2 * Len(rcvd) + Len(link) + Pending = 2 * send_ctr_ /\ send_ctr_ = Len(fs)
      BY <1>1, <2>1, <2>3 DEF IInv2, IInv, Stream, Delivery, Log
    <3>2. Len(link) = 0 /\ Pending = 0 /\ Len(rcvd) \in Nat /\ send_ctr_ \in Nat
      BY <1>1, Lengths DEF Pending, IInv2
    <3>3. Len(rcvd) = Len(fs)
      BY <3>1, <3>2
    <3>4. Part(fs, Len(fs)) = 0
      BY <2>1 DEF Delivery, Sending
    <3> QED
      BY <2>1, <3>3, <3>4 DEF Delivery, Received
  <2> QED
    BY <2>2, <2>3
<1>2. Spec => []IInv2
  BY DeliveryInvariant
<1> QED
  BY <1>1, <1>2, PTL

(* The connection implements MessageChannel: whatever threads send at once *)
(* and wherever the stream is cut, recv_loop delivers whole messages, each *)
(* once, in the order in which send_mu was taken.                          *)
THEOREM LinkIsChannel == Faithful => (Spec => ImplementsChannel)
<1> SUFFICES ASSUME Faithful PROVE Spec => Channel!Spec
  BY DEF ImplementsChannel
<1>1. Init => Channel!Init
  BY DEF Init, Channel!Init
<1>2. ASSUME IInv2, [Next]_vars PROVE [Channel!Next]_<<sent, delivered>>
  <2>1. PICK fs : Delivery(fs)
    BY <1>2 DEF IInv2
  <2>2. IInv
    BY <1>2 DEF IInv2
  <2>3. ASSUME NEW t \in Thread, NEW id \in (IF th[t].chunked THEN TransferId ELSE {NoData}), Lock(t, id)
        PROVE  [Channel!Next]_<<sent, delivered>>
    <3>1. th[t].data \in Message /\ sent' = Append(sent, th[t].data)
      BY <2>2, <2>3, LockKeeps
    <3>2. UNCHANGED delivered
      BY <2>3 DEF Lock, receiver
    <3> QED
      BY <3>1, <3>2 DEF Channel!Next, Channel!Submit, Message
  <2>4. CASE RecvMsg
    <3>1. UNCHANGED sent
      BY <2>4 DEF RecvMsg, sender
    <3>2. \/ UNCHANGED delivered
          \/ /\ Len(delivered) < Len(sent)
             /\ delivered' = Append(delivered, sent[Len(delivered) + 1])
      BY <2>1, <2>2, <2>4, RecvFrame
    <3> QED
      BY <3>1, <3>2 DEF Channel!Next, Channel!Deliver
  <2>5. CASE \/ \E t \in Thread : \/ \E text \in Texts : SendText(t, text)
                                  \/ \E data \in Files : SendFile(t, data)
                                  \/ Seal(t) \/ SendLen(t) \/ SendBody(t)
                                  \/ SendFails(t) \/ ChunksDone(t)
             \/ StartLoop \/ RecvRefused \/ RecvEof \/ RemovePeer
             \/ Hold \/ Release \/ CtlRecv \/ Break
             \/ UNCHANGED vars
    BY <2>5 DEF SendText, SendFile, Call, Seal, SendLen, SendBody, SendFails, ChunksDone,
                StartLoop, RecvRefused, RecvEof, RemovePeer, Hold, Release, CtlRecv, Break, vars, sender, receiver
  <2> QED
    BY <1>2, <2>3, <2>4, <2>5 DEF Next, SenderStep, ReceiverStep
<1>3. Spec => []IInv2
  BY DeliveryInvariant
<1> QED
  BY <1>1, <1>2, <1>3, PTL DEF Spec, Channel!Spec
=============================================================================
