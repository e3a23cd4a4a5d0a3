------------------------------ MODULE PeerLink ------------------------------
(***************************************************************************)
(* One direction of an established peer connection: the threads of a node  *)
(* that send through a peer_conn (node/node.hpp), the session and the TCP  *)
(* connection under it (session/session.cpp, net/tcp.cpp), and the thread  *)
(* of the other node that runs setup_peer and recv_loop (node/node.cpp).   *)
(*                                                                         *)
(* send_mu        which thread holds peer_conn::send_mu                    *)
(* th             the sender threads, one step per blocking point          *)
(* send_ctr_      session::send_ctr_                                       *)
(* link, up       the TCP byte stream, and whether the connection is alive *)
(* rpc, chunks    the receiving thread and its transfer_registry           *)
(* held           whether a thread of the receiving node that sends the    *)
(*                other way owns the receiver's peer_conn                  *)
(* received_msgs_ the receiving node's message ring                        *)
(*                                                                         *)
(* A frame is two items on the stream, its length prefix and its body, as  *)
(* send_frame writes them.  A body carries its nonce and its plaintext:    *)
(* AEAD is taken as perfect, so that a frame read as it was written opens  *)
(* to its plaintext, and a frame put together from parts of two does not.  *)
(* sent, delivered, rcvd, outcome and drained are history.                 *)
(***************************************************************************)
EXTENDS Chunker

CONSTANTS
    Thread, NoThread,
    Texts,               \* texts of SEND, BROADCAST and of the interactive loop
    Files,               \* contents of the files of SENDFILE
    CHUNK_PAYLOAD_SIZE,  \* in cells; 8192 bytes in the build
    RING,                \* capacity of received_msgs_, 200 in the build
    MayBreak,            \* whether the network may lose the connection
    LinkCap,             \* bound: items that the socket buffers hold
    MaxCalls             \* bound: messages handed to the connection

ASSUME PeerLinkAssumption ==
    /\ CHUNK_PAYLOAD_SIZE \in Nat \ {0}
    /\ RING \in Nat \ {0} /\ LinkCap \in Nat \ {0, 1} /\ MaxCalls \in Nat
    /\ NoThread \notin Thread
    /\ <<>> \notin Files
    /\ \A d \in Texts \cup Files : d \in Seq(ToSet(d))

VARIABLES
    send_mu, th, send_ctr_, link, up, rpc, held, chunks, received_msgs_,
    sent, delivered, rcvd, outcome, drained

sender   == <<send_mu, th, send_ctr_, sent, outcome>>
receiver == <<rpc, held, chunks, received_msgs_, delivered, rcvd, drained>>
vars     == <<sender, link, up, receiver>>

-----------------------------------------------------------------------------
(* send_chunked                                                            *)

CeilDiv(n, d) == (n + d - 1) \div d

(* The number of chunks that hold all the data.                            *)
Needed(data) == CeilDiv(Len(data), CHUNK_PAYLOAD_SIZE)

(* total of send_chunked, cast to uint16_t.                                *)
Total(data) == Needed(data) % UINT16

(* The i-th piece of the data, the last one possibly shorter.              *)
Piece(data, i) ==
    LET offset == i * CHUNK_PAYLOAD_SIZE
        rest   == Len(data) - offset
    IN  SubSeq(data, offset + 1,
               offset + (IF rest < CHUNK_PAYLOAD_SIZE THEN rest ELSE CHUNK_PAYLOAD_SIZE))

-----------------------------------------------------------------------------
IdleThread == [pc |-> "idle", data |-> <<>>, chunked |-> FALSE, id |-> NoData,
               i |-> 0, nonce |-> 0, call |-> 0]

Init ==
    /\ send_mu = NoThread
    /\ th = [t \in Thread |-> IdleThread]
    /\ send_ctr_ = 0
    /\ link = <<>> /\ up = TRUE
    /\ rpc = "setup" /\ held = FALSE
    /\ chunks = [x \in {} |-> NoData] /\ received_msgs_ = <<>>
    /\ sent = <<>> /\ delivered = <<>> /\ rcvd = <<>> /\ outcome = {} /\ drained = 0

Calls == Len(sent) + Cardinality({t \in Thread : th[t].pc = "lock"})

(* A thread hands data to send_msg or, chunked, to send_chunked_msg and    *)
(* waits for send_mu.                                                      *)
Call(t, data, chunked) ==
    /\ th[t].pc = "idle"
    /\ Calls < MaxCalls
    /\ th' = [th EXCEPT ![t] = [IdleThread EXCEPT !.pc = "lock", !.data = data,
                                                  !.chunked = chunked]]
    /\ UNCHANGED <<send_mu, send_ctr_, sent, outcome, link, up, receiver>>

(* ctl_send, ctl_broadcast and broadcast: chunked when too long.           *)
SendText(t, text) == Call(t, text, Len(text) > CHUNK_PAYLOAD_SIZE)

(* ctl_send_file: always chunked, and never empty.                         *)
SendFile(t, data) == Call(t, data, TRUE)

(* Faulty variant: the mutex is not waited for.                            *)
Lock_Unguarded(t, id) ==
    /\ th[t].pc = "lock"
    /\ send_mu' = t
    /\ sent' = Append(sent, th[t].data)
    /\ th' = [th EXCEPT ![t].pc = "seal", ![t].id = id, ![t].call = Len(sent) + 1]
    /\ UNCHANGED <<send_ctr_, outcome, link, up, receiver>>

(* The lock_guard of send_msg and send_chunked_msg; send_chunked draws its *)
(* transfer_id.                                                            *)
Lock(t, id) ==
    /\ th[t].pc = "lock"
    /\ send_mu = NoThread
    /\ send_mu' = t
    /\ sent' = Append(sent, th[t].data)
    /\ th' = [th EXCEPT ![t].pc = "seal", ![t].id = id, ![t].call = Len(sent) + 1]
    /\ UNCHANGED <<send_ctr_, outcome, link, up, receiver>>

(* The plaintext that a thread is about to send.                           *)
Plaintext(t) ==
    IF th[t].chunked
    THEN make_chunk_frame(th[t].id, th[t].i, Total(th[t].data), Piece(th[t].data, th[t].i))
    ELSE th[t].data

MoreToSend(t) == th[t].chunked => th[t].i < Total(th[t].data)

(* session::send up to the seal: the nonce is taken and counted at once,   *)
(* whether or not the frame will be sent.                                  *)
Seal(t) ==
    /\ th[t].pc = "seal"
    /\ MoreToSend(t)
    /\ th' = [th EXCEPT ![t].pc = "len", ![t].nonce = send_ctr_]
    /\ send_ctr_' = send_ctr_ + 1
    /\ UNCHANGED <<send_mu, sent, outcome, link, up, receiver>>

(* send_all succeeds: the item is in the socket buffer of a live           *)
(* connection, or swallowed by one that is lost and not yet known to be.   *)
Put(item) ==
    \/ up /\ Len(link) < LinkCap /\ link' = Append(link, item)
    \/ ~up /\ UNCHANGED link

(* The thread returns from peer_conn, releasing send_mu, n frames sent.    *)
Return(t, ok, n) ==
    /\ th' = [th EXCEPT ![t] = IdleThread]
    /\ send_mu' = NoThread
    /\ outcome' = outcome \cup {[call |-> th[t].call, chunked |-> th[t].chunked,
                                 ok |-> ok, frames |-> n]}

(* send_frame writes the length prefix ...                                 *)
SendLen(t) ==
    /\ th[t].pc = "len"
    /\ Put([part |-> "len", of |-> Len(Plaintext(t))])
    /\ th' = [th EXCEPT ![t].pc = "body"]
    /\ UNCHANGED <<send_mu, send_ctr_, sent, outcome, up, receiver>>

(* ... and the body; send_msg is then done, send_chunked goes on.          *)
SendBody(t) ==
    /\ th[t].pc = "body"
    /\ Put([part |-> "body", nonce |-> th[t].nonce, pt |-> Plaintext(t)])
    /\ IF th[t].chunked
       THEN /\ th' = [th EXCEPT ![t].pc = "seal", ![t].i = th[t].i + 1]
            /\ UNCHANGED <<send_mu, outcome>>
       ELSE Return(t, TRUE, 1)
    /\ UNCHANGED <<send_ctr_, sent, up, receiver>>

(* send_all fails on a lost connection: send_msg returns false, and        *)
(* send_chunked_msg whether any earlier chunk was sent.                    *)
SendFails(t) ==
    /\ th[t].pc \in {"len", "body"}
    /\ ~up
    /\ Return(t, th[t].i > 0, th[t].i)
    /\ UNCHANGED <<send_ctr_, sent, link, up, receiver>>

(* Faulty variant: a transfer of one chunk is reported as failed.          *)
ChunksDone_OneIsNone(t) ==
    /\ th[t].pc = "seal"
    /\ ~MoreToSend(t)
    /\ Return(t, Total(th[t].data) > 1, Total(th[t].data))
    /\ UNCHANGED <<send_ctr_, sent, link, up, receiver>>

(* send_chunked has sent all of total.                                     *)
ChunksDone(t) ==
    /\ th[t].pc = "seal"
    /\ ~MoreToSend(t)
    /\ Return(t, Total(th[t].data) > 0, Total(th[t].data))
    /\ UNCHANGED <<send_ctr_, sent, link, up, receiver>>

-----------------------------------------------------------------------------
(* The receiving node.                                                     *)

(* setup_peer after the handshake: the listen port is looked up, the peer  *)
(* added, and recv_loop entered.                                           *)
StartLoop ==
    /\ rpc = "setup"
    /\ rpc' = "loop"
    /\ UNCHANGED <<sender, link, up, held, chunks, received_msgs_, delivered, rcvd, drained>>

(* A frame read as it was written.                                         *)
WellFramed == /\ link[1].part = "len" /\ link[2].part = "body"
              /\ link[1].of = Len(link[2].pt)

(* session::recv returns a plaintext: an empty one is not told from a      *)
(* failed authentication.                                                  *)
RecvOk == WellFramed /\ link[2].pt # <<>>

(* Faulty variant: the ring is never full.                                 *)
Pushed_Unbounded(ring, msg) == Append(ring, msg)

(* Faulty variant: a full ring is cleared.                                 *)
Pushed_Clears(ring, msg) == Append(IF Len(ring) >= RING THEN <<>> ELSE ring, msg)

(* The push into received_msgs_, the oldest message making room.           *)
Pushed(ring, msg) == Append(IF Len(ring) >= RING THEN Tail(ring) ELSE ring, msg)

Deliver(msg) ==
    /\ received_msgs_' = Pushed(received_msgs_, msg)
    /\ delivered' = Append(delivered, msg)

(* One round of recv_loop on a plaintext: a chunk is ingested and may      *)
(* complete a transfer; anything else is delivered.                        *)
RecvMsg ==
    /\ rpc = "loop" /\ Len(link) >= 2
    /\ RecvOk
    /\ LET pt == link[2].pt
           ci == Head(pt)
           Arg(Op(_, _, _, _, _, _)) == Op(chunks, ci.transfer_id, ci.index, ci.total, Tail(pt), 0)
       IN  IF is_chunk_frame(pt)
           THEN /\ chunks' = Arg(ingest)
                /\ IF Arg(ingest_completes)
                   THEN Deliver(Arg(ingest_payload))
                   ELSE UNCHANGED <<received_msgs_, delivered>>
           ELSE Deliver(pt) /\ UNCHANGED chunks
    /\ rcvd' = Append(rcvd, link[2].nonce)
    /\ link' = SubSeq(link, 3, Len(link))
    /\ UNCHANGED <<sender, up, rpc, held, drained>>

(* recv_msg returns nothing: recv_loop ends.                               *)
RecvRefused ==
    /\ rpc = "loop" /\ Len(link) >= 2
    /\ ~RecvOk
    /\ rpc' = "leaving"
    /\ link' = SubSeq(link, 3, Len(link))
    /\ UNCHANGED <<sender, up, held, chunks, received_msgs_, delivered, rcvd, drained>>

(* recv_frame fails at the end of a lost connection's stream.              *)
RecvEof ==
    /\ rpc = "loop" /\ Len(link) < 2
    /\ ~up
    /\ rpc' = "leaving"
    /\ UNCHANGED <<sender, link, up, held, chunks, received_msgs_, delivered, rcvd, drained>>

(* Faulty variant: the socket stays open when the peer is removed.         *)
RemovePeer_KeepsSocket ==
    /\ rpc = "leaving"
    /\ rpc' = "gone"
    /\ UNCHANGED <<sender, link, up, held, chunks, received_msgs_, delivered, rcvd, drained>>

(* The receiving node drops its last shared_ptr to the peer_conn, and      *)
(* tcp_connection's destructor closes the socket.                          *)
Close == up' = FALSE /\ link' = <<>>

(* remove_peer and the end of setup_peer: the socket is closed unless a    *)
(* sender still owns the peer_conn.                                        *)
RemovePeer ==
    /\ rpc = "leaving"
    /\ rpc' = "gone"
    /\ IF held THEN UNCHANGED <<up, link>> ELSE Close
    /\ UNCHANGED <<sender, held, chunks, received_msgs_, delivered, rcvd, drained>>

(* A thread of the receiving node that is to send over the connection      *)
(* copies its shared_ptr out of peers_ ...                                 *)
Hold ==
    /\ rpc \in {"loop", "leaving"} /\ ~held
    /\ held' = TRUE
    /\ UNCHANGED <<sender, link, up, rpc, chunks, received_msgs_, delivered, rcvd, drained>>

(* ... and drops it when its send has returned, as the last owner if       *)
(* setup_peer has ended meanwhile.                                         *)
Release ==
    /\ held
    /\ held' = FALSE
    /\ IF rpc = "gone" THEN Close ELSE UNCHANGED <<up, link>>
    /\ UNCHANGED <<sender, rpc, chunks, received_msgs_, delivered, rcvd, drained>>

(* ctl_recv takes and clears the ring.                                     *)
CtlRecv ==
    /\ received_msgs_ # <<>>
    /\ received_msgs_' = <<>>
    /\ drained' = Len(delivered)
    /\ UNCHANGED <<sender, link, up, rpc, held, chunks, delivered, rcvd>>

-----------------------------------------------------------------------------
(* The network loses the connection; the stream is cut anywhere.           *)
Break ==
    /\ MayBreak /\ up
    /\ up' = FALSE
    /\ \E k \in 0..Len(link) : link' = SubSeq(link, 1, k)
    /\ UNCHANGED <<sender, receiver>>

SenderStep(t) ==
    \/ \E id \in (IF th[t].chunked THEN TransferId ELSE {NoData}) : Lock(t, id)
    \/ Seal(t) \/ SendLen(t) \/ SendBody(t) \/ SendFails(t) \/ ChunksDone(t)

ReceiverStep == StartLoop \/ RecvMsg \/ RecvRefused \/ RecvEof \/ RemovePeer

Next ==
    \/ \E t \in Thread :
          \/ \E text \in Texts : SendText(t, text)
          \/ \E data \in Files : SendFile(t, data)
          \/ SenderStep(t)
    \/ ReceiverStep
    \/ Hold \/ Release
    \/ CtlRecv
    \/ Break

Spec == Init /\ [][Next]_vars

(* Threads that can run do run: a sender that is not blocked goes on, and  *)
(* so does the receiving thread.  Nothing is assumed of callers, of        *)
(* ctl_recv or of the network, and nothing of Release: a send the other    *)
(* way may block for as long as the sending node does not read.            *)
FairSpec ==
    /\ Spec
    /\ \A t \in Thread : WF_vars(SenderStep(t))
    /\ WF_vars(ReceiverStep)

-----------------------------------------------------------------------------
(* The state of the connection has the shape the code's types give it.     *)
TypeOK ==
    /\ send_mu \in Thread \cup {NoThread}
    /\ \A t \in Thread :
          /\ th[t].pc \in {"idle", "lock", "seal", "len", "body"}
          /\ th[t].data \in Texts \cup Files \cup {<<>>}
          /\ th[t].chunked => th[t].i \in 0..Total(th[t].data)
    /\ send_ctr_ \in Nat
    /\ Len(link) <= LinkCap
    /\ up \in BOOLEAN
    /\ rpc \in {"setup", "loop", "leaving", "gone"}
    /\ held \in BOOLEAN
    /\ DOMAIN chunks \subseteq TransferId
    /\ Len(received_msgs_) <= RING

(* session::recv never looks at the order of the nonces it is given.  It   *)
(* need not: because send_mu is held from send_ctr_++ to the last byte of  *)
(* the frame, the receiver reads every nonce once and in order, however    *)
(* many threads send.                                                      *)
NoncesInOrder == \A k \in DOMAIN rcvd : rcvd[k] = k - 1

Channel == INSTANCE MessageChannel WITH Message <- Texts \cup Files

(* The connection implements MessageChannel: whatever threads send at once *)
(* and wherever the stream is cut, recv_loop delivers whole messages, each *)
(* once, in the order in which send_mu was taken.                          *)
ImplementsChannel == Channel!Spec

(* A message for which send_msg or send_chunked_msg returned false (the    *)
(* user is told "ERR send failed") is not delivered, now or later: sending *)
(* it again cannot duplicate it.                                           *)
FailedNeverDelivered ==
    \A o \in outcome : ~o.ok => Len(delivered) < o.call

(* peer_conn::chunks holds no half-received transfer while nothing is      *)
(* being sent over a live connection: a transfer stays open only until its *)
(* connection is lost, which is why nobody needs to call prune.            *)
NoLeftoverTransfers ==
    up /\ link = <<>> /\ send_mu = NoThread => DOMAIN chunks = {}

(* received_msgs_ holds the messages delivered since the last ctl_recv, or *)
(* the latest 200 of them.                                                 *)
RingKeepsLatest ==
    LET new  == SubSeq(delivered, drained + 1, Len(delivered))
        drop == IF Len(new) > RING THEN Len(new) - RING ELSE 0
    IN  received_msgs_ = SubSeq(new, drop + 1, Len(new))

(* session::recv refuses a whole frame only because "authentication        *)
(* failed" (session/session.cpp): a frame that arrived as it was written   *)
(* never ends recv_loop.                                                   *)
RefusedOnlyIfForged ==
    [][rpc = "loop" /\ rpc' = "leaving" /\ Len(link) >= 2 => ~WellFramed]_vars

(* "Returns true when all chunks were sent successfully"                   *)
(* (send_chunked_msg, node/node.hpp).                                      *)
ChunkedOkMeansAllSent ==
    \A o \in outcome : o.chunked /\ o.ok => o.frames = Needed(sent[o.call])

(* "Regular (non-chunked) message - deliver as-is"                         *)
(* (tests/integration/node_comms_test.cpp): what is delivered is what was  *)
(* sent, in order.                                                         *)
DeliveredAsSent == IsPrefix(delivered, sent)

(* setup_peer has ended, but the socket is still open and nobody reads it: *)
(* a thread of the receiving node is in a send the other way.              *)
Orphaned == rpc = "gone" /\ held /\ up

(* A message that has been handed over is delivered, or the connection is  *)
(* lost, or the receiving node left its recv_loop with one of its own      *)
(* threads in a send over the same connection that never returns.  That    *)
(* last case is real: the socket is closed by the last owner of the        *)
(* peer_conn only.                                                         *)
EventuallyDelivered ==
    \A n \in 1..MaxCalls :
        Len(sent) >= n ~> Len(delivered) >= n \/ ~up \/ []Orphaned

(* No caller waits for ever on send_mu or on a full socket buffer, also    *)
(* when the receiver leaves without reading, except when a send the other  *)
(* way never returns either: then neither node reads, neither closes its   *)
(* socket, and each waits for the other.                                   *)
CallsReturn ==
    \A t \in Thread :
        th[t].pc # "idle" ~> th[t].pc = "idle" \/ []Orphaned

=============================================================================
