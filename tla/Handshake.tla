----------------------------- MODULE Handshake -----------------------------
(***************************************************************************)
(* The mutually authenticated key exchange that opens every peer           *)
(* connection: handshake_as_initiator and handshake_as_responder           *)
(* (session/session.cpp), called by setup_peer at the two ends of one TCP  *)
(* connection.                                                             *)
(*                                                                         *)
(* Cryptography is symbolic.  A key pair is one name: sign(sk, m) verifies *)
(* under pk exactly when pk = sk.  A Diffie-Hellman secret is the set of   *)
(* the two ephemeral keys.  A node claims the identity pk and signs with   *)
(* sk; the two differ in the repository's test of a mismatched identity.   *)
(* Either end may be a stranger instead: some other program that accepts   *)
(* or opens TCP connections, writes other frames, and hangs up.            *)
(*                                                                         *)
(* Each end moves in steps between its blocking points.  chan[e] is the    *)
(* stream towards end e; open[e] is whether e still has its socket; cut    *)
(* tells that the network has lost the connection.                         *)
(***************************************************************************)
EXTENDS Naturals, Sequences

CONSTANTS
    Key,              \* identity key pairs
    ephI, ephR,       \* the ephemeral keys that the two ends draw
    ephZero,          \* an X25519 point with which every exchange fails
    NoVal,            \* an empty std::optional
    MaxStrange        \* bound: frames that a stranger writes

(* What a session is made of: the identity of the peer and two keys.       *)
Session == LET keys == {0, 1} \X {{ephI, ephR}}
           IN  [peer : Key, k_send : keys, k_recv : keys]

ASSUME HandshakeAssumption ==
    /\ Key # {} /\ NoVal \notin Key \cup Session
    /\ ephI # ephR /\ ephZero \notin {ephI, ephR}
    /\ MaxStrange \in Nat

VARIABLES pk, sk, kind, pc, peerMsg, sess, chan, open, cut, strange

conn == <<chan, open, cut>>
vars == <<pk, sk, kind, pc, peerMsg, sess, conn, strange>>

End == {"I", "R"}
Other(e) == IF e = "I" THEN "R" ELSE "I"
eph(e) == IF e = "I" THEN ephI ELSE ephR

-----------------------------------------------------------------------------
(* Messages (protocol/wire.cpp).                                           *)

build_hs_init(e_pk)              == [type |-> "hs_init", eph_pk |-> e_pk]
build_hs_resp(e_pk, id_pk, sig)  == [type |-> "hs_resp", eph_pk |-> e_pk,
                                     identity_pk |-> id_pk, sig |-> sig]
build_hs_finish(id_pk, sig)      == [type |-> "hs_finish", identity_pk |-> id_pk, sig |-> sig]
build_ok                         == [type |-> "ok"]

(* Frames of a stranger: one that no step expects, one whose key is        *)
(* refused by the exchange, and one that looks like an acknowledgement.    *)
StrangerFrames == {[type |-> "other"], build_hs_init(ephZero), build_ok}

(* make_signed_data, sign_t::sign and sign_t::verify.                      *)
make_signed_data(init_eph, resp_eph) == <<init_eph, resp_eph>>
sign(key, data) == [by |-> key, over |-> data]
verify(key, data, sig) == sig = sign(key, data)

(* kex_t::exchange: fails on a point of low order.                         *)
exchange_ok(other_pk) == other_pk # ephZero
exchange(mine, other_pk) == {mine, other_pk}

(* Faulty variant: both directions use the same key.                       *)
derive_keys_SameKey(shared) == [i2r |-> <<0, shared>>, r2i |-> <<0, shared>>]

(* derive_keys: one key per direction.                                     *)
derive_keys(shared) == [i2r |-> <<0, shared>>, r2i |-> <<1, shared>>]

-----------------------------------------------------------------------------
Init ==
    /\ pk \in [End -> Key]
    /\ sk \in [End -> Key]
    /\ kind \in [End -> {"node", "stranger"}]
    /\ \E e \in End : kind[e] = "node"
    /\ pc = [e \in End |-> IF kind[e] = "stranger" THEN "stranger"
                           ELSE IF e = "I" THEN "send_init" ELSE "recv_init"]
    /\ peerMsg = [e \in End |-> NoVal]
    /\ sess = [e \in End |-> NoVal]
    /\ chan = [e \in End |-> <<>>]
    /\ open = [e \in End |-> TRUE]
    /\ cut = FALSE
    /\ strange = 0

(* Whether the connection can still carry anything towards end e.          *)
Alive(e) == ~cut /\ open[e]

(* conn.send_frame succeeds: the frame is on its way, or was written to a  *)
(* connection that is already lost.                                        *)
Put(e, frame) ==
    /\ chan' = IF Alive(Other(e)) THEN [chan EXCEPT ![Other(e)] = Append(@, frame)] ELSE chan
    /\ UNCHANGED <<open, cut>>

(* conn.recv_frame returns a frame.                                        *)
Take(e) ==
    /\ chan[e] # <<>>
    /\ chan' = [chan EXCEPT ![e] = Tail(@)]

Go(e, to) == pc' = [pc EXCEPT ![e] = to]

(* Faulty variant: a failed handshake keeps its socket.                    *)
Fail_KeepsSocket(e) ==
    /\ Go(e, "failed")
    /\ UNCHANGED <<open, peerMsg, sess>>

(* The handshake returns nothing: setup_peer returns and closes conn.      *)
Fail(e) ==
    /\ Go(e, "failed")
    /\ open' = [open EXCEPT ![e] = FALSE]
    /\ UNCHANGED <<peerMsg, sess>>

Sending == {"send_init", "send_resp", "send_finish", "send_ok"}
Receiving == {"recv_init", "recv_resp", "recv_finish", "recv_ok"}

(* send_frame reports an error on a connection that is lost.               *)
SendFails(e) ==
    /\ pc[e] \in Sending
    /\ ~Alive(Other(e))
    /\ Fail(e)
    /\ UNCHANGED <<pk, sk, kind, chan, cut, strange>>

(* recv_frame meets the end of the stream.                                 *)
RecvFails(e) ==
    /\ pc[e] \in Receiving
    /\ chan[e] = <<>>
    /\ cut \/ ~open[Other(e)]
    /\ Fail(e)
    /\ UNCHANGED <<pk, sk, kind, chan, cut, strange>>

-----------------------------------------------------------------------------
(* handshake_as_initiator                                                  *)

(* The data both ends sign, as the initiator knows it from an HS_RESP.     *)
SignedByI(resp) == make_signed_data(ephI, resp.eph_pk)

SendInit ==
    /\ pc["I"] = "send_init"
    /\ Put("I", build_hs_init(ephI))
    /\ Go("I", "recv_resp")
    /\ UNCHANGED <<peerMsg, sess>> /\ UNCHANGED <<pk, sk, kind, strange>>

(* Faulty variant: the responder's signature is not verified.              *)
AcceptsResp_NoVerify(m) == m.type = "hs_resp" /\ exchange_ok(m.eph_pk)

(* An HS_RESP is parsed, its signature verified and its key exchanged.     *)
AcceptsResp(m) ==
    /\ m.type = "hs_resp"
    /\ verify(m.identity_pk, SignedByI(m), m.sig)
    /\ exchange_ok(m.eph_pk)

RecvResp ==
    /\ pc["I"] = "recv_resp"
    /\ Take("I") /\ UNCHANGED cut
    /\ LET m == Head(chan["I"])
       IN  \/ /\ AcceptsResp(m)
              /\ peerMsg' = [peerMsg EXCEPT !["I"] = m]
              /\ Go("I", "send_finish")
              /\ UNCHANGED <<sess, open>>
           \/ ~AcceptsResp(m) /\ Fail("I")
    /\ UNCHANGED <<pk, sk, kind, strange>>

(* Faulty variant: the acknowledgement is not waited for.                  *)
SendFinish_NoWait ==
    /\ pc["I"] = "send_finish"
    /\ Put("I", build_hs_finish(pk["I"], sign(sk["I"], SignedByI(peerMsg["I"]))))
    /\ LET k == derive_keys(exchange(ephI, peerMsg["I"].eph_pk))
       IN  sess' = [sess EXCEPT !["I"] = [peer |-> peerMsg["I"].identity_pk,
                                          k_send |-> k.i2r, k_recv |-> k.r2i]]
    /\ Go("I", "session")
    /\ UNCHANGED peerMsg /\ UNCHANGED <<pk, sk, kind, strange>>

SendFinish ==
    /\ pc["I"] = "send_finish"
    /\ Put("I", build_hs_finish(pk["I"], sign(sk["I"], SignedByI(peerMsg["I"]))))
    /\ Go("I", "recv_ok")
    /\ UNCHANGED <<peerMsg, sess>> /\ UNCHANGED <<pk, sk, kind, strange>>

RecvOk ==
    /\ pc["I"] = "recv_ok"
    /\ Take("I") /\ UNCHANGED cut
    /\ \/ /\ Head(chan["I"]).type = "ok"
          /\ LET k == derive_keys(exchange(ephI, peerMsg["I"].eph_pk))
             IN  sess' = [sess EXCEPT !["I"] = [peer |-> peerMsg["I"].identity_pk,
                                                k_send |-> k.i2r, k_recv |-> k.r2i]]
          /\ Go("I", "session")
          /\ UNCHANGED <<peerMsg, open>>
       \/ Head(chan["I"]).type # "ok" /\ Fail("I")
    /\ UNCHANGED <<pk, sk, kind, strange>>

-----------------------------------------------------------------------------
(* handshake_as_responder                                                  *)

SignedByR == make_signed_data(peerMsg["R"].eph_pk, ephR)

RecvInit ==
    /\ pc["R"] = "recv_init"
    /\ Take("R") /\ UNCHANGED cut
    /\ LET m == Head(chan["R"])
           accepted == m.type = "hs_init" /\ exchange_ok(m.eph_pk)
       IN  \/ /\ accepted
              /\ peerMsg' = [peerMsg EXCEPT !["R"] = m]
              /\ Go("R", "send_resp")
              /\ UNCHANGED <<sess, open>>
           \/ ~accepted /\ Fail("R")
    /\ UNCHANGED <<pk, sk, kind, strange>>

SendResp ==
    /\ pc["R"] = "send_resp"
    /\ Put("R", build_hs_resp(ephR, pk["R"], sign(sk["R"], SignedByR)))
    /\ Go("R", "recv_finish")
    /\ UNCHANGED <<peerMsg, sess>> /\ UNCHANGED <<pk, sk, kind, strange>>

(* Faulty variant: the initiator's signature is not verified.              *)
AcceptsFinish_NoVerify(m) == m.type = "hs_finish"

(* An HS_FINISH is parsed and its signature verified.                      *)
AcceptsFinish(m) ==
    /\ m.type = "hs_finish"
    /\ verify(m.identity_pk, SignedByR, m.sig)

RecvFinish ==
    /\ pc["R"] = "recv_finish"
    /\ Take("R") /\ UNCHANGED cut
    /\ LET m == Head(chan["R"])
       IN  \/ /\ AcceptsFinish(m)
              /\ peerMsg' = [peerMsg EXCEPT !["R"] =
                               [eph_pk |-> peerMsg["R"].eph_pk, identity_pk |-> m.identity_pk]]
              /\ Go("R", "send_ok")
              /\ UNCHANGED <<sess, open>>
           \/ ~AcceptsFinish(m) /\ Fail("R")
    /\ UNCHANGED <<pk, sk, kind, strange>>

(* Faulty variant: the session is built without acknowledging.             *)
SendOk_Silent ==
    /\ pc["R"] = "send_ok"
    /\ UNCHANGED conn
    /\ LET k == derive_keys(exchange(ephR, peerMsg["R"].eph_pk))
       IN  sess' = [sess EXCEPT !["R"] = [peer |-> peerMsg["R"].identity_pk,
                                          k_send |-> k.r2i, k_recv |-> k.i2r]]
    /\ Go("R", "session")
    /\ UNCHANGED peerMsg /\ UNCHANGED <<pk, sk, kind, strange>>

SendOk ==
    /\ pc["R"] = "send_ok"
    /\ Put("R", build_ok)
    /\ LET k == derive_keys(exchange(ephR, peerMsg["R"].eph_pk))
       IN  sess' = [sess EXCEPT !["R"] = [peer |-> peerMsg["R"].identity_pk,
                                          k_send |-> k.r2i, k_recv |-> k.i2r]]
    /\ Go("R", "session")
    /\ UNCHANGED peerMsg /\ UNCHANGED <<pk, sk, kind, strange>>

-----------------------------------------------------------------------------
(* A stranger writes a frame, or hangs up.                                 *)
StrangerWrites(e) ==
    /\ pc[e] = "stranger" /\ open[e]
    /\ strange < MaxStrange
    /\ strange' = strange + 1
    /\ \E f \in StrangerFrames : Put(e, f)
    /\ UNCHANGED <<pk, sk, kind, pc, peerMsg, sess>>

StrangerCloses(e) ==
    /\ pc[e] = "stranger" /\ open[e]
    /\ open' = [open EXCEPT ![e] = FALSE]
    /\ UNCHANGED <<pk, sk, kind, pc, peerMsg, sess, chan, cut, strange>>

(* The network loses the connection, and the tail of each stream with it.  *)
Cut ==
    /\ ~cut
    /\ cut' = TRUE
    /\ \E i \in 0..Len(chan["I"]), r \in 0..Len(chan["R"]) :
          chan' = [chan EXCEPT !["I"] = SubSeq(@, 1, i), !["R"] = SubSeq(@, 1, r)]
    /\ UNCHANGED <<pk, sk, kind, pc, peerMsg, sess, open, strange>>

IStep == SendInit \/ RecvResp \/ SendFinish \/ RecvOk \/ SendFails("I") \/ RecvFails("I")
RStep == RecvInit \/ SendResp \/ RecvFinish \/ SendOk \/ SendFails("R") \/ RecvFails("R")

Next ==
    \/ IStep \/ RStep
    \/ \E e \in End : StrangerWrites(e) \/ StrangerCloses(e)
    \/ Cut

Spec == Init /\ [][Next]_vars

(* Each node's thread runs as long as it is not blocked in recv.           *)
FairSpec == Spec /\ WF_vars(IStep) /\ WF_vars(RStep)

-----------------------------------------------------------------------------
Nodes == \A e \in End : kind[e] = "node"

(* A session exists exactly at an end that has finished, and an end that   *)
(* has given up has closed its socket.                                     *)
TypeOK ==
    /\ pc \in [End -> Sending \cup Receiving \cup {"session", "failed", "stranger"}]
    /\ \A e \in End :
          /\ sess[e] # NoVal <=> pc[e] = "session"
          /\ pc[e] = "failed" => ~open[e]
          /\ pc[e] \notin {"failed", "stranger"} => open[e]

(* When both ends have built a session they agree on it: each knows the    *)
(* other's claimed identity, what one encrypts with the other decrypts     *)
(* with, and the two directions use different keys.                        *)
Agreement ==
    sess["I"] # NoVal /\ sess["R"] # NoVal =>
        \A e \in End :
            /\ sess[e].peer = pk[Other(e)]
            /\ sess[e].k_send = sess[Other(e)].k_recv
            /\ sess[e].k_send # sess[e].k_recv

(* A node that builds a session has heard from a node that holds the       *)
(* private key of the identity it claims, never from a stranger, whichever *)
(* identities the two ends claim.  Strangers have no signature to replay,  *)
(* and nobody sits between the ends and passes frames on.                  *)
NoForgedIdentity ==
    \A e \in End : sess[e] # NoVal =>
        kind[Other(e)] = "node" /\ sess[e].peer = sk[Other(e)]

(* The initiator builds its session last, so it never has one that the     *)
(* responder refused: "Initiator does not get a session from forged        *)
(* handshake" (tests/integration/integration_test.cpp).                    *)
InitiatorLast ==
    sess["I"] # NoVal => sess["R"] # NoVal /\ sk["I"] = pk["I"]

(* Between two nodes the handshake always ends at both ends, because       *)
(* closing the socket tells the other end: no OK, no error message.        *)
BothEnd == Nodes => <>[](\A e \in End : pc[e] \in {"session", "failed"})

(* Between two nodes that sign with the identities they claim, it ends in  *)
(* two sessions unless the connection is lost.                             *)
HonestSucceed ==
    Nodes /\ pk = sk => <>(cut \/ \A e \in End : pc[e] = "session")

=============================================================================
