-------------------------- MODULE HandshakeProofs --------------------------
(***************************************************************************)
(* Proofs about Handshake: whatever identities, strangers and losses, the  *)
(* two ends agree, no identity is forged and the initiator is the last to  *)
(* have a session.                                                         *)
(***************************************************************************)
EXTENDS Handshake, SequenceTheorems, TLAPS

(* What can be on its way to the responder: what a stranger writes, or     *)
(* HS_INIT and then HS_FINISH.                                             *)
FromI ==
    IF kind["I"] = "stranger" THEN StrangerFrames
    ELSE {build_hs_init(ephI)}
         \cup (IF pc["I"] \in {"recv_ok", "session", "failed"}
               THEN {build_hs_finish(pk["I"], sign(sk["I"], SignedByI(peerMsg["I"])))} ELSE {})

(* What can be on its way to the initiator: what a stranger writes, or     *)
(* HS_RESP and then, from a responder that has its session, OK.            *)
FromR ==
    IF kind["R"] = "stranger" THEN StrangerFrames
    ELSE (IF pc["R"] \in {"recv_finish", "send_ok", "session", "failed"}
          THEN {build_hs_resp(ephR, pk["R"], sign(sk["R"], SignedByR))} ELSE {})
         \cup (IF pc["R"] = "session" THEN {build_ok} ELSE {})

PCs == Sending \cup Receiving \cup {"session", "failed", "stranger"}

(* The variables have the right shape, and an end that has given up has    *)
(* closed its socket.                                                      *)
Shape ==
    /\ pk \in [End -> Key] /\ sk \in [End -> Key]
    /\ kind \in [End -> {"node", "stranger"}]
    /\ pc \in [End -> PCs]
    /\ open \in [End -> BOOLEAN]
    /\ DOMAIN peerMsg = End /\ DOMAIN sess = End /\ DOMAIN chan = End
    /\ \A e \in End : kind[e] = "stranger" <=> pc[e] = "stranger"
    /\ pc["I"] \notin {"recv_init", "send_resp", "recv_finish", "send_ok"}
    /\ pc["R"] \notin {"send_init", "recv_resp", "send_finish", "recv_ok"}
    /\ \A e \in End :
          /\ pc[e] = "failed" => ~open[e]
          /\ pc[e] \notin {"failed", "stranger"} => open[e]

(* The streams carry what the ends can have written.                       *)
Streams == chan["R"] \in Seq(FromI) /\ chan["I"] \in Seq(FromR)

(* What the initiator knows once it has accepted an HS_RESP.               *)
KnownToI ==
    pc["I"] \in {"send_finish", "recv_ok", "session"} =>
       /\ kind["R"] = "node" /\ pk["R"] = sk["R"]
       /\ peerMsg["I"].eph_pk = ephR /\ peerMsg["I"].identity_pk = pk["R"]

(* What the responder knows once it has accepted HS_INIT, and HS_FINISH.   *)
KnownToR ==
    /\ pc["R"] \in {"send_resp", "recv_finish", "send_ok", "session"} /\ kind["I"] = "node" =>
          peerMsg["R"].eph_pk = ephI
    /\ pc["R"] \in {"send_ok", "session"} =>
          /\ kind["I"] = "node" /\ pk["I"] = sk["I"]
          /\ peerMsg["R"].identity_pk = pk["I"]

Shared == derive_keys({ephI, ephR})

(* Exactly the ends that have finished have a session, the right one, and  *)
(* the initiator only if the responder has.                                *)
Sessions ==
    /\ sess["I"] = IF pc["I"] = "session"
                   THEN [peer |-> pk["R"], k_send |-> Shared.i2r, k_recv |-> Shared.r2i]
                   ELSE NoVal
    /\ sess["R"] = IF pc["R"] = "session"
                   THEN [peer |-> pk["I"], k_send |-> Shared.r2i, k_recv |-> Shared.i2r]
                   ELSE NoVal
    /\ pc["I"] = "session" => pc["R"] = "session"

(* The inductive invariant.                                                *)
IInv == Shape /\ Streams /\ KnownToI /\ KnownToR /\ Sessions

-----------------------------------------------------------------------------
(* A session of the program is not an empty optional.                      *)
LEMMA SessionIsValue ==
    ASSUME Shape
    PROVE  /\ [peer |-> pk["R"], k_send |-> Shared.i2r, k_recv |-> Shared.r2i] # NoVal
           /\ [peer |-> pk["I"], k_send |-> Shared.r2i, k_recv |-> Shared.i2r] # NoVal
<1>1. pk["I"] \in Key /\ pk["R"] \in Key
  BY DEF Shape, End
<1>2. Shared.i2r \in {0, 1} \X {{ephI, ephR}} /\ Shared.r2i \in {0, 1} \X {{ephI, ephR}}
  BY DEF Shared, derive_keys
<1> QED
  BY <1>1, <1>2, HandshakeAssumption DEF Session

(* The initial states satisfy the invariant.                               *)
LEMMA InitIInv == Init => IInv
<1> SUFFICES ASSUME Init PROVE IInv
  OBVIOUS
<1>1. Shape
  BY DEF Init, Shape, End, PCs, Sending, Receiving
<1>2. chan["R"] = <<>> /\ chan["I"] = <<>>
  BY DEF Init, End
<1>3. Streams
  BY <1>2, EmptySeq DEF Streams
<1>4. pc["I"] \in {"send_init", "stranger"} /\ pc["R"] \in {"recv_init", "stranger"}
  BY DEF Init, End
<1>5. KnownToI /\ KnownToR
  BY <1>4 DEF KnownToI, KnownToR
<1>6. Sessions
  BY <1>4 DEF Init, Sessions, End
<1> QED
  BY <1>1, <1>3, <1>5, <1>6 DEF IInv

-----------------------------------------------------------------------------
(* What a send does to the streams: the other end's stream grows by the    *)
(* frame or stays, and the own one stays.                                  *)
LEMMA PutFacts ==
    ASSUME NEW e \in End, NEW f, NEW S, f \in S, DOMAIN chan = End, Put(e, f),
           chan[Other(e)] \in Seq(S)
    PROVE  /\ chan'[Other(e)] \in Seq(S) /\ chan'[e] = chan[e]
           /\ DOMAIN chan' = End /\ open' = open
<1>1. Other(e) \in End /\ Other(e) # e
  BY DEF End, Other
<1>2. Append(chan[Other(e)], f) \in Seq(S)
  BY AppendProperties
<1> QED
  BY <1>1, <1>2 DEF Put

(* What a receive does to the streams: the head of the own one is a frame  *)
(* it may carry, and what is left may still be carried.                    *)
LEMMA TakeFacts ==
    ASSUME NEW e \in End, NEW S, DOMAIN chan = End, Take(e), chan[e] \in Seq(S)
    PROVE  /\ Head(chan[e]) \in S /\ chan'[e] \in Seq(S)
           /\ chan'[Other(e)] = chan[Other(e)] /\ DOMAIN chan' = End
<1>1. Other(e) \in End /\ Other(e) # e
  BY DEF End, Other
<1>2. Head(chan[e]) \in S /\ Tail(chan[e]) \in Seq(S)
  BY HeadTailProperties DEF Take
<1> QED
  BY <1>1, <1>2 DEF Take

(* An end that fails can have written no less than before.                 *)
LEMMA FailFacts ==
    ASSUME NEW e \in End, Shape, Fail(e), UNCHANGED <<pk, sk, kind>>,
           pc[e] \notin {"session", "failed", "stranger"}
    PROVE  /\ FromI \subseteq FromI' /\ FromR \subseteq FromR'
           /\ pc' \in [End -> PCs] /\ pc'[e] = "failed" /\ pc'[Other(e)] = pc[Other(e)]
           /\ open' \in [End -> BOOLEAN] /\ ~open'[e] /\ open'[Other(e)] = open[Other(e)]
           /\ UNCHANGED <<peerMsg, sess>>
<1>1. Other(e) \in End /\ Other(e) # e
  BY DEF End, Other
<1>2. /\ pc' \in [End -> PCs] /\ pc'[e] = "failed" /\ pc'[Other(e)] = pc[Other(e)]
      /\ open' \in [End -> BOOLEAN] /\ ~open'[e] /\ open'[Other(e)] = open[Other(e)]
      /\ UNCHANGED <<peerMsg, sess>>
  BY <1>1 DEF Fail, Go, Shape, PCs
<1>3. CASE e = "I"
  <2>1. pc'["R"] = pc["R"]
    BY <1>2, <1>3 DEF Other
  <2>2. FromR' = FromR
    BY <2>1, <1>2 DEF FromR, SignedByR
  <2>3. FromI \subseteq FromI'
    BY <1>2, <1>3 DEF FromI
  <2> QED
    BY <1>2, <2>2, <2>3
<1>4. CASE e = "R"
  <2>1. pc'["I"] = pc["I"]
    BY <1>2, <1>4 DEF Other
  <2>2. FromI' = FromI
    BY <2>1, <1>2 DEF FromI
  <2>3. FromR \subseteq FromR'
    BY <1>2, <1>4 DEF FromR, SignedByR
  <2> QED
    BY <1>2, <2>2, <2>3
<1> QED
  BY <1>3, <1>4 DEF End

(* A failing end keeps the invariant, provided the streams carry no more   *)
(* than before.                                                            *)
LEMMA FailKeeps ==
    ASSUME NEW e \in End, IInv, Fail(e), UNCHANGED <<pk, sk, kind>>,
           pc[e] \notin {"session", "failed", "stranger"},
           DOMAIN chan' = End, chan'["R"] \in Seq(FromI), chan'["I"] \in Seq(FromR)
    PROVE  IInv'
<1>1. Shape
  BY DEF IInv
<1>2. /\ FromI \subseteq FromI' /\ FromR \subseteq FromR'
      /\ pc' \in [End -> PCs] /\ pc'[e] = "failed" /\ pc'[Other(e)] = pc[Other(e)]
      /\ open' \in [End -> BOOLEAN] /\ ~open'[e] /\ open'[Other(e)] = open[Other(e)]
      /\ UNCHANGED <<peerMsg, sess>>
  BY <1>1, FailFacts
<1>3. Streams'
  BY <1>2, SeqMonotonic DEF Streams
<1>4. Shape'
  BY <1>1, <1>2 DEF Shape, End, Other
<1>5. pc["I"] = "session" => pc["R"] = "session"
  BY DEF IInv, Sessions
<1>6. KnownToI' /\ KnownToR'
  BY <1>2 DEF IInv, KnownToI, KnownToR, End, Other
<1>7. Sessions'
  BY <1>2, <1>5 DEF IInv, Sessions, End, Other, Shared
<1> QED
  BY <1>3, <1>4, <1>6, <1>7 DEF IInv

-----------------------------------------------------------------------------
(* The initiator writes HS_INIT.                                           *)
LEMMA SendInitKeeps == IInv /\ SendInit => IInv'
<1> SUFFICES ASSUME IInv, SendInit PROVE IInv'
  OBVIOUS
<1> USE DEF IInv
<1>1. kind["I"] = "node" /\ DOMAIN chan = End /\ "I" \in End
  BY DEF Shape, SendInit, End
<1>2. build_hs_init(ephI) \in FromI
  BY <1>1 DEF FromI
<1>3. chan'["R"] \in Seq(FromI) /\ chan'["I"] = chan["I"] /\ DOMAIN chan' = End /\ open' = open
  BY <1>1, <1>2, PutFacts DEF Streams, SendInit, Other
<1>4. pc' = [pc EXCEPT !["I"] = "recv_resp"] /\ pc["I"] = "send_init"
      /\ UNCHANGED <<peerMsg, sess, pk, sk, kind>>
  BY DEF SendInit, Go
<1>5. pc'["I"] = "recv_resp" /\ pc'["R"] = pc["R"]
  BY <1>4 DEF Shape, End
<1>6. FromI' = FromI /\ FromR' = FromR
  BY <1>4, <1>5 DEF FromI, FromR, SignedByR
<1>7. Streams'
  BY <1>3, <1>6 DEF Streams
<1>8. Shape'
  BY <1>3, <1>4, <1>5 DEF Shape, End, PCs, Receiving
<1>9. KnownToI' /\ KnownToR' /\ Sessions'
  BY <1>4, <1>5 DEF KnownToI, KnownToR, Sessions, Shared
<1> QED
  BY <1>7, <1>8, <1>9

(* An HS_RESP that the initiator accepts was signed by a node that claims  *)
(* the identity it signs with, over both ephemeral keys.                   *)
LEMMA AcceptedResp ==
    ASSUME Shape, NEW m \in FromR, AcceptsResp(m)
    PROVE  /\ kind["R"] = "node" /\ pk["R"] = sk["R"]
           /\ m.eph_pk = ephR /\ m.identity_pk = pk["R"]
<1>1. kind["R"] # "stranger"
  BY DEF FromR, StrangerFrames, build_hs_init, build_ok, AcceptsResp
<1>2. m = build_hs_resp(ephR, pk["R"], sign(sk["R"], SignedByR))
  BY <1>1 DEF FromR, build_ok, AcceptsResp
<1>3. m.eph_pk = ephR /\ m.identity_pk = pk["R"] /\ m.sig = sign(sk["R"], SignedByR)
  BY <1>2 DEF build_hs_resp
<1>4. sign(sk["R"], SignedByR) = sign(pk["R"], SignedByI(m))
  BY <1>3 DEF AcceptsResp, verify
<1>5. sign(sk["R"], SignedByR).by = sk["R"] /\ sign(pk["R"], SignedByI(m)).by = pk["R"]
  BY DEF sign
<1> QED
  BY <1>1, <1>3, <1>4, <1>5 DEF Shape, End

(* The initiator reads what should be an HS_RESP.                          *)
LEMMA RecvRespKeeps == IInv /\ RecvResp => IInv'
<1> SUFFICES ASSUME IInv, RecvResp PROVE IInv'
  OBVIOUS
<1> DEFINE m == Head(chan["I"])
<1>1. Shape /\ DOMAIN chan = End /\ "I" \in End
  BY DEF IInv, Shape, End
<1>2. /\ m \in FromR /\ chan'["I"] \in Seq(FromR)
      /\ chan'["R"] = chan["R"] /\ DOMAIN chan' = End
  BY <1>1, TakeFacts DEF IInv, Streams, RecvResp, Other
<1>3. pc["I"] = "recv_resp" /\ UNCHANGED <<pk, sk, kind>>
  BY DEF RecvResp
<1>4. CASE ~AcceptsResp(m)
  <2>1. Fail("I")
    BY <1>4 DEF RecvResp
  <2> QED
    BY <2>1, <1>1, <1>2, <1>3, FailKeeps DEF IInv, Streams
<1>5. CASE AcceptsResp(m)
  <2>1. /\ peerMsg' = [peerMsg EXCEPT !["I"] = m]
        /\ pc' = [pc EXCEPT !["I"] = "send_finish"]
        /\ UNCHANGED <<sess, open>>
    BY <1>5 DEF RecvResp, Fail, Go
  <2>2. pc'["I"] = "send_finish" /\ pc'["R"] = pc["R"]
        /\ peerMsg'["I"] = m /\ peerMsg'["R"] = peerMsg["R"]
    BY <2>1, <1>1 DEF Shape, End
  <2>3. kind["R"] = "node" /\ pk["R"] = sk["R"] /\ m.eph_pk = ephR /\ m.identity_pk = pk["R"]
    BY <1>1, <1>2, <1>5, AcceptedResp
  <2>4. FromI' = FromI /\ FromR' = FromR
    BY <2>2, <1>3 DEF FromI, FromR, SignedByR
  <2>5. Streams'
    BY <2>4, <1>2 DEF IInv, Streams
  <2>6. Shape'
    BY <1>1, <1>2, <1>3, <2>1, <2>2 DEF Shape, End, PCs, Sending
  <2>7. KnownToI' /\ KnownToR'
    BY <2>2, <2>3, <1>3 DEF IInv, KnownToI, KnownToR
  <2>8. Sessions'
    BY <2>1, <2>2, <1>3 DEF IInv, Sessions, Shared
  <2> QED
    BY <2>5, <2>6, <2>7, <2>8 DEF IInv
<1> QED
  BY <1>4, <1>5

(* The initiator writes HS_FINISH.                                         *)
LEMMA SendFinishKeeps == IInv /\ SendFinish => IInv'
<1> SUFFICES ASSUME IInv, SendFinish PROVE IInv'
  OBVIOUS
<1> DEFINE f == build_hs_finish(pk["I"], sign(sk["I"], SignedByI(peerMsg["I"])))
<1>1. Shape /\ kind["I"] = "node" /\ DOMAIN chan = End /\ "I" \in End
  BY DEF IInv, Shape, SendFinish, End
<1>2. pc' = [pc EXCEPT !["I"] = "recv_ok"] /\ pc["I"] = "send_finish"
      /\ UNCHANGED <<peerMsg, sess, pk, sk, kind>>
  BY DEF SendFinish, Go
<1>3. pc'["I"] = "recv_ok" /\ pc'["R"] = pc["R"]
  BY <1>1, <1>2 DEF Shape, End
<1>4. FromI' = FromI \cup {f} /\ FromR' = FromR
  BY <1>1, <1>2, <1>3 DEF FromI, FromR, SignedByR
<1>5. chan["R"] \in Seq(FromI')
  BY <1>4, SeqMonotonic DEF IInv, Streams
<1>6. f \in FromI'
  BY <1>4
<1>7. chan'["R"] \in Seq(FromI') /\ chan'["I"] = chan["I"] /\ DOMAIN chan' = End /\ open' = open
  BY <1>1, <1>5, <1>6, PutFacts DEF SendFinish, Other
<1>8. Streams'
  BY <1>4, <1>7 DEF IInv, Streams
<1>9. Shape'
  BY <1>1, <1>7, <1>2, <1>3 DEF Shape, End, PCs, Receiving
<1>10. KnownToI' /\ KnownToR' /\ Sessions'
  BY <1>2, <1>3 DEF IInv, KnownToI, KnownToR, Sessions, Shared
<1> QED
  BY <1>8, <1>9, <1>10 DEF IInv

(* The initiator reads what should be the OK; only a responder that has    *)
(* its session writes one.                                                 *)
LEMMA RecvOkKeeps == IInv /\ RecvOk => IInv'
<1> SUFFICES ASSUME IInv, RecvOk PROVE IInv'
  OBVIOUS
<1> DEFINE m == Head(chan["I"])
<1>1. Shape /\ DOMAIN chan = End /\ "I" \in End
  BY DEF IInv, Shape, End
<1>2. /\ m \in FromR /\ chan'["I"] \in Seq(FromR)
      /\ chan'["R"] = chan["R"] /\ DOMAIN chan' = End
  BY <1>1, TakeFacts DEF IInv, Streams, RecvOk, Other
<1>3. pc["I"] = "recv_ok" /\ UNCHANGED <<pk, sk, kind>>
  BY DEF RecvOk
<1>4. CASE m.type # "ok"
  <2>1. Fail("I")
    BY <1>4 DEF RecvOk
  <2> QED
    BY <2>1, <1>1, <1>2, <1>3, FailKeeps DEF IInv, Streams
<1>5. CASE m.type = "ok"
  <2>1. /\ sess' = [sess EXCEPT !["I"] =
                      [peer |-> peerMsg["I"].identity_pk,
                       k_send |-> derive_keys(exchange(ephI, peerMsg["I"].eph_pk)).i2r,
                       k_recv |-> derive_keys(exchange(ephI, peerMsg["I"].eph_pk)).r2i]]
        /\ pc' = [pc EXCEPT !["I"] = "session"]
        /\ UNCHANGED <<peerMsg, open>>
    BY <1>5 DEF RecvOk, Go
  <2>2. pc'["I"] = "session" /\ pc'["R"] = pc["R"]
    BY <2>1, <1>1 DEF Shape, End
  <2>3. kind["R"] = "node" /\ peerMsg["I"].eph_pk = ephR /\ peerMsg["I"].identity_pk = pk["R"]
    BY <1>3 DEF IInv, KnownToI
  <2>4. pc["R"] = "session"
    BY <1>2, <1>5, <2>3 DEF FromR, build_hs_resp
  <2>5. FromI' = FromI /\ FromR' = FromR
    BY <2>1, <2>2, <1>3 DEF FromI, FromR, SignedByR
  <2>6. Streams'
    BY <2>5, <1>2 DEF IInv, Streams
  <2>7. Shape'
    BY <1>1, <1>2, <1>3, <2>1, <2>2 DEF Shape, End, PCs
  <2>8. KnownToI' /\ KnownToR'
    BY <2>1, <2>2, <1>3 DEF IInv, KnownToI, KnownToR
  <2>9. sess'["I"] = [peer |-> pk["R"], k_send |-> Shared.i2r, k_recv |-> Shared.r2i]
        /\ sess'["R"] = sess["R"]
    BY <1>1, <2>1, <2>3 DEF Shared, exchange, Shape, End
  <2>10. Sessions'
    BY <2>1, <2>2, <2>4, <2>9, <1>3 DEF IInv, Sessions, Shared
  <2> QED
    BY <2>6, <2>7, <2>8, <2>10 DEF IInv
<1> QED
  BY <1>4, <1>5

-----------------------------------------------------------------------------
(* The responder reads what should be an HS_INIT.                          *)
LEMMA RecvInitKeeps == IInv /\ RecvInit => IInv'
<1> SUFFICES ASSUME IInv, RecvInit PROVE IInv'
  OBVIOUS
<1> DEFINE m == Head(chan["R"])
           accepted == m.type = "hs_init" /\ exchange_ok(m.eph_pk)
<1>1. Shape /\ DOMAIN chan = End /\ "R" \in End
  BY DEF IInv, Shape, End
<1>2. /\ m \in FromI /\ chan'["R"] \in Seq(FromI)
      /\ chan'["I"] = chan["I"] /\ DOMAIN chan' = End
  BY <1>1, TakeFacts DEF IInv, Streams, RecvInit, Other
<1>3. pc["R"] = "recv_init" /\ UNCHANGED <<pk, sk, kind>>
  BY DEF RecvInit
<1>4. CASE ~accepted
  <2>1. Fail("R")
    BY <1>4 DEF RecvInit
  <2> QED
    BY <2>1, <1>1, <1>2, <1>3, FailKeeps DEF IInv, Streams
<1>5. CASE accepted
  <2>1. /\ peerMsg' = [peerMsg EXCEPT !["R"] = m]
        /\ pc' = [pc EXCEPT !["R"] = "send_resp"]
        /\ UNCHANGED <<sess, open>>
    BY <1>5 DEF RecvInit, Go
  <2>2. pc'["R"] = "send_resp" /\ pc'["I"] = pc["I"]
        /\ peerMsg'["R"] = m /\ peerMsg'["I"] = peerMsg["I"]
    BY <2>1, <1>1 DEF Shape, End
  <2>3. kind["I"] = "node" => m = build_hs_init(ephI)
    BY <1>2, <1>5 DEF FromI, build_hs_finish
  <2>4. kind["I"] = "node" => m.eph_pk = ephI
    BY <2>3 DEF build_hs_init
  <2>5. FromI' = FromI
    BY <2>2, <1>3 DEF FromI
  <2>6. FromR' = FromR
    BY <2>2, <1>3 DEF FromR
  <2>7. Streams'
    BY <2>5, <2>6, <1>2 DEF IInv, Streams
  <2>8. Shape'
    BY <1>1, <1>2, <1>3, <2>1, <2>2 DEF Shape, End, PCs, Sending
  <2>9. KnownToI' /\ KnownToR'
    BY <2>2, <2>4, <1>3 DEF IInv, KnownToI, KnownToR
  <2>10. Sessions'
    BY <2>1, <2>2, <1>3 DEF IInv, Sessions, Shared
  <2> QED
    BY <2>7, <2>8, <2>9, <2>10 DEF IInv
<1> QED
  BY <1>4, <1>5

(* The responder writes HS_RESP.                                           *)
LEMMA SendRespKeeps == IInv /\ SendResp => IInv'
<1> SUFFICES ASSUME IInv, SendResp PROVE IInv'
  OBVIOUS
<1> DEFINE f == build_hs_resp(ephR, pk["R"], sign(sk["R"], SignedByR))
<1>1. Shape /\ kind["R"] = "node" /\ DOMAIN chan = End /\ "R" \in End
  BY DEF IInv, Shape, SendResp, End
<1>2. pc' = [pc EXCEPT !["R"] = "recv_finish"] /\ pc["R"] = "send_resp"
      /\ UNCHANGED <<peerMsg, sess, pk, sk, kind>>
  BY DEF SendResp, Go
<1>3. pc'["R"] = "recv_finish" /\ pc'["I"] = pc["I"]
  BY <1>1, <1>2 DEF Shape, End
<1>4. FromR' = FromR \cup {f} /\ FromI' = FromI
  BY <1>1, <1>2, <1>3 DEF FromI, FromR, SignedByR
<1>5. chan["I"] \in Seq(FromR')
  BY <1>4, SeqMonotonic DEF IInv, Streams
<1>6. f \in FromR'
  BY <1>4
<1>7. chan'["I"] \in Seq(FromR') /\ chan'["R"] = chan["R"] /\ DOMAIN chan' = End /\ open' = open
  BY <1>1, <1>5, <1>6, PutFacts DEF SendResp, Other
<1>8. Streams'
  BY <1>4, <1>7 DEF IInv, Streams
<1>9. Shape'
  BY <1>1, <1>7, <1>2, <1>3 DEF Shape, End, PCs, Receiving
<1>10. KnownToI' /\ KnownToR' /\ Sessions'
  BY <1>2, <1>3 DEF IInv, KnownToI, KnownToR, Sessions, Shared
<1> QED
  BY <1>8, <1>9, <1>10 DEF IInv

(* An HS_FINISH that the responder accepts was signed by a node that       *)
(* claims the identity it signs with.                                      *)
LEMMA AcceptedFinish ==
    ASSUME Shape, NEW m \in FromI, AcceptsFinish(m)
    PROVE  kind["I"] = "node" /\ pk["I"] = sk["I"] /\ m.identity_pk = pk["I"]
<1>1. kind["I"] # "stranger"
  BY DEF FromI, StrangerFrames, build_hs_init, build_ok, AcceptsFinish
<1>2. m = build_hs_finish(pk["I"], sign(sk["I"], SignedByI(peerMsg["I"])))
  BY <1>1 DEF FromI, build_hs_init, AcceptsFinish
<1>3. m.identity_pk = pk["I"] /\ m.sig = sign(sk["I"], SignedByI(peerMsg["I"]))
  BY <1>2 DEF build_hs_finish
<1>4. sign(sk["I"], SignedByI(peerMsg["I"])) = sign(pk["I"], SignedByR)
  BY <1>3 DEF AcceptsFinish, verify
<1>5. /\ sign(sk["I"], SignedByI(peerMsg["I"])).by = sk["I"]
      /\ sign(pk["I"], SignedByR).by = pk["I"]
  BY DEF sign
<1> QED
  BY <1>1, <1>3, <1>4, <1>5 DEF Shape, End

(* The responder reads what should be an HS_FINISH.                        *)
LEMMA RecvFinishKeeps == IInv /\ RecvFinish => IInv'
<1> SUFFICES ASSUME IInv, RecvFinish PROVE IInv'
  OBVIOUS
<1> DEFINE m == Head(chan["R"])
           known == [eph_pk |-> peerMsg["R"].eph_pk, identity_pk |-> m.identity_pk]
<1>1. Shape /\ DOMAIN chan = End /\ "R" \in End
  BY DEF IInv, Shape, End
<1>2. /\ m \in FromI /\ chan'["R"] \in Seq(FromI)
      /\ chan'["I"] = chan["I"] /\ DOMAIN chan' = End
  BY <1>1, TakeFacts DEF IInv, Streams, RecvFinish, Other
<1>3. pc["R"] = "recv_finish" /\ UNCHANGED <<pk, sk, kind>>
  BY DEF RecvFinish
<1>4. CASE ~AcceptsFinish(m)
  <2>1. Fail("R")
    BY <1>4 DEF RecvFinish
  <2> QED
    BY <2>1, <1>1, <1>2, <1>3, FailKeeps DEF IInv, Streams
<1>5. CASE AcceptsFinish(m)
  <2>1. /\ peerMsg' = [peerMsg EXCEPT !["R"] = known]
        /\ pc' = [pc EXCEPT !["R"] = "send_ok"]
        /\ UNCHANGED <<sess, open>>
    BY <1>5 DEF RecvFinish, Go
  <2>2. pc'["R"] = "send_ok" /\ pc'["I"] = pc["I"]
        /\ peerMsg'["R"] = known /\ peerMsg'["I"] = peerMsg["I"]
    BY <2>1, <1>1 DEF Shape, End
  <2>3. kind["I"] = "node" /\ pk["I"] = sk["I"] /\ m.identity_pk = pk["I"]
    BY <1>1, <1>2, <1>5, AcceptedFinish
  <2>4. peerMsg'["R"].eph_pk = peerMsg["R"].eph_pk /\ peerMsg'["R"].identity_pk = pk["I"]
    BY <2>2, <2>3
  <2>5. FromI' = FromI
    BY <2>2, <1>3 DEF FromI
  <2>6. FromR' = FromR
    BY <2>2, <2>4, <1>3 DEF FromR, SignedByR
  <2>7. Streams'
    BY <2>5, <2>6, <1>2 DEF IInv, Streams
  <2>8. Shape'
    BY <1>1, <1>2, <1>3, <2>1, <2>2 DEF Shape, End, PCs, Sending
  <2>9. KnownToI' /\ KnownToR'
    BY <2>2, <2>3, <2>4, <1>3 DEF IInv, KnownToI, KnownToR
  <2>10. Sessions'
    BY <2>1, <2>2, <1>3 DEF IInv, Sessions, Shared
  <2> QED
    BY <2>7, <2>8, <2>9, <2>10 DEF IInv
<1> QED
  BY <1>4, <1>5

(* The responder writes the OK and has its session.                        *)
LEMMA SendOkKeeps == IInv /\ SendOk => IInv'
<1> SUFFICES ASSUME IInv, SendOk PROVE IInv'
  OBVIOUS
<1>1. Shape /\ kind["R"] = "node" /\ DOMAIN chan = End /\ "R" \in End
  BY DEF IInv, Shape, SendOk, End
<1>2. /\ pc' = [pc EXCEPT !["R"] = "session"] /\ pc["R"] = "send_ok"
      /\ UNCHANGED <<peerMsg, pk, sk, kind>>
      /\ sess' = [sess EXCEPT !["R"] =
                    [peer |-> peerMsg["R"].identity_pk,
                     k_send |-> derive_keys(exchange(ephR, peerMsg["R"].eph_pk)).r2i,
                     k_recv |-> derive_keys(exchange(ephR, peerMsg["R"].eph_pk)).i2r]]
  BY DEF SendOk, Go
<1>3. pc'["R"] = "session" /\ pc'["I"] = pc["I"]
  BY <1>1, <1>2 DEF Shape, End
<1>4. FromR' = FromR \cup {build_ok}
  BY <1>1, <1>2, <1>3 DEF FromR, SignedByR
<1>5. FromI' = FromI
  BY <1>1, <1>2, <1>3 DEF FromI
<1>6. chan["I"] \in Seq(FromR') /\ build_ok \in FromR'
  BY <1>4, SeqMonotonic DEF IInv, Streams
<1>7. chan'["I"] \in Seq(FromR') /\ chan'["R"] = chan["R"] /\ DOMAIN chan' = End /\ open' = open
  BY <1>1, <1>6, PutFacts DEF SendOk, Other
<1>8. Streams'
  BY <1>5, <1>7 DEF IInv, Streams
<1>9. Shape'
  BY <1>1, <1>7, <1>2, <1>3 DEF Shape, End, PCs
<1>10. KnownToI' /\ KnownToR'
  BY <1>2, <1>3 DEF IInv, KnownToI, KnownToR
<1>11. peerMsg["R"].eph_pk = ephI /\ peerMsg["R"].identity_pk = pk["I"]
  BY <1>2 DEF IInv, KnownToR
<1>12. exchange(ephR, ephI) = {ephI, ephR}
  BY DEF exchange
<1>13. sess'["R"] = [peer |-> pk["I"], k_send |-> Shared.r2i, k_recv |-> Shared.i2r]
       /\ sess'["I"] = sess["I"]
  BY <1>1, <1>2, <1>11, <1>12 DEF Shared, Shape, End
<1>14. Sessions'
  BY <1>2, <1>3, <1>13 DEF IInv, Sessions, Shared
<1> QED
  BY <1>8, <1>9, <1>10, <1>14 DEF IInv

-----------------------------------------------------------------------------
(* An error of a socket call ends the handshake.                           *)
LEMMA FailsKeep ==
    ASSUME NEW e \in End, IInv, SendFails(e) \/ RecvFails(e)
    PROVE  IInv'
<1>1. pc[e] \notin {"session", "failed", "stranger"}
  BY DEF SendFails, RecvFails, Sending, Receiving
<1>2. Fail(e) /\ UNCHANGED <<pk, sk, kind>> /\ chan' = chan
  BY DEF SendFails, RecvFails
<1> QED
  BY <1>1, <1>2, FailKeeps DEF IInv, Shape, Streams

(* A step that changes neither the ends nor what they can have written     *)
(* keeps the invariant.                                                    *)
LEMMA OutsideKeeps ==
    ASSUME IInv, UNCHANGED <<pk, sk, kind, pc, peerMsg, sess>>,
           open' \in [End -> BOOLEAN],
           \A e \in End : pc[e] # "stranger" => open'[e] = open[e],
           DOMAIN chan' = End, chan'["R"] \in Seq(FromI), chan'["I"] \in Seq(FromR)
    PROVE  IInv'
<1>1. FromI' = FromI /\ FromR' = FromR
  BY DEF FromI, FromR, SignedByR
<1>2. Streams'
  BY <1>1 DEF Streams
<1>3. Shape'
  BY DEF IInv, Shape
<1>4. KnownToI' /\ KnownToR' /\ Sessions'
  BY DEF IInv, KnownToI, KnownToR, Sessions, Shared
<1> QED
  BY <1>2, <1>3, <1>4 DEF IInv

(* A stranger writes one of its frames.                                    *)
LEMMA StrangerWritesKeeps ==
    ASSUME NEW e \in End, IInv, StrangerWrites(e)
    PROVE  IInv'
<1>1. PICK f \in StrangerFrames : Put(e, f)
  BY DEF StrangerWrites
<1>2. kind[e] = "stranger" /\ DOMAIN chan = End
  BY DEF IInv, Shape, StrangerWrites
<1>3. UNCHANGED <<pk, sk, kind, pc, peerMsg, sess>>
  BY DEF StrangerWrites
<1>4. CASE e = "I"
  <2>1. f \in FromI /\ chan[Other(e)] \in Seq(FromI)
    BY <1>2, <1>4 DEF FromI, IInv, Streams, Other
  <2>2. chan'["R"] \in Seq(FromI) /\ chan'["I"] = chan["I"] /\ DOMAIN chan' = End /\ open' = open
    BY <1>1, <1>2, <1>4, <2>1, PutFacts DEF Other
  <2> QED
    BY <1>3, <2>2, OutsideKeeps DEF IInv, Shape, Streams
<1>5. CASE e = "R"
  <2>1. f \in FromR /\ chan[Other(e)] \in Seq(FromR)
    BY <1>2, <1>5 DEF FromR, IInv, Streams, Other
  <2>2. chan'["I"] \in Seq(FromR) /\ chan'["R"] = chan["R"] /\ DOMAIN chan' = End /\ open' = open
    BY <1>1, <1>2, <1>5, <2>1, PutFacts DEF Other
  <2> QED
    BY <1>3, <2>2, OutsideKeeps DEF IInv, Shape, Streams
<1> QED
  BY <1>4, <1>5 DEF End

(* A stranger hangs up.                                                    *)
LEMMA StrangerClosesKeeps ==
    ASSUME NEW e \in End, IInv, StrangerCloses(e)
    PROVE  IInv'
<1>1. open' = [open EXCEPT ![e] = FALSE] /\ pc[e] = "stranger" /\ chan' = chan
      /\ UNCHANGED <<pk, sk, kind, pc, peerMsg, sess>>
  BY DEF StrangerCloses
<1>2. open' \in [End -> BOOLEAN] /\ \A d \in End : pc[d] # "stranger" => open'[d] = open[d]
  BY <1>1 DEF IInv, Shape
<1> QED
  BY <1>1, <1>2, OutsideKeeps DEF IInv, Shape, Streams

(* The network loses the connection and the ends of both streams.          *)
LEMMA CutKeeps == IInv /\ Cut => IInv'
<1> SUFFICES ASSUME IInv, Cut PROVE IInv'
  OBVIOUS
<1>1. PICK i \in 0..Len(chan["I"]), r \in 0..Len(chan["R"]) :
        chan' = [chan EXCEPT !["I"] = SubSeq(@, 1, i), !["R"] = SubSeq(@, 1, r)]
  BY DEF Cut
<1>2. ASSUME NEW S, NEW s \in Seq(S), NEW n \in 0..Len(s)
      PROVE  SubSeq(s, 1, n) \in Seq(S)
  <2>1. n \in Int /\ \A j \in 1..n : s[j] \in S
    BY <1>2, ElementOfSeq, LenProperties
  <2> QED
    BY <2>1, SubSeqProperties
<1>3. chan'["I"] = SubSeq(chan["I"], 1, i) /\ chan'["R"] = SubSeq(chan["R"], 1, r)
      /\ DOMAIN chan' = End
  BY <1>1 DEF IInv, Shape, End
<1>4. chan'["R"] \in Seq(FromI) /\ chan'["I"] \in Seq(FromR)
  BY <1>2, <1>3 DEF IInv, Streams
<1>5. UNCHANGED <<pk, sk, kind, pc, peerMsg, sess, open>>
  BY DEF Cut
<1> QED
  BY <1>3, <1>4, <1>5, OutsideKeeps DEF IInv, Shape

-----------------------------------------------------------------------------
(* Every step keeps the invariant.                                         *)
LEMMA StepIInv == IInv /\ [Next]_vars => IInv'
<1> SUFFICES ASSUME IInv, [Next]_vars PROVE IInv'
  OBVIOUS
<1>1. CASE IStep
  BY <1>1, SendInitKeeps, RecvRespKeeps, SendFinishKeeps, RecvOkKeeps, FailsKeep
     DEF IStep, End
<1>2. CASE RStep
  BY <1>2, RecvInitKeeps, SendRespKeeps, RecvFinishKeeps, SendOkKeeps, FailsKeep
     DEF RStep, End
<1>3. CASE \E e \in End : StrangerWrites(e) \/ StrangerCloses(e)
  BY <1>3, StrangerWritesKeeps, StrangerClosesKeeps
<1>4. CASE Cut
  BY <1>4, CutKeeps
<1>5. CASE UNCHANGED vars
  BY <1>5, OutsideKeeps DEF vars, conn, IInv, Shape, Streams
<1> QED
  BY <1>1, <1>2, <1>3, <1>4, <1>5 DEF Next

(* The invariant holds in every reachable state.                           *)
THEOREM HandshakeInvariant == Spec => []IInv
BY InitIInv, StepIInv, PTL DEF Spec

(* A session exists exactly at an end that has finished, and an end that   *)
(* gave up closed its socket: handshake_as_initiator and                   *)
(* handshake_as_responder return a session or leave the socket to the      *)
(* destructor, never both, and never neither.                              *)
THEOREM HandshakeTypeOK == Spec => []TypeOK
<1>1. IInv => TypeOK
  BY SessionIsValue DEF IInv, Shape, Sessions, TypeOK, PCs, End
<1> QED
  BY <1>1, HandshakeInvariant, PTL

(* Two ends that both have a session agree on identities and keys, for     *)
(* any set of identities, whichever ends are strangers, whatever is lost.  *)
THEOREM EndsAgree == Spec => []Agreement
<1>1. IInv => Agreement
  <2> SUFFICES ASSUME IInv, sess["I"] # NoVal, sess["R"] # NoVal PROVE Agreement
    BY DEF Agreement
  <2>1. /\ sess["I"] = [peer |-> pk["R"], k_send |-> Shared.i2r, k_recv |-> Shared.r2i]
        /\ sess["R"] = [peer |-> pk["I"], k_send |-> Shared.r2i, k_recv |-> Shared.i2r]
    BY DEF IInv, Sessions
  <2>2. Shared.i2r # Shared.r2i
    BY DEF Shared, derive_keys
  <2> QED
    BY <2>1, <2>2 DEF Agreement, End, Other
<1> QED
  BY <1>1, HandshakeInvariant, PTL

(* A session names only an identity whose private key the other end, a     *)
(* node, holds: what verify in the two handshakes is for.                  *)
THEOREM IdentityNotForged == Spec => []NoForgedIdentity
<1>1. IInv => NoForgedIdentity
  <2> SUFFICES ASSUME IInv PROVE NoForgedIdentity
    OBVIOUS
  <2>1. sess["I"] # NoVal => kind["R"] = "node" /\ sess["I"].peer = sk["R"]
    BY DEF IInv, Sessions, KnownToI
  <2>2. sess["R"] # NoVal => kind["I"] = "node" /\ sess["R"].peer = sk["I"]
    BY DEF IInv, Sessions, KnownToR
  <2> QED
    BY <2>1, <2>2 DEF NoForgedIdentity, End, Other
<1> QED
  BY <1>1, HandshakeInvariant, PTL

(* The initiator has no session that the responder refused, because it     *)
(* waits for the OK.                                                       *)
THEOREM InitiatorIsLast == Spec => []InitiatorLast
<1>1. IInv => InitiatorLast
  BY SessionIsValue DEF IInv, Sessions, KnownToR, InitiatorLast
<1> QED
  BY <1>1, HandshakeInvariant, PTL
=============================================================================
