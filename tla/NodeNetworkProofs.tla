------------------------- MODULE NodeNetworkProofs -------------------------
(***************************************************************************)
(* Proofs about NodeNetwork: for any number of nodes, starts, connections  *)
(* and faults, the table of a node holds exactly the connections that are  *)
(* served by a thread, and a node has two connections of its own making to *)
(* one peer only for the reasons that ExtraSessionsExplained gives.        *)
(***************************************************************************)
EXTENDS NodeNetwork, SequenceFacts, FiniteSetTheorems

States == {"none", "dial", "hs", "sess", "up", "left"}

(* An end that is dialling has nobody at its other end yet, and a process  *)
(* that does not run has no connections.                                   *)
Ends ==
    /\ \A c \in Slot : st[I(c)] = "dial" => st[R(c)] = "none"
    /\ \A e \in End : ~up[At(e)] => st[e] = "none"

(* The table of a node is the set of its threads in recv_loop, each once.  *)
Tables ==
    /\ peers_ \in [Node -> Seq(End)]
    /\ \A n \in Node :
          /\ ToSet(peers_[n]) = {e \in End : At(e) = n /\ st[e] = "up"}
          /\ \A i, j \in DOMAIN peers_[n] : peers_[n][i] = peers_[n][j] => i = j

(* In its first round a node visits no key that it has dialled.            *)
FirstRound ==
    \A c \in Slot :
       phase[c[1]] = "boot" /\ st[I(c)] # "none" => dialed[c] \notin todo[c[1]]

(* The slot is on its way to a session with the key that was dialled, or   *)
(* has one.                                                                *)
Aims(c) == st[I(c)] \in {"dial", "hs"} \/ (st[I(c)] = "up" /\ dialed[c] = who[R(c)])

(* Two slots of one node aim at one key only if one of them was dialled    *)
(* while the other was still being set up.                                 *)
AimsApart ==
    \A c, d \in Slot :
       Aims(c) /\ Aims(d) /\ c[1] = d[1] /\ dialed[c] = dialed[d]
          => c = d \/ c \in hasty \/ d \in hasty

(* The inductive invariant.                                                *)
IInv == TypeOK /\ Ends /\ Tables /\ FirstRound /\ AimsApart

-----------------------------------------------------------------------------
(* The two ends of a slot, and where they are.                             *)
LEMMA SlotFacts ==
    /\ \A c \in Slot : /\ I(c) \in End /\ R(c) \in End /\ I(c) # R(c)
                       /\ At(I(c)) = c[1] /\ At(R(c)) = c[2]
                       /\ Other(I(c)) = R(c) /\ Other(R(c)) = I(c)
                       /\ c[1] \in Node /\ c[2] \in Node /\ c[3] \in Nat
                       /\ I(c)[1] = c /\ R(c)[1] = c
    /\ \A c, d \in Slot : (I(c) = I(d) => c = d) /\ (R(c) = R(d) => c = d) /\ I(c) # R(d)
    /\ \A e \in End : /\ At(e) \in Node /\ e[1] \in Slot
                      /\ e = I(e[1]) \/ e = R(e[1])
<1>1. \A c \in Slot : c[1] \in Node /\ c[2] \in Node /\ c[3] \in Nat
  BY NodeNetworkAssumption
<1> QED
  BY <1>1 DEF End, I, R, At, Other

(* The keys that occur.                                                    *)
LEMMA KeyFacts ==
    ASSUME TypeOK
    PROVE  /\ \A n \in Node : key(n) \in Keys /\ <<n, 0>> \in Keys
           /\ \A n \in Node : run[n] < MaxRuns[n] =>
                 run[n] + 1 \in 0 .. MaxRuns[n] /\ <<n, run[n] + 1>> \in Keys
<1>1. \A n \in Node : MaxRuns[n] \in Nat /\ run[n] \in 0 .. MaxRuns[n]
  BY NodeNetworkAssumption DEF TypeOK
<1>2. \A n \in Node : \A r \in 0 .. MaxRuns[n] : <<n, r>> \in Keys
  BY DEF Keys
<1> QED
  BY <1>1, <1>2 DEF key

(* What closing sockets does.                                              *)
LEMMA CloseFacts ==
    ASSUME TypeOK, NEW ends \in SUBSET End, Close(ends)
    PROVE  /\ st' \in [End -> States]
           /\ \A e \in End : st'[e] = IF e \in ends THEN "none" ELSE st[e]
           /\ who' \in [End -> Keys] /\ dialed' \in [Slot -> Keys]
           /\ okd' \subseteq Slot /\ cut' \subseteq Slot /\ hasty' \subseteq Slot
           /\ \A c \in Slot : st'[I(c)] # "none" =>
                 /\ dialed'[c] = dialed[c] /\ who'[R(c)] = who[R(c)]
                 /\ c \in hasty => c \in hasty'
<1> DEFINE used(e) == st[e] # "none" /\ e \notin ends
           freed == {c \in Slot : ~used(I(c)) /\ ~used(R(c))}
<1>1. /\ st' = [e \in End |-> IF e \in ends THEN "none" ELSE st[e]]
      /\ who' = [e \in End |-> IF e[1] \in freed THEN <<At(e), 0>> ELSE who[e]]
      /\ dialed' = [c \in Slot |-> IF c \in freed THEN <<c[2], 0>> ELSE dialed[c]]
      /\ okd' = okd \ freed /\ cut' = cut \ freed /\ hasty' = hasty \ freed
  BY DEF Close
<1>2. \A c \in Slot : st'[I(c)] # "none" => c \notin freed
  BY <1>1, SlotFacts
<1> HIDE DEF freed
<1>3. st' \in [End -> States] /\ \A e \in End : st'[e] = IF e \in ends THEN "none" ELSE st[e]
  BY <1>1 DEF TypeOK, States
<1>4. who' \in [End -> Keys]
  BY <1>1, KeyFacts, SlotFacts DEF TypeOK
<1>5. dialed' \in [Slot -> Keys]
  BY <1>1, KeyFacts, SlotFacts DEF TypeOK
<1>6. okd' \subseteq Slot /\ cut' \subseteq Slot /\ hasty' \subseteq Slot
  BY <1>1 DEF TypeOK
<1>7. ASSUME NEW c \in Slot, st'[I(c)] # "none"
      PROVE  dialed'[c] = dialed[c] /\ who'[R(c)] = who[R(c)] /\ (c \in hasty => c \in hasty')
  BY <1>1, <1>2, <1>7, SlotFacts
<1> QED
  BY <1>3, <1>4, <1>5, <1>6, <1>7

-----------------------------------------------------------------------------
(* The initial states satisfy the invariant.                               *)
LEMMA InitIInv == Init => IInv
<1> SUFFICES ASSUME Init PROVE IInv
  OBVIOUS
<1>1. \A n \in Node : MaxRuns[n] \in Nat /\ <<n, 0>> \in Keys
  BY NodeNetworkAssumption DEF Keys
<1>2. TypeOK
  <2>1. who \in [End -> Keys] /\ dialed \in [Slot -> Keys]
    BY <1>1, SlotFacts DEF Init
  <2> QED
    BY <1>1, <2>1, NodeNetworkAssumption DEF Init, TypeOK
<1>3. \A e \in End : st[e] = "none"
  BY DEF Init
<1>4. Ends
  BY <1>3, SlotFacts DEF Ends
<1>5. Tables
  <2>1. \A n \in Node : peers_[n] = <<>>
    BY DEF Init
  <2>2. ToSet(<<>>) = {} /\ DOMAIN <<>> = {}
    BY DEF ToSet
  <2>3. peers_ \in [Node -> Seq(End)]
    BY EmptySeq DEF Init
  <2> QED
    BY <1>3, <2>1, <2>2, <2>3 DEF Tables
<1>6. FirstRound /\ AimsApart
  BY <1>3, SlotFacts DEF FirstRound, AimsApart, Aims
<1> QED
  BY <1>2, <1>4, <1>5, <1>6 DEF IInv

-----------------------------------------------------------------------------
(* A step that changes processes only: no process ends, and a process that *)
(* is in its first round has no connections when it starts.                *)
LEMMA ProcessKeeps ==
    ASSUME IInv, TypeOK', UNCHANGED <<conns, peers_>>,
           \A n \in Node : up[n] => up'[n],
           \A n \in Node : \/ phase'[n] = phase[n] /\ todo'[n] = todo[n]
                           \/ phase'[n] = "refresh"
                           \/ ~up[n]
    PROVE  IInv'
<1>1. UNCHANGED <<st, who, dialed, hasty, peers_>>
  BY DEF conns
<1>2. Ends'
  BY <1>1, SlotFacts DEF IInv, Ends
<1>3. Tables'
  BY <1>1 DEF IInv, Tables
<1>4. FirstRound'
  <2> SUFFICES ASSUME NEW c \in Slot, phase'[c[1]] = "boot", st'[I(c)] # "none"
               PROVE  dialed'[c] \notin todo'[c[1]]
    BY DEF FirstRound
  <2>1. up[c[1]]
    BY <1>1, SlotFacts DEF IInv, Ends
  <2> QED
    BY <1>1, <2>1, SlotFacts DEF IInv, FirstRound
<1>5. AimsApart'
  BY <1>1 DEF IInv, AimsApart, Aims
<1> QED
  BY <1>2, <1>3, <1>4, <1>5 DEF IInv

(* A process starts.                                                       *)
LEMMA StartKeeps ==
    ASSUME NEW n \in Node, IInv, Start(n)
    PROVE  IInv'
<1>1. TypeOK /\ <<n, run[n] + 1>> \in Keys /\ run[n] + 1 \in 0 .. MaxRuns[n]
  BY KeyFacts DEF IInv, Start
<1>2. /\ run' = [run EXCEPT ![n] = @ + 1] /\ up' = [up EXCEPT ![n] = TRUE]
      /\ phase' = [phase EXCEPT ![n] = "boot"]
      /\ UNCHANGED <<listening, conns, peers_, slow>> /\ ~up[n]
  BY DEF Start
<1>3. /\ listed' \subseteq Keys /\ todo' \in [Node -> SUBSET Keys] /\ faults' \in 0 .. MaxFaults
      /\ \A m \in Node \ {n} : todo'[m] = todo[m]
  <2>1. CASE listed' = listed \cup {<<n, run[n] + 1>>} /\ todo' = [todo EXCEPT ![n] = listed]
             /\ UNCHANGED faults
    BY <1>1, <2>1 DEF TypeOK
  <2>2. CASE Fault /\ UNCHANGED <<listed, todo>>
    BY <1>1, <2>2, NodeNetworkAssumption DEF TypeOK, Fault
  <2> QED
    BY <2>1, <2>2 DEF Start
<1>4. UNCHANGED <<st, who, dialed, okd, cut, hasty>>
  BY <1>2 DEF conns
<1>5. TypeOK'
  BY <1>1, <1>2, <1>3, <1>4 DEF TypeOK
<1> QED
  BY <1>2, <1>3, <1>5, ProcessKeeps DEF IInv, TypeOK

(* A process listens.                                                      *)
LEMMA ListenKeeps ==
    ASSUME NEW n \in Node, IInv, Listen(n)
    PROVE  IInv'
<1>1. TypeOK'
  BY DEF IInv, TypeOK, Listen, conns
<1> QED
  BY <1>1, ProcessKeeps DEF Listen

(* The refresh thread wakes up.                                            *)
LEMMA RefreshKeeps ==
    ASSUME NEW n \in Node, IInv, Refresh(n)
    PROVE  IInv'
<1>1. TypeOK /\ key(n) \in Keys
  BY KeyFacts DEF IInv
<1>2. slow' \in 0 .. MaxSlow
  BY NodeNetworkAssumption DEF Refresh, IInv, TypeOK
<1>3. TypeOK'
  BY <1>1, <1>2 DEF TypeOK, Refresh, conns
<1> QED
  BY <1>1, <1>3, ProcessKeeps DEF Refresh, TypeOK

(* The coordinator forgets an entry, or all of them.                       *)
LEMMA ForgetKeeps ==
    ASSUME IInv, CoordinatorRestart \/ \E k \in Keys : Expire(k)
    PROVE  IInv'
<1>1. listed' \subseteq listed /\ faults' \in 0 .. MaxFaults /\ UNCHANGED <<process, conns, peers_, slow>>
  BY NodeNetworkAssumption DEF CoordinatorRestart, Expire, Fault, IInv, TypeOK
<1>2. TypeOK'
  BY <1>1 DEF IInv, TypeOK, process, conns
<1> QED
  BY <1>1, <1>2, ProcessKeeps DEF process

-----------------------------------------------------------------------------
(* A step that changes connections only, without adding a thread to or     *)
(* taking one from recv_loop.                                              *)
LEMMA TablesSame ==
    ASSUME IInv, UNCHANGED peers_, \A e \in End : st'[e] = "up" <=> st[e] = "up"
    PROVE  Tables'
<1>1. \A n \in Node : {e \in End : At(e) = n /\ st'[e] = "up"} = {e \in End : At(e) = n /\ st[e] = "up"}
  OBVIOUS
<1> QED
  BY <1>1 DEF IInv, Tables

(* One key of the list is visited.                                         *)
LEMMA VisitKeeps ==
    ASSUME NEW n \in Node, NEW k \in Keys, IInv, Visit(n, k)
    PROVE  IInv'
<1> DEFINE slots == {c \in Slot : c[1] = n /\ c[2] = k[1] /\ Free(c)}
           skip  == slots = {} \/ (phase[n] = "refresh" /\ already(n, k))
           c == CHOOSE c \in slots : \A d \in slots : c[3] <= d[3]
<1>1. /\ up[n] /\ k \in todo[n] /\ todo' = [todo EXCEPT ![n] = @ \ {k}]
      /\ UNCHANGED <<run, up, listening, phase, listed, peers_, faults, slow>>
  BY DEF Visit
<1>2. todo' \in [Node -> SUBSET Keys] /\ \A m \in Node : todo'[m] \subseteq todo[m]
      /\ k \notin todo'[n]
  BY <1>1 DEF IInv, TypeOK
<1>3. CASE skip /\ UNCHANGED conns
  <2>1. UNCHANGED <<st, who, dialed, okd, cut, hasty>>
    BY <1>3 DEF conns
  <2>2. TypeOK'
    BY <1>1, <1>2, <2>1 DEF IInv, TypeOK
  <2>3. Tables'
    BY <1>1, <2>1, TablesSame
  <2>4. Ends' /\ AimsApart'
    BY <1>1, <2>1 DEF IInv, Ends, AimsApart, Aims
  <2>5. FirstRound'
    BY <1>1, <1>2, <2>1, SlotFacts DEF IInv, FirstRound
  <2> QED
    BY <2>2, <2>3, <2>4, <2>5 DEF IInv
<1>4. CASE /\ ~skip
           /\ st' = [st EXCEPT ![I(c)] = "dial"]
           /\ dialed' = [dialed EXCEPT ![c] = k]
           /\ hasty' = IF \E b \in Slot : UnderWay(n, b, k) THEN hasty \cup {c} ELSE hasty
           /\ UNCHANGED <<who, okd, cut>>
  <2>1. c \in slots
    <3> DEFINE T == {d[3] : d \in slots}
    <3>1. T \subseteq Nat /\ T # {}
      BY <1>4, SlotFacts
    <3>2. PICK x \in T : \A y \in T : x <= y
      <4> HIDE DEF T
      <4> QED
        BY <3>1, Least
    <3>3. \E d \in slots : \A b \in slots : d[3] <= b[3]
      BY <3>2
    <3> HIDE DEF slots
    <3> QED
      BY <3>3
  <2> HIDE DEF c
  <2>2. c \in Slot /\ c[1] = n /\ st[I(c)] = "none" /\ st[R(c)] = "none"
    BY <2>1 DEF Free
  <2>3. I(c) \in End /\ R(c) \in End /\ At(I(c)) = n /\ I(c) # R(c)
        /\ \A d \in Slot : (I(d) = I(c) => d = c) /\ R(d) # I(c) /\ I(d) \in End /\ R(d) \in End
    BY <2>2, SlotFacts
  <2>4. /\ st' \in [End -> States]
        /\ st'[I(c)] = "dial" /\ \A e \in End : e # I(c) => st'[e] = st[e]
        /\ dialed' \in [Slot -> Keys]
        /\ dialed'[c] = k /\ \A d \in Slot : d # c => dialed'[d] = dialed[d]
        /\ hasty' \subseteq Slot /\ hasty \subseteq hasty'
    BY <1>4, <2>2, <2>3 DEF IInv, TypeOK, States
  <2>5. TypeOK'
    BY <1>1, <1>2, <1>4, <2>4 DEF IInv, TypeOK, States
  <2>6. Ends'
    BY <1>1, <2>2, <2>3, <2>4 DEF IInv, Ends
  <2>7. Tables'
    BY <1>1, <2>2, <2>3, <2>4, TablesSame
  <2>8. FirstRound'
    <3> SUFFICES ASSUME NEW d \in Slot, phase'[d[1]] = "boot", st'[I(d)] # "none"
                 PROVE  dialed'[d] \notin todo'[d[1]]
      BY DEF FirstRound
    <3>1. CASE d = c
      BY <3>1, <1>2, <2>2, <2>4
    <3>2. CASE d # c
      BY <3>2, <1>1, <1>2, <2>3, <2>4, SlotFacts DEF IInv, FirstRound
    <3> QED
      BY <3>1, <3>2
  <2>9. ASSUME NEW d \in Slot, Aims(d), d[1] = n, dialed[d] = k
        PROVE  c \in hasty'
    <3>1. CASE st[I(d)] \in {"dial", "hs"}
      <4>1. UnderWay(n, d, k)
        BY <2>9, <3>1 DEF UnderWay
      <4> QED
        BY <1>4, <4>1
    <3>2. CASE st[I(d)] = "up" /\ dialed[d] = who[R(d)]
      <4>1. phase[n] = "refresh"
        BY <1>1, <2>9, <3>2 DEF IInv, FirstRound, TypeOK
      <4>2. I(d) \in ToSet(peers_[n])
        BY <2>3, <2>9, <3>2, SlotFacts DEF IInv, Tables
      <4>3. Peer(I(d)) = k
        BY <2>9, <3>2, SlotFacts DEF Peer
      <4>4. already(n, k)
        BY <4>2, <4>3 DEF already, ToSet
      <4> QED
        BY <1>4, <4>1, <4>4
    <3> QED
      BY <2>9, <3>1, <3>2 DEF Aims
  <2>10. ASSUME NEW d \in Slot, d # c, Aims(d)'
         PROVE  Aims(d) /\ dialed'[d] = dialed[d]
    BY <1>4, <2>3, <2>4, <2>10 DEF Aims
  <2>11. AimsApart'
    <3> SUFFICES ASSUME NEW a \in Slot, NEW b \in Slot, Aims(a)', Aims(b)', a[1] = b[1],
                        dialed'[a] = dialed'[b], a # b
                 PROVE  a \in hasty' \/ b \in hasty'
      BY DEF AimsApart
    <3>1. CASE a = c
      BY <3>1, <2>2, <2>4, <2>9, <2>10
    <3>2. CASE b = c
      BY <3>2, <2>2, <2>4, <2>9, <2>10
    <3>3. CASE a # c /\ b # c
      BY <3>3, <2>4, <2>10 DEF IInv, AimsApart
    <3> QED
      BY <3>1, <3>2, <3>3
  <2> QED
    BY <2>5, <2>6, <2>7, <2>8, <2>11 DEF IInv
<1> QED
  BY <1>3, <1>4 DEF Visit

-----------------------------------------------------------------------------
(* A step of the connections that are there.                               *)
LEMMA ConnsKeep ==
    ASSUME IInv, TypeOK', Tables', phase' = phase, \A n \in Node : todo'[n] \subseteq todo[n],
           \A c \in Slot : st'[I(c)] = "dial" => st'[R(c)] = "none",
           \A e \in End : st'[e] # "none" => up'[At(e)],
           \A c \in Slot : st'[I(c)] # "none" =>
              /\ st[I(c)] # "none" /\ dialed'[c] = dialed[c]
              /\ c \in hasty => c \in hasty'
              /\ Aims(c)' => Aims(c)
    PROVE  IInv'
<1>1. Ends'
  BY DEF Ends
<1>2. FirstRound'
  BY SlotFacts DEF IInv, FirstRound
<1>3. \A c \in Slot : Aims(c)' => st'[I(c)] # "none"
  BY DEF Aims
<1>4. AimsApart'
  <2> SUFFICES ASSUME NEW a \in Slot, NEW b \in Slot, Aims(a)', Aims(b)', a[1] = b[1],
                      dialed'[a] = dialed'[b], a # b
               PROVE  a \in hasty' \/ b \in hasty'
    BY DEF AimsApart
  <2>1. Aims(a) /\ Aims(b) /\ dialed[a] = dialed[b]
    BY <1>3
  <2>2. a \in hasty \/ b \in hasty
    BY <2>1 DEF IInv, AimsApart
  <2> QED
    BY <1>3, <2>2
<1> QED
  BY <1>1, <1>2, <1>4 DEF IInv

(* A connection is made.                                                   *)
LEMMA ConnectKeeps ==
    ASSUME NEW c \in Slot, IInv, Connect(c)
    PROVE  IInv'
<1>1. /\ st[I(c)] = "dial" /\ up[c[2]]
      /\ st' = [st EXCEPT ![I(c)] = "hs", ![R(c)] = "hs"]
      /\ who' = [who EXCEPT ![I(c)] = key(c[1]), ![R(c)] = key(c[2])]
      /\ UNCHANGED <<process, listed, dialed, okd, cut, hasty, peers_, faults, slow>>
  BY DEF Connect
<1>2. /\ I(c) \in End /\ R(c) \in End /\ I(c) # R(c) /\ At(I(c)) = c[1] /\ At(R(c)) = c[2]
      /\ c[1] \in Node /\ c[2] \in Node
      /\ \A d \in Slot : (I(d) = I(c) => d = c) /\ (R(d) = R(c) => d = c)
                         /\ R(d) # I(c) /\ I(d) # R(c) /\ I(d) \in End /\ R(d) \in End
  BY SlotFacts
<1>3. st[R(c)] = "none" /\ up[c[1]]
  BY <1>1, <1>2 DEF IInv, Ends
<1>4. /\ st' \in [End -> States] /\ st'[I(c)] = "hs" /\ st'[R(c)] = "hs"
      /\ \A e \in End : e # I(c) /\ e # R(c) => st'[e] = st[e]
  BY <1>1, <1>2 DEF IInv, TypeOK, States
<1>5. key(c[1]) \in Keys /\ key(c[2]) \in Keys
  BY <1>2, KeyFacts DEF IInv
<1>6. /\ who' \in [End -> Keys]
      /\ \A d \in Slot : d # c => who'[R(d)] = who[R(d)]
  BY <1>1, <1>2, <1>5 DEF IInv, TypeOK
<1>7. TypeOK'
  BY <1>1, <1>4, <1>6 DEF IInv, TypeOK, process, States
<1>8. Tables'
  BY <1>1, <1>3, <1>4, TablesSame
<1>9. \A d \in Slot : st'[I(d)] = "dial" => st'[R(d)] = "none"
  BY <1>2, <1>4 DEF IInv, Ends
<1>10. \A e \in End : st'[e] # "none" => up'[At(e)]
  BY <1>1, <1>2, <1>3, <1>4 DEF IInv, Ends, process
<1>11. ASSUME NEW d \in Slot, st'[I(d)] # "none"
       PROVE  st[I(d)] # "none" /\ (Aims(d)' => Aims(d))
  <2>1. CASE d = c
    BY <2>1, <1>1 DEF Aims
  <2>2. CASE d # c
    BY <2>2, <1>1, <1>2, <1>4, <1>6, <1>11 DEF Aims
  <2> QED
    BY <2>1, <2>2
<1> QED
  BY <1>1, <1>7, <1>8, <1>9, <1>10, <1>11, ConnsKeep DEF process

(* The state of one end changes between two states other than none, and    *)
(* nothing else of the connections but okd.                                *)
LEMMA SetKeeps ==
    ASSUME NEW e \in End, NEW s \in States \ {"none", "dial"}, IInv, Set(e, s), Tables',
           st[e] # "none", e[2] = "I" => st[e] \in {"dial", "hs"},
           \A c \in Slot : e = R(c) => st[I(c)] # "dial",
           okd' \subseteq Slot,
           UNCHANGED <<process, listed, who, dialed, cut, hasty, faults, slow>>
    PROVE  IInv'
<1>1. st' \in [End -> States] /\ st'[e] = s /\ \A d \in End : d # e => st'[d] = st[d]
  BY DEF Set, IInv, TypeOK, States
<1>2. TypeOK'
  BY <1>1 DEF IInv, TypeOK, process, States
<1>3. \A c \in Slot : st'[I(c)] = "dial" => st'[R(c)] = "none"
  BY <1>1, SlotFacts DEF IInv, Ends
<1>4. \A d \in End : st'[d] # "none" => up'[At(d)]
  BY <1>1 DEF IInv, Ends, process
<1>5. ASSUME NEW c \in Slot, st'[I(c)] # "none"
      PROVE  st[I(c)] # "none" /\ (Aims(c)' => Aims(c))
  <2>1. CASE e = I(c)
    BY <2>1, <1>1 DEF Aims, I
  <2>2. CASE e # I(c)
    BY <2>2, <1>1, <1>5, SlotFacts DEF Aims
  <2> QED
    BY <2>1, <2>2
<1> QED
  BY <1>2, <1>3, <1>4, <1>5, ConnsKeep DEF process

(* handshake_as_responder returns a session.                               *)
LEMMA RespondKeeps ==
    ASSUME NEW c \in Slot, IInv, Respond(c)
    PROVE  IInv'
<1>1. R(c) \in End /\ "sess" \in States \ {"none", "dial"} /\ R(c)[2] = "R"
  BY SlotFacts DEF States, R
<1>2. st' = [st EXCEPT ![R(c)] = "sess"] /\ st[R(c)] = "hs" /\ st[I(c)] = "hs"
      /\ UNCHANGED <<process, listed, who, dialed, cut, hasty, faults, slow, peers_>>
      /\ okd' = okd \cup {c}
  BY DEF Respond, Set
<1>3. Tables'
  BY <1>1, <1>2, TablesSame DEF IInv, TypeOK
<1>4. \A d \in Slot : R(c) = R(d) => st[I(d)] # "dial"
  BY <1>2, SlotFacts
<1>5. okd' \subseteq Slot
  BY <1>2 DEF IInv, TypeOK
<1> QED
  BY <1>1, <1>2, <1>3, <1>4, <1>5, SetKeeps DEF Set

(* add_peer appends a connection that is not yet in the table.             *)
LEMMA AddedTables ==
    ASSUME NEW e \in End, IInv, add_peer(e), st[e] # "up"
    PROVE  Tables'
<1> DEFINE n == At(e)
           old == peers_[n]
           new == Append(old, e)
<1>1. n \in Node /\ old \in Seq(End)
  BY SlotFacts DEF IInv, Tables
<1>2. peers_' = [peers_ EXCEPT ![n] = new] /\ st' = [st EXCEPT ![e] = "up"]
  BY DEF add_peer, Set
<1>3. /\ new \in Seq(End) /\ Len(old) \in Nat /\ DOMAIN old = 1 .. Len(old)
      /\ DOMAIN new = 1 .. Len(old) + 1
      /\ \A i \in 1 .. Len(old) : new[i] = old[i]
      /\ new[Len(old) + 1] = e
  BY <1>1, AppendProperties, LenProperties
<1>4. /\ ToSet(old) = {d \in End : At(d) = n /\ st[d] = "up"}
      /\ \A i, j \in DOMAIN old : old[i] = old[j] => i = j
  BY <1>1 DEF IInv, Tables
<1>5. \A i \in DOMAIN old : old[i] # e
  BY <1>4 DEF ToSet
<1> HIDE DEF new, old
<1>6. ToSet(new) = ToSet(old) \cup {e}
  <2>1. \A i \in DOMAIN new : new[i] \in ToSet(old) \cup {e}
    BY <1>3 DEF ToSet
  <2>2. \A x \in ToSet(old) \cup {e} : \E i \in DOMAIN new : new[i] = x
    BY <1>3 DEF ToSet
  <2> QED
    BY <2>1, <2>2 DEF ToSet
<1>7. st'[e] = "up" /\ \A d \in End : d # e => st'[d] = st[d]
  BY <1>2 DEF IInv, TypeOK
<1>8. ToSet(new) = {d \in End : At(d) = n /\ st'[d] = "up"}
  BY <1>4, <1>6, <1>7
<1>9. \A i, j \in DOMAIN new : new[i] = new[j] => i = j
  BY <1>3, <1>4, <1>5
<1>10. peers_' \in [Node -> Seq(End)] /\ peers_'[n] = new
       /\ \A m \in Node : m # n => peers_'[m] = peers_[m]
  BY <1>1, <1>2, <1>3 DEF IInv, Tables
<1>11. ASSUME NEW m \in Node, m # n
       PROVE  ToSet(peers_'[m]) = {d \in End : At(d) = m /\ st'[d] = "up"}
              /\ \A i, j \in DOMAIN peers_'[m] : peers_'[m][i] = peers_'[m][j] => i = j
  <2>1. {d \in End : At(d) = m /\ st'[d] = "up"} = {d \in End : At(d) = m /\ st[d] = "up"}
    BY <1>7, <1>11
  <2> QED
    BY <1>10, <1>11, <2>1 DEF IInv, Tables
<1> HIDE DEF n
<1> QED
  BY <1>8, <1>9, <1>10, <1>11 DEF Tables

(* A thread adds its connection and enters recv_loop.                      *)
LEMMA UpKeeps ==
    ASSUME NEW c \in Slot, IInv, InitiatorUp(c) \/ ResponderUp(c)
    PROVE  IInv'
<1>1. /\ I(c) \in End /\ R(c) \in End /\ "up" \in States \ {"none", "dial"}
      /\ I(c)[2] = "I" /\ R(c)[2] = "R"
      /\ \A d \in Slot : I(c) # R(d) /\ (R(c) = R(d) => c = d)
  BY SlotFacts DEF States, I, R
<1>2. UNCHANGED <<process, listed, who, dialed, okd, cut, hasty, faults, slow>> /\ okd' \subseteq Slot
  BY DEF InitiatorUp, ResponderUp, IInv, TypeOK
<1>3. CASE InitiatorUp(c)
  <2>1. add_peer(I(c)) /\ st[I(c)] = "hs" /\ Set(I(c), "up")
    BY <1>3 DEF InitiatorUp, add_peer
  <2>2. Tables'
    BY <1>1, <2>1, AddedTables
  <2> QED
    BY <1>1, <1>2, <2>1, <2>2, SetKeeps
<1>4. CASE ResponderUp(c)
  <2>1. add_peer(R(c)) /\ st[R(c)] = "sess" /\ Set(R(c), "up")
    BY <1>4 DEF ResponderUp, add_peer
  <2>2. Tables'
    BY <1>1, <2>1, AddedTables
  <2>3. \A d \in Slot : R(c) = R(d) => st[I(d)] # "dial"
    BY <1>1, <2>1 DEF IInv, Ends
  <2> QED
    BY <1>1, <1>2, <2>1, <2>2, <2>3, SetKeeps
<1> QED
  BY <1>3, <1>4

-----------------------------------------------------------------------------
(* A step that closes sockets.                                             *)
LEMMA CloseKeeps ==
    ASSUME IInv, NEW ends \in SUBSET End, Close(ends), TypeOK', Tables', phase' = phase,
           \A n \in Node : todo'[n] \subseteq todo[n],
           \A e \in End \ ends : up[At(e)] => up'[At(e)]
    PROVE  IInv'
<1>1. /\ \A e \in End : st'[e] = IF e \in ends THEN "none" ELSE st[e]
      /\ \A c \in Slot : st'[I(c)] # "none" =>
            /\ dialed'[c] = dialed[c] /\ who'[R(c)] = who[R(c)]
            /\ c \in hasty => c \in hasty'
  BY CloseFacts DEF IInv
<1>2. \A c \in Slot : st'[I(c)] = "dial" => st'[R(c)] = "none"
  BY <1>1, SlotFacts DEF IInv, Ends
<1>3. \A e \in End : st'[e] # "none" => up'[At(e)]
  BY <1>1 DEF IInv, Ends
<1>4. ASSUME NEW c \in Slot, st'[I(c)] # "none"
      PROVE  st[I(c)] # "none" /\ (Aims(c)' => Aims(c))
  BY <1>1, <1>4, SlotFacts DEF Aims
<1> QED
  BY <1>1, <1>2, <1>3, <1>4, ConnsKeep

(* What closing sockets leaves of the type invariant to show.              *)
LEMMA CloseTypes ==
    ASSUME IInv, NEW ends \in SUBSET End, Close(ends), UNCHANGED <<process, listed, faults, slow>>
    PROVE  TypeOK'
BY CloseFacts DEF IInv, TypeOK, process, States

(* A call of connect fails, or a handshake, or the last owner of a         *)
(* connection that is out of the table goes.                               *)
LEMMA FailsKeep ==
    ASSUME NEW e \in End, IInv, st[e] # "up", Close({e}),
           UNCHANGED <<process, listed, peers_, faults, slow>>
    PROVE  IInv'
<1>1. {e} \in SUBSET End
  OBVIOUS
<1>2. TypeOK'
  BY <1>1, CloseTypes
<1>3. \A d \in End : st'[d] = IF d \in {e} THEN "none" ELSE st[d]
  BY <1>1, CloseFacts DEF IInv
<1>4. Tables'
  BY <1>3, TablesSame
<1> QED
  BY <1>1, <1>2, <1>4, CloseKeeps DEF process

(* remove_peer takes exactly the connection that ends out of the table.    *)
LEMMA RemovedTables ==
    ASSUME NEW e \in End, IInv, remove_peer(e), Set(e, "left")
    PROVE  Tables'
<1> DEFINE n == At(e)
           old == peers_[n]
           new == erased(old, e)
<1>1. n \in Node /\ old \in Seq(End)
  BY SlotFacts DEF IInv, Tables
<1>2. peers_' = [peers_ EXCEPT ![n] = new]
  BY DEF remove_peer
<1>3. new \in Seq(End) /\ ToSet(new) = ToSet(old) \ {e} /\ InOrder(old, Len(old), new)
  BY <1>1, ErasedIsRest
<1>4. /\ ToSet(old) = {d \in End : At(d) = n /\ st[d] = "up"}
      /\ \A i, j \in DOMAIN old : old[i] = old[j] => i = j
      /\ DOMAIN old = 1 .. Len(old)
  BY <1>1, LenProperties DEF IInv, Tables
<1>5. \A d \in End : st'[d] = IF d = e THEN "left" ELSE st[d]
  BY DEF Set, IInv, TypeOK
<1> HIDE DEF new, old
<1>6. ToSet(new) = {d \in End : At(d) = n /\ st'[d] = "up"}
  BY <1>3, <1>4, <1>5
<1>7. \A i, j \in DOMAIN new : new[i] = new[j] => i = j
  <2>1. PICK g \in [DOMAIN new -> 1 .. Len(old)] :
          /\ \A i, j \in DOMAIN new : i < j => g[i] < g[j]
          /\ \A j \in DOMAIN new : new[j] = old[g[j]]
    BY <1>3 DEF InOrder
  <2>2. DOMAIN new = 1 .. Len(new) /\ Len(new) \in Nat /\ Len(old) \in Nat
    BY <1>1, <1>3, LenProperties DEF old
  <2> SUFFICES ASSUME NEW i \in DOMAIN new, NEW j \in DOMAIN new, new[i] = new[j], i # j
               PROVE  FALSE
    OBVIOUS
  <2>3. g[i] = g[j]
    BY <1>4, <2>1
  <2>4. i < j \/ j < i
    BY <2>2
  <2>5. g[i] < g[j] \/ g[j] < g[i]
    BY <2>1, <2>4
  <2>6. g[i] \in Nat /\ g[j] \in Nat
    BY <2>1, <2>2
  <2> QED
    BY <2>3, <2>5, <2>6
<1>8. peers_' \in [Node -> Seq(End)] /\ peers_'[n] = new
      /\ \A m \in Node : m # n => peers_'[m] = peers_[m]
  BY <1>1, <1>2, <1>3 DEF IInv, Tables
<1>9. ASSUME NEW m \in Node, m # n
      PROVE  ToSet(peers_'[m]) = {d \in End : At(d) = m /\ st'[d] = "up"}
             /\ \A i, j \in DOMAIN peers_'[m] : peers_'[m][i] = peers_'[m][j] => i = j
  <2>1. {d \in End : At(d) = m /\ st'[d] = "up"} = {d \in End : At(d) = m /\ st[d] = "up"}
    BY <1>5, <1>9
  <2> QED
    BY <1>8, <1>9, <2>1 DEF IInv, Tables
<1> HIDE DEF n
<1> QED
  BY <1>6, <1>7, <1>8, <1>9 DEF Tables

(* A connection leaves the table, for whatever reason.                     *)
LEMMA LeaveKeeps ==
    ASSUME NEW e \in End, IInv, st[e] = "up", remove_peer(e), Set(e, "left"),
           UNCHANGED <<process, listed, who, dialed, okd, cut, hasty, slow>>,
           faults' \in 0 .. MaxFaults
    PROVE  IInv'
<1>1. Tables'
  BY RemovedTables
<1>2. st' \in [End -> States] /\ st'[e] = "left" /\ \A d \in End : d # e => st'[d] = st[d]
  BY DEF Set, IInv, TypeOK, States
<1>3. TypeOK'
  BY <1>2 DEF IInv, TypeOK, process, States
<1>4. \A c \in Slot : st'[I(c)] = "dial" => st'[R(c)] = "none"
  BY <1>2, SlotFacts DEF IInv, Ends
<1>5. \A d \in End : st'[d] # "none" => up'[At(d)]
  BY <1>2 DEF IInv, Ends, process
<1>6. ASSUME NEW c \in Slot, st'[I(c)] # "none"
      PROVE  st[I(c)] # "none" /\ (Aims(c)' => Aims(c))
  BY <1>2, <1>6, SlotFacts DEF Aims
<1> QED
  BY <1>1, <1>3, <1>4, <1>5, <1>6, ConnsKeep DEF process

(* A connection ends, or is ended by an empty message.                     *)
LEMMA DisconnectKeeps ==
    ASSUME NEW e \in End, IInv, Disconnect(e) \/ RecvEmpty(e)
    PROVE  IInv'
<1>1. faults' \in 0 .. MaxFaults
  BY NodeNetworkAssumption DEF Disconnect, RecvEmpty, Fault, IInv, TypeOK
<1> QED
  BY <1>1, LeaveKeeps DEF Disconnect, RecvEmpty

(* A process is killed.                                                    *)
LEMMA CrashKeeps ==
    ASSUME NEW n \in Node, IInv, Crash(n)
    PROVE  IInv'
<1> DEFINE ends == {e \in End : At(e) = n}
<1>1. /\ Close(ends) /\ ends \in SUBSET End
      /\ up' = [up EXCEPT ![n] = FALSE] /\ listening' = [listening EXCEPT ![n] = FALSE]
      /\ todo' = [todo EXCEPT ![n] = {}] /\ peers_' = [peers_ EXCEPT ![n] = <<>>]
      /\ UNCHANGED <<run, phase, listed, slow>> /\ faults < MaxFaults /\ faults' = faults + 1
  BY DEF Crash, Fault
<1>2. /\ st' \in [End -> States]
      /\ \A e \in End : st'[e] = IF e \in ends THEN "none" ELSE st[e]
      /\ who' \in [End -> Keys] /\ dialed' \in [Slot -> Keys]
      /\ okd' \subseteq Slot /\ cut' \subseteq Slot /\ hasty' \subseteq Slot
  BY <1>1, CloseFacts DEF IInv
<1>3. faults' \in 0 .. MaxFaults
  BY <1>1, NodeNetworkAssumption DEF IInv, TypeOK
<1>4. TypeOK'
  BY <1>1, <1>2, <1>3 DEF IInv, TypeOK, States
<1>5. \A m \in Node : todo'[m] \subseteq todo[m]
  BY <1>1 DEF IInv, TypeOK
<1>6. \A e \in End \ ends : up[At(e)] => up'[At(e)]
  BY <1>1, SlotFacts DEF IInv, TypeOK
<1>7. Tables'
  <2>1. ToSet(<<>>) = {} /\ DOMAIN <<>> = {}
    BY DEF ToSet
  <2>2. <<>> \in Seq(End)
    BY EmptySeq
  <2>3. peers_' \in [Node -> Seq(End)] /\ peers_'[n] = <<>>
        /\ \A m \in Node : m # n => peers_'[m] = peers_[m]
    BY <1>1, <2>2 DEF IInv, Tables
  <2>4. {e \in End : At(e) = n /\ st'[e] = "up"} = {}
    BY <1>2
  <2>5. ASSUME NEW m \in Node, m # n
        PROVE  {e \in End : At(e) = m /\ st'[e] = "up"} = {e \in End : At(e) = m /\ st[e] = "up"}
    BY <1>2, <2>5
  <2>6. ASSUME NEW m \in Node
        PROVE  ToSet(peers_'[m]) = {d \in End : At(d) = m /\ st'[d] = "up"}
               /\ \A i, j \in DOMAIN peers_'[m] : peers_'[m][i] = peers_'[m][j] => i = j
    <3>1. CASE m = n
      BY <2>1, <2>3, <2>4, <3>1
    <3>2. CASE m # n
      BY <2>3, <2>5, <3>2 DEF IInv, Tables
    <3> QED
      BY <3>1, <3>2
  <2> QED
    BY <2>3, <2>6 DEF Tables
<1> HIDE DEF ends
<1> QED
  BY <1>1, <1>4, <1>5, <1>6, <1>7, CloseKeeps

(* The network loses a connection.                                         *)
LEMMA BreakKeeps ==
    ASSUME NEW c \in Slot, IInv, Break(c)
    PROVE  IInv'
<1>1. UNCHANGED <<process, listed, st, who, dialed, okd, hasty, peers_, slow>>
      /\ cut' = cut \cup {c} /\ faults < MaxFaults /\ faults' = faults + 1
  BY DEF Break, Fault
<1>2. TypeOK'
  BY <1>1, NodeNetworkAssumption DEF IInv, TypeOK, process
<1>3. Tables'
  BY <1>1, TablesSame
<1>4. Ends' /\ FirstRound' /\ AimsApart'
  BY <1>1 DEF IInv, Ends, FirstRound, AimsApart, Aims, process
<1> QED
  BY <1>2, <1>3, <1>4 DEF IInv

-----------------------------------------------------------------------------
(* Every step keeps the invariant.                                         *)
LEMMA StepIInv == IInv /\ [Next]_vars => IInv'
<1> SUFFICES ASSUME IInv, [Next]_vars PROVE IInv'
  OBVIOUS
<1>1. ASSUME NEW n \in Node, Start(n) \/ Listen(n) \/ RefreshThread(n) \/ Crash(n)
      PROVE  IInv'
  BY <1>1, StartKeeps, ListenKeeps, RefreshKeeps, VisitKeeps, CrashKeeps DEF RefreshThread
<1>2. ASSUME NEW c \in Slot,
             \/ ConnectFails(c) \/ HandshakeFails(I(c)) \/ HandshakeFails(R(c))
             \/ LastOwner(I(c)) \/ LastOwner(R(c))
      PROVE  IInv'
  BY <1>2, SlotFacts, FailsKeep DEF ConnectFails, HandshakeFails, LastOwner
<1>3. ASSUME NEW c \in Slot, InitiatorThread(c) \/ ResponderThread(c) \/ Break(c)
      PROVE  IInv'
  BY <1>2, <1>3, SlotFacts, ConnectKeeps, RespondKeeps, UpKeeps, DisconnectKeeps, BreakKeeps
     DEF InitiatorThread, ResponderThread
<1>4. CASE CoordinatorRestart \/ \E k \in Keys : Expire(k)
  BY <1>4, ForgetKeeps
<1>5. CASE UNCHANGED vars
  <2>1. UNCHANGED <<run, up, listening, phase, todo, listed, st, who, dialed, okd, cut, hasty,
                    peers_, faults, slow>>
    BY <1>5 DEF vars, process, conns
  <2>2. TypeOK' /\ Ends' /\ FirstRound' /\ AimsApart' /\ Tables'
    BY <2>1 DEF IInv, TypeOK, Ends, FirstRound, AimsApart, Aims, Tables
  <2> QED
    BY <2>2 DEF IInv
<1>6. CASE \E e \in End : RecvEmpty(e)
  BY <1>6, DisconnectKeeps
<1> QED
  BY <1>1, <1>3, <1>4, <1>5, <1>6 DEF Next

(* The invariant holds in every reachable state.                           *)
THEOREM NetworkInvariant == Spec => []IInv
BY InitIInv, StepIInv, PTL DEF Spec

(* Every variable of the model keeps its type: a node only listens while   *)
(* it runs, and every key in a list, a table or a handshake is one that a  *)
(* process has drawn (main.cpp, run and run_daemon).                       *)
THEOREM NetworkTypeOK == Spec => []TypeOK
<1>1. IInv => TypeOK
  BY DEF IInv
<1> QED
  BY <1>1, NetworkInvariant, PTL

(* A sequence without repetition has as many places as members.            *)
LEMMA LenIsCardinality ==
    ASSUME NEW S, NEW s \in Seq(S), \A i, j \in DOMAIN s : s[i] = s[j] => i = j
    PROVE  Len(s) = Cardinality(ToSet(s))
<1>1. Len(s) \in Nat /\ DOMAIN s = 1 .. Len(s) /\ s \in [1 .. Len(s) -> S]
  BY LenProperties
<1>2. s \in Bijection(1 .. Len(s), ToSet(s))
  BY <1>1 DEF Bijection, Injection, Surjection, IsInjective, ToSet
<1>3. ExistsBijection(1 .. Len(s), ToSet(s))
  BY <1>2 DEF ExistsBijection
<1> QED
  BY <1>1, <1>3, FS_CountingElements

(* add_peer and remove_peer keep in peers_ exactly the connections whose   *)
(* thread is in recv_loop, each once, whichever of several connections to  *)
(* one peer ends first and however often processes are killed.             *)
THEOREM TableMatchesThreads == Spec => []TableIsThreads
<1>1. IInv => TableIsThreads
  BY LenIsCardinality DEF IInv, Tables, TableIsThreads
<1> QED
  BY <1>1, NetworkInvariant, PTL

(* The look into peers_ of the refresh thread keeps a node from connecting *)
(* twice to one peer, but for the two cases that the property names,       *)
(* although look, connection and add_peer are separate steps.              *)
THEOREM ExtraSessionsAreExplained == Spec => []ExtraSessionsExplained
<1>1. IInv => ExtraSessionsExplained
  <2> SUFFICES ASSUME IInv, NEW c \in Slot, NEW d \in Slot,
                      st[I(c)] = "up", dialed[c] = Peer(I(c)),
                      st[I(d)] = "up", dialed[d] = Peer(I(d)),
                      c[1] = d[1], Peer(I(c)) = Peer(I(d))
               PROVE  c = d \/ c \in hasty \/ d \in hasty
    BY DEF ExtraSessionsExplained
  <2>1. Aims(c) /\ Aims(d) /\ dialed[c] = dialed[d]
    BY SlotFacts DEF Aims, Peer
  <2> QED
    BY <2>1 DEF IInv, AimsApart
<1> QED
  BY <1>1, NetworkInvariant, PTL
=============================================================================
