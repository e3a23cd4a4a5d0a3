---------------------------- MODULE NodeNetwork ----------------------------
(***************************************************************************)
(* How nodes find each other and keep their tables of connections          *)
(* (node/node.cpp): run and run_daemon, accept_loop, connect_to,           *)
(* setup_peer, add_peer and remove_peer.                                   *)
(*                                                                         *)
(* A member of Node is an address; each start of a process at an address   *)
(* draws a new identity, so that key(n) counts the starts.  The            *)
(* coordinator is the set of the keys it lists: module Coordinator has it  *)
(* in detail, and proves that a running daemon stays listed.  A handshake  *)
(* is two steps, since the responder has its session before the initiator  *)
(* (module Handshake).                                                     *)
(*                                                                         *)
(* A slot <<n, m, i>> is room for one TCP connection from n to m, with an  *)
(* end "I" at n and an end "R" at m.  st[e] is where the thread of end e   *)
(* is: dial (in tcp_connect), hs (in the handshake), sess (has a session   *)
(* and asks the coordinator for the peer's port), up (in recv_loop, or on  *)
(* its way out to remove_peer), left (out of peers_, but the socket is     *)
(* open: it closes when the last shared_ptr to the peer_conn goes, and the *)
(* thread or a sender still has one), none.                                *)
(***************************************************************************)
EXTENDS PeerTable, FiniteSets, FiniteSetsExt, SequencesExt

CONSTANTS
    Node,
    Daemon,      \* the nodes that run run_daemon; the others run run
    Slot,        \* bound: connections that can exist at a time
    MaxRuns,     \* bound: starts of a process at each address
    MaxFaults,   \* bound: crashes, lost connections, failures of the coordinator
    MaxSlow      \* bound: refreshes that find a connection still being set up

ASSUME NodeNetworkAssumption ==
    /\ Daemon \subseteq Node
    /\ Slot \subseteq Node \X Node \X Nat
    /\ MaxRuns \in [Node -> Nat] /\ MaxFaults \in Nat /\ MaxSlow \in Nat

VARIABLES
    run, up, listening,   \* the process at an address
    phase, todo,          \* its main or refresh thread: keys still to go through
    listed,               \* keys that the coordinator lists
    st, who, dialed,      \* connections: threads, identities, the key that was dialled
    okd, cut,             \* slots whose responder has written OK, and that are lost
    hasty,                \* history: slots dialled while another was on its way to the same key
    peers_,               \* node::peers_, ends of slots
    faults, slow

process == <<run, up, listening, phase, todo>>
conns   == <<st, who, dialed, okd, cut, hasty>>
vars    == <<process, listed, conns, peers_, faults, slow>>

End == Slot \X {"I", "R"}
I(c) == <<c, "I">>
R(c) == <<c, "R">>
Other(e) == IF e[2] = "I" THEN R(e[1]) ELSE I(e[1])
At(e) == IF e[2] = "I" THEN e[1][1] ELSE e[1][2]

(* A fresh identity per start of the process (main.cpp).                   *)
key(n) == <<n, run[n]>>
Keys == UNION {{n} \X (0 .. MaxRuns[n]) : n \in Node}

(* sess.peer_identity_pk of the session at end e.                          *)
Peer(e) == who[Other(e)]

-----------------------------------------------------------------------------
Init ==
    /\ run = [n \in Node |-> 0] /\ up = [n \in Node |-> FALSE]
    /\ listening = [n \in Node |-> FALSE]
    /\ phase = [n \in Node |-> "boot"] /\ todo = [n \in Node |-> {}]
    /\ listed = {}
    /\ st = [e \in End |-> "none"] /\ who = [e \in End |-> <<At(e), 0>>]
    /\ dialed = [c \in Slot |-> <<c[2], 0>>]
    /\ okd = {} /\ cut = {} /\ hasty = {}
    /\ peers_ = [n \in Node |-> <<>>]
    /\ faults = 0 /\ slow = 0

Fault == faults < MaxFaults /\ faults' = faults + 1

(* n has dialled k and setup_peer has not yet added it.                    *)
UnderWay(n, c, k) == c[1] = n /\ dialed[c] = k /\ st[I(c)] \in {"dial", "hs"}

(* A process starts and calls coordinator_register_and_get.                *)
Start(n) ==
    /\ ~up[n] /\ run[n] < MaxRuns[n]
    /\ run' = [run EXCEPT ![n] = @ + 1]
    /\ up' = [up EXCEPT ![n] = TRUE]
    /\ phase' = [phase EXCEPT ![n] = "boot"]
    /\ \/ /\ listed' = listed \cup {<<n, run[n] + 1>>}
          /\ todo' = [todo EXCEPT ![n] = listed]
          /\ UNCHANGED faults
       \/ /\ Fault                     \* the coordinator cannot be reached: {}
          /\ UNCHANGED <<listed, todo>>
    /\ UNCHANGED <<listening, conns, peers_, slow>>

(* accept_loop has its server socket, some time after the registration.    *)
Listen(n) ==
    /\ up[n] /\ ~listening[n]
    /\ listening' = [listening EXCEPT ![n] = TRUE]
    /\ UNCHANGED <<run, up, phase, todo, listed, conns, peers_, faults, slow>>

(* Faulty variant: the refresh registers and throws the list away.         *)
Refresh_RegisterOnly(n) ==
    /\ n \in Daemon /\ up[n] /\ todo[n] = {}
    /\ phase' = [phase EXCEPT ![n] = "refresh"]
    /\ listed' = listed \cup {key(n)}
    /\ UNCHANGED <<run, up, listening, todo, conns, peers_, faults, slow>>

(* The refresh thread wakes up; that connections dialled before are not    *)
(* set up by then happens a bounded number of times.                       *)
Refresh(n) ==
    /\ n \in Daemon /\ up[n] /\ todo[n] = {}
    /\ IF \E c \in Slot, k \in Keys : UnderWay(n, c, k)
       THEN slow < MaxSlow /\ slow' = slow + 1
       ELSE UNCHANGED slow
    /\ phase' = [phase EXCEPT ![n] = "refresh"]
    /\ listed' = listed \cup {key(n)}
    /\ todo' = [todo EXCEPT ![n] = listed \ {key(n)}]
    /\ UNCHANGED <<run, up, listening, conns, peers_, faults>>

(* Faulty variant: a key that is already connected is dialled again.       *)
already_Never(n, k) == FALSE

(* The look into peers_ of the refresh thread.                             *)
already(n, k) == \E i \in DOMAIN peers_[n] : Peer(peers_[n][i]) = k

Free(c) == st[I(c)] = "none" /\ st[R(c)] = "none"

(* One key of the list: the first round dials every one, later rounds the  *)
(* ones not connected.  Nothing is dialled when no slot is free.           *)
Visit(n, k) ==
    /\ up[n] /\ k \in todo[n]
    /\ todo' = [todo EXCEPT ![n] = @ \ {k}]
    /\ LET slots == {c \in Slot : c[1] = n /\ c[2] = k[1] /\ Free(c)}
           skip  == slots = {} \/ (phase[n] = "refresh" /\ already(n, k))
       IN  \/ skip /\ UNCHANGED conns
           \/ /\ ~skip
              /\ LET c == CHOOSE c \in slots : \A d \in slots : c[3] <= d[3]
                 IN  /\ st' = [st EXCEPT ![I(c)] = "dial"]
                     /\ dialed' = [dialed EXCEPT ![c] = k]
                     /\ hasty' = IF \E b \in Slot : UnderWay(n, b, k) THEN hasty \cup {c}
                                 ELSE hasty
                     /\ UNCHANGED <<who, okd, cut>>
    /\ UNCHANGED <<run, up, listening, phase, listed, peers_, faults, slow>>

Set(e, s) == st' = [st EXCEPT ![e] = s]

(* The sockets of these ends are closed; a slot that no end uses any more  *)
(* is as it was at first.                                                  *)
Close(ends) ==
    LET used(e) == st[e] # "none" /\ e \notin ends
        freed   == {c \in Slot : ~used(I(c)) /\ ~used(R(c))}
    IN  /\ st' = [e \in End |-> IF e \in ends THEN "none" ELSE st[e]]
        /\ who' = [e \in End |-> IF e[1] \in freed THEN <<At(e), 0>> ELSE who[e]]
        /\ dialed' = [c \in Slot |-> IF c \in freed THEN <<c[2], 0>> ELSE dialed[c]]
        /\ okd' = okd \ freed /\ cut' = cut \ freed /\ hasty' = hasty \ freed

(* connect_to reaches the address; accept_loop hands the connection to a   *)
(* thread.  Whoever runs there is met: nobody compares it with the key.    *)
Connect(c) ==
    /\ st[I(c)] = "dial" /\ up[c[2]] /\ listening[c[2]]
    /\ st' = [st EXCEPT ![I(c)] = "hs", ![R(c)] = "hs"]
    /\ who' = [who EXCEPT ![I(c)] = key(c[1]), ![R(c)] = key(c[2])]
    /\ UNCHANGED <<process, listed, dialed, okd, cut, hasty, peers_, faults, slow>>

(* tcp_connect throws: nobody listens there.                               *)
ConnectFails(c) ==
    /\ st[I(c)] = "dial" /\ ~(up[c[2]] /\ listening[c[2]])
    /\ Close({I(c)})
    /\ UNCHANGED <<process, listed, peers_, faults, slow>>

(* handshake_as_responder returns a session, OK has been written.          *)
Respond(c) ==
    /\ st[R(c)] = "hs" /\ st[I(c)] = "hs" /\ c \notin cut
    /\ Set(R(c), "sess")
    /\ okd' = okd \cup {c}
    /\ UNCHANGED <<process, listed, who, dialed, cut, hasty, peers_, faults, slow>>

(* add_peer, and the thread enters recv_loop.                              *)
add_peer(e) ==
    /\ peers_' = [peers_ EXCEPT ![At(e)] = Append(@, e)]
    /\ Set(e, "up")

(* handshake_as_initiator returns a session.                               *)
InitiatorUp(c) ==
    /\ st[I(c)] = "hs" /\ c \in okd
    /\ add_peer(I(c))
    /\ UNCHANGED <<process, listed, who, dialed, okd, cut, hasty, faults, slow>>

(* setup_peer of the responder has asked the coordinator for the port,     *)
(* which is only displayed.                                                *)
ResponderUp(c) ==
    /\ st[R(c)] = "sess"
    /\ add_peer(R(c))
    /\ UNCHANGED <<process, listed, who, dialed, okd, cut, hasty, faults, slow>>

(* The other end has closed its socket, or the connection is lost.         *)
Gone(e) == st[Other(e)] = "none" \/ e[1] \in cut

(* The handshake fails and setup_peer returns.                             *)
HandshakeFails(e) ==
    /\ st[e] = "hs" /\ Gone(e)
    /\ Close({e})
    /\ UNCHANGED <<process, listed, peers_, faults, slow>>

(* Faulty variant: every connection to the same identity is removed.       *)
remove_peer_ByKey(e) ==
    peers_' = [peers_ EXCEPT ![At(e)] = SelectSeq(@, LAMBDA p : Peer(p) # Peer(e))]

(* The one connection is erased, and the ones behind it move up.           *)
remove_peer(e) ==
    peers_' = [peers_ EXCEPT ![At(e)] = erased(@, e)]

(* Faulty variant: a socket closed by the peer does not end recv_loop.     *)
Disconnect_IgnoresEof(e) ==
    /\ st[e] = "up" /\ e[1] \in cut
    /\ remove_peer(e)
    /\ Set(e, "left")
    /\ UNCHANGED <<process, listed, who, dialed, okd, cut, hasty, faults, slow>>

(* recv_loop has ended, and the peer is removed from the table.            *)
Disconnect(e) ==
    /\ st[e] = "up" /\ Gone(e)
    /\ remove_peer(e)
    /\ Set(e, "left")
    /\ UNCHANGED <<process, listed, who, dialed, okd, cut, hasty, faults, slow>>

(* The last owner of the peer_conn drops it: the thread that returns from  *)
(* setup_peer, or a sender that took its copy of peers_ before.            *)
LastOwner(e) ==
    /\ st[e] = "left"
    /\ Close({e})
    /\ UNCHANGED <<process, listed, peers_, faults, slow>>

-----------------------------------------------------------------------------
(* Faults.                                                                 *)

(* Faulty variant: the port stays open after the process.                  *)
Crash_KeepsPort(n) ==
    /\ up[n] /\ Fault
    /\ up' = [up EXCEPT ![n] = FALSE]
    /\ todo' = [todo EXCEPT ![n] = {}]
    /\ peers_' = [peers_ EXCEPT ![n] = <<>>]
    /\ Close({e \in End : At(e) = n})
    /\ UNCHANGED <<run, listening, phase, listed, slow>>

(* A process is killed: its sockets close and its memory is gone.          *)
Crash(n) ==
    /\ up[n] /\ Fault
    /\ up' = [up EXCEPT ![n] = FALSE]
    /\ listening' = [listening EXCEPT ![n] = FALSE]
    /\ todo' = [todo EXCEPT ![n] = {}]
    /\ peers_' = [peers_ EXCEPT ![n] = <<>>]
    /\ Close({e \in End : At(e) = n})
    /\ UNCHANGED <<run, phase, listed, slow>>

(* The network loses a connection, and both ends get to know.              *)
Break(c) ==
    /\ st[R(c)] # "none" /\ c \notin cut /\ Fault
    /\ cut' = cut \cup {c}
    /\ UNCHANGED <<process, listed, st, who, dialed, okd, hasty, peers_, slow>>

(* An empty message ends the recv_loop at one end of a healthy connection: *)
(* recv_msg takes it for a failure (run empty of module PeerLink).         *)
RecvEmpty(e) ==
    /\ st[e] = "up" /\ ~Gone(e) /\ Fault
    /\ remove_peer(e)
    /\ Set(e, "left")
    /\ UNCHANGED <<process, listed, who, dialed, okd, cut, hasty, slow>>

(* An entry becomes older than PEER_TTL, unless its daemon refreshes it.   *)
Expire(k) ==
    /\ k \in listed
    /\ ~(k[1] \in Daemon /\ up[k[1]] /\ k = key(k[1]))
    /\ listed' = listed \ {k}
    /\ UNCHANGED <<process, conns, peers_, faults, slow>>

(* The coordinator restarts with no entries.                               *)
CoordinatorRestart ==
    /\ listed # {} /\ Fault
    /\ listed' = {}
    /\ UNCHANGED <<process, conns, peers_, slow>>

-----------------------------------------------------------------------------
RefreshThread(n) == Refresh(n) \/ \E k \in Keys : Visit(n, k)
InitiatorThread(c) ==
    \/ Connect(c) \/ ConnectFails(c) \/ InitiatorUp(c) \/ HandshakeFails(I(c))
    \/ Disconnect(I(c)) \/ LastOwner(I(c))
ResponderThread(c) ==
    \/ Respond(c) \/ ResponderUp(c) \/ HandshakeFails(R(c))
    \/ Disconnect(R(c)) \/ LastOwner(R(c))

Next ==
    \/ \E n \in Node : Start(n) \/ Listen(n) \/ RefreshThread(n) \/ Crash(n)
    \/ \E c \in Slot : InitiatorThread(c) \/ ResponderThread(c) \/ Break(c)
    \/ \E e \in End : RecvEmpty(e)
    \/ \E k \in Keys : Expire(k)
    \/ CoordinatorRestart

(* Threads that can run do, a sleep of 10 s ends, and a sender that holds  *)
(* a connection that left peers_ comes back from its call and drops it     *)
(* (module PeerLink says when it may not).  Nothing is assumed of starts,  *)
(* of expiry and of faults.                                                *)
Fairness ==
    /\ \A n \in Node : WF_vars(Listen(n)) /\ WF_vars(RefreshThread(n))
    /\ \A c \in Slot : WF_vars(InitiatorThread(c)) /\ WF_vars(ResponderThread(c))

Spec == Init /\ [][Next]_vars /\ Fairness

-----------------------------------------------------------------------------
(* Every variable has its type.                                            *)
TypeOK ==
    /\ DOMAIN run = Node /\ (\A n \in Node : run[n] \in 0 .. MaxRuns[n]) /\ up \in [Node -> BOOLEAN]
    /\ listening \in [Node -> BOOLEAN] /\ \A n \in Node : listening[n] => up[n]
    /\ phase \in [Node -> {"boot", "refresh"}] /\ todo \in [Node -> SUBSET Keys]
    /\ listed \subseteq Keys
    /\ st \in [End -> {"none", "dial", "hs", "sess", "up", "left"}]
    /\ who \in [End -> Keys] /\ dialed \in [Slot -> Keys]
    /\ okd \subseteq Slot /\ cut \subseteq Slot /\ hasty \subseteq Slot
    /\ faults \in 0 .. MaxFaults /\ slow \in 0 .. MaxSlow

(* peers_ holds exactly the connections whose thread is in recv_loop or    *)
(* on its way to remove_peer, each once: LIST, SEND and broadcast find     *)
(* every connection that a thread serves, and no entry outlives its        *)
(* thread, whichever of several connections to one peer ends first.  (A    *)
(* sender's own copy of an entry may: state left.)                         *)
TableIsThreads ==
    \A n \in Node :
       /\ ToSet(peers_[n]) = {e \in End : At(e) = n /\ st[e] = "up"}
       /\ Len(peers_[n]) = Cardinality(ToSet(peers_[n]))

(* Why a node may have more than one connection of its own making to one   *)
(* peer: because the coordinator still listed an earlier run of that       *)
(* address, or because set-up took longer than the refresh period.  In     *)
(* every other case the look into peers_ keeps a node from dialling twice, *)
(* although look and connection are separate steps.                        *)
ExtraSessionsExplained ==
    \A c, d \in Slot :
       LET own(s) == st[I(s)] = "up" /\ dialed[s] = Peer(I(s))
       IN  own(c) /\ own(d) /\ c[1] = d[1] /\ Peer(I(c)) = Peer(I(d))
             => c = d \/ c \in hasty \/ d \in hasty

(* Both ends of some connection between the pair p are in recv_loop.       *)
Linked(p) ==
    \E c \in Slot : {c[1], c[2]} = p /\ st[I(c)] = "up" /\ st[R(c)] = "up"

(* The refresh "discovers nodes that registered after us" (run_daemon):    *)
(* two daemons that stay up end up connected and stay so, whatever was     *)
(* lost before, whoever started first and although a node registers before *)
(* it listens.                                                             *)
ConnectedEventually ==
    \A p \in kSubset(2, Daemon) : <>[](\A n \in p : up[n]) => <>[]Linked(p)

(* A connection whose other end is gone leaves peers_: in the end a node   *)
(* that stays up has none of them left.                                    *)
DeadLeave ==
    \A n \in Node : <>[]up[n] => <>[](\A e \in End : At(e) = n /\ st[e] = "up" => ~Gone(e))
=============================================================================
