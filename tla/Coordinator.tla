---------------------------- MODULE Coordinator ----------------------------
(***************************************************************************)
(* The coordinator (coordinator/coordinator.{hpp,cpp}) with the clients    *)
(* that use it: the refresh thread of every daemon, which runs             *)
(* coordinator_register_and_get at once and then every REFRESH seconds,    *)
(* and the threads of inbound connections, which run coordinator_get_peers *)
(* (node/node.cpp).  Nodes crash and restart with a fresh identity, the    *)
(* coordinator restarts empty, and connections are lost.                   *)
(*                                                                         *)
(* peers_     coordinator::peers_, under mu_: what a handler does while it *)
(*            holds mu_ is one step                                        *)
(* st, now    a client's request and the handler thread serving it; they   *)
(*            take turns on one connection, so one program counter tells   *)
(*            where the two are.  now is the clock that the handler read   *)
(* orphans    REGISTER frames whose sender died or gave up before they     *)
(*            were handled                                                 *)
(*                                                                         *)
(* TIME.  A node sleeps REFRESH between two attempts, and each attempt     *)
(* ends at most SLACK after the sleep; nothing is assumed of the handlers  *)
(* that serve lookups.  At most MaxFails attempts in a row fail.  wait[n]  *)
(* is what is left of the sleep and the SLACK.                             *)
(*                                                                         *)
(* History: grace[n] runs down to 0 while n and the coordinator stay up;   *)
(* fade[k] runs down to 0 from the death of k's process or, if later, from *)
(* the handling of a REGISTER that it left behind.  When c's request       *)
(* arrived, must[c] was the keys whose grace was over, and dead[c] the     *)
(* keys with an entry that had faded.                                      *)
(***************************************************************************)
EXTENDS Naturals, Sequences

CONSTANTS
    Node,        \* daemons, each with its own address
    Lookup,      \* threads that only ask for the list
    PEER_TTL, REFRESH, SLACK,
    MaxFails,
    MaxIds,      \* bound: identities generated
    MaxRestarts, \* bound: restarts of the coordinator
    MaxClock     \* bound: the clock stops here

(* The longest time between two registrations of a live node: SLACK in the *)
(* first attempt, then MaxFails attempts that fail and one that does not.  *)
MaxGap == SLACK + (MaxFails + 1) * (REFRESH + SLACK)

ASSUME CoordinatorAssumption ==
    /\ REFRESH \in Nat \ {0} /\ SLACK \in Nat /\ MaxFails \in Nat
    /\ PEER_TTL \in Nat /\ MaxGap <= PEER_TTL
    /\ MaxIds \in Nat /\ MaxRestarts \in Nat /\ MaxClock \in Nat
    /\ Node \cap Lookup = {}

VARIABLES
    peers_, clock, alive, id, ids, wait, fails, st, now, reply, orphans, restarts,
    grace, must, fade, dead

nodes  == <<alive, id, ids, wait, fails>>
client == <<st, now, reply>>
ghosts == <<grace, must, fade, dead>>
vars   == <<peers_, clock, nodes, client, orphans, restarts, ghosts>>

Client == Node \cup Lookup
PubKey == Node \X (1..MaxIds)

(* The identity of node n's present run; no two runs have the same.        *)
key(n) == <<n, id[n]>>

(* The run whose identity is k is still up.                                *)
Living(k) == \E n \in Node : alive[n] /\ k = key(n)

Keys(ps) == {ps[i].pubkey : i \in DOMAIN ps}

-----------------------------------------------------------------------------
Init ==
    /\ peers_ = <<>> /\ clock = 0
    /\ alive = [n \in Node |-> FALSE] /\ id = [n \in Node |-> 0] /\ ids = 0
    /\ wait = [n \in Node |-> 0] /\ fails = [n \in Node |-> 0]
    /\ st = [c \in Client |-> "idle"] /\ now = [c \in Client |-> 0]
    /\ reply = [c \in Client |-> {}]
    /\ orphans = {} /\ restarts = 0
    /\ grace = [n \in Node |-> 0] /\ must = [c \in Client |-> {}]
    /\ fade = [k \in PubKey |-> 0] /\ dead = [c \in Client |-> {}]

(* main: a process starts, with an identity generated for this run, and    *)
(* registers at once.                                                      *)
Start(n) ==
    /\ ~alive[n] /\ ids < MaxIds
    /\ alive' = [alive EXCEPT ![n] = TRUE]
    /\ ids' = ids + 1
    /\ id' = [id EXCEPT ![n] = ids']
    /\ wait' = [wait EXCEPT ![n] = SLACK]
    /\ grace' = [grace EXCEPT ![n] = MaxGap + 1]
    /\ UNCHANGED <<peers_, clock, fails, client, orphans, restarts, must, fade, dead>>

(* The client's side of a connection is gone; the handler's thread ends.   *)
Hangup(c) ==
    /\ st' = [st EXCEPT ![c] = "idle"]
    /\ now' = [now EXCEPT ![c] = 0]
    /\ reply' = [reply EXCEPT ![c] = {}]
    /\ must' = [must EXCEPT ![c] = {}]
    /\ dead' = [dead EXCEPT ![c] = {}]

(* The REGISTER that c has written and nobody has handled is lost with the *)
(* connection, or reached the coordinator and will still be handled.       *)
Abandon(c) ==
    \/ UNCHANGED orphans
    \/ c \in Node /\ st[c] = "reg" /\ orphans' = orphans \cup {key(c)}

(* Faulty variant: the connections of a process that died stay open.       *)
Crash_KeepsConnection(n) ==
    /\ alive[n]
    /\ alive' = [alive EXCEPT ![n] = FALSE]
    /\ wait' = [wait EXCEPT ![n] = 0]
    /\ fails' = [fails EXCEPT ![n] = 0]
    /\ grace' = [grace EXCEPT ![n] = 0]
    /\ fade' = [fade EXCEPT ![key(n)] = PEER_TTL + 1]
    /\ UNCHANGED <<peers_, clock, id, ids, client, orphans, restarts, must, dead>>

(* The process is killed.                                                  *)
Crash(n) ==
    /\ alive[n]
    /\ alive' = [alive EXCEPT ![n] = FALSE]
    /\ wait' = [wait EXCEPT ![n] = 0]
    /\ fails' = [fails EXCEPT ![n] = 0]
    /\ grace' = [grace EXCEPT ![n] = 0]
    /\ fade' = [fade EXCEPT ![key(n)] = PEER_TTL + 1]
    /\ Hangup(n)
    /\ Abandon(n)
    /\ UNCHANGED <<peers_, clock, id, ids, restarts>>

-----------------------------------------------------------------------------
(* coordinator_register_and_get and coordinator_get_peers: the client.     *)

(* The thread has slept enough, connects and writes REGISTER ...           *)
SendRegister(n) ==
    /\ alive[n] /\ st[n] = "idle" /\ wait[n] <= SLACK
    /\ st' = [st EXCEPT ![n] = "reg"]
    /\ UNCHANGED <<peers_, clock, nodes, now, reply, orphans, restarts, ghosts>>

(* ... reads OK and writes GET_PEERS ...                                   *)
RecvOk(n) ==
    /\ st[n] = "ok"
    /\ st' = [st EXCEPT ![n] = "get"]
    /\ UNCHANGED <<peers_, clock, nodes, now, reply, orphans, restarts, ghosts>>

(* coordinator_get_peers writes GET_PEERS straight away.                   *)
SendGetPeers(c) ==
    /\ c \in Lookup /\ st[c] = "idle"
    /\ st' = [st EXCEPT ![c] = "get"]
    /\ UNCHANGED <<peers_, clock, nodes, now, reply, orphans, restarts, ghosts>>

(* The attempt is over; a refresh thread sleeps before the next one.       *)
Over(c, failed) ==
    /\ Hangup(c)
    /\ wait' = [n \in Node |-> IF n = c THEN REFRESH + SLACK ELSE wait[n]]
    /\ fails' = [n \in Node |-> IF n # c THEN fails[n] ELSE IF failed THEN fails[n] + 1 ELSE 0]

(* ... and reads the list.                                                 *)
RecvList(c) ==
    /\ st[c] = "list"
    /\ Over(c, FALSE)
    /\ UNCHANGED <<peers_, clock, alive, id, ids, orphans, restarts, grace, fade>>

CanFail(c) == c \in Node => fails[c] < MaxFails

(* The connection cannot be made or is lost: the client gets no peers.     *)
Drop(c) ==
    /\ st[c] # "idle" /\ CanFail(c)
    /\ Over(c, TRUE)
    /\ Abandon(c)
    /\ UNCHANGED <<peers_, clock, alive, id, ids, restarts, grace, fade>>

-----------------------------------------------------------------------------
(* coordinator::run: the handler thread.                                   *)

(* Faulty variant: a known key gets a second entry.                        *)
Registered_NoFind(ps, k) ==
    Append(ps, [pubkey |-> k, last_seen |-> clock])

(* Faulty variant: the old entry of a key is erased and pushed again.      *)
Registered_EraseAndPush(ps, k) ==
    Append(SelectSeq(ps, LAMBDA p : p.pubkey # k), [pubkey |-> k, last_seen |-> clock])

(* The registration under mu_: the first entry of the key is refreshed, or *)
(* a new entry is pushed at the back.                                      *)
Registered(ps, k) ==
    IF k \in Keys(ps)
    THEN LET i == CHOOSE j \in DOMAIN ps :
                    ps[j].pubkey = k /\ \A h \in 1..j-1 : ps[h].pubkey # k
         IN  [ps EXCEPT ![i] = [pubkey |-> k, last_seen |-> clock]]
    ELSE Append(ps, [pubkey |-> k, last_seen |-> clock])

HandleRegister(n) ==
    /\ st[n] = "reg"
    /\ peers_' = Registered(peers_, key(n))
    /\ st' = [st EXCEPT ![n] = "ok"]
    /\ UNCHANGED <<clock, nodes, now, reply, orphans, restarts, ghosts>>

HandleOrphan(k) ==
    /\ peers_' = Registered(peers_, k)
    /\ orphans' = orphans \ {k}
    /\ fade' = [fade EXCEPT ![k] = IF Living(k) THEN 0 ELSE PEER_TTL + 1]
    /\ UNCHANGED <<clock, nodes, client, restarts, grace, must, dead>>

(* GET_PEERS: the clock is read before mu_ is taken ...                    *)
HandleGetNow(c) ==
    /\ st[c] = "get"
    /\ now' = [now EXCEPT ![c] = clock]
    /\ st' = [st EXCEPT ![c] = "got_now"]
    /\ must' = [must EXCEPT ![c] = {key(n) : n \in {m \in Node : alive[m] /\ grace[m] = 0}}]
    /\ dead' = [dead EXCEPT ![c] =
                  {k \in Keys(peers_) \ orphans : ~Living(k) /\ fade[k] = 0}]
    /\ UNCHANGED <<peers_, clock, nodes, reply, orphans, restarts, grace, fade>>

(* Faulty variant: an unsigned age, huge for an entry newer than now.      *)
Fresh_Unsigned(t, last_seen) == last_seen <= t /\ t - last_seen <= PEER_TTL

(* now - last_seen <= PEER_TTL, a signed duration.                         *)
Fresh(t, last_seen) == t <= last_seen + PEER_TTL

(* Faulty variant: the age is not looked at.                               *)
Snapshot_All(ps, t) == Keys(ps)

(* The keys of the entries that are copied into the answer.                *)
Snapshot(ps, t) == {ps[i].pubkey : i \in {j \in DOMAIN ps : Fresh(t, ps[j].last_seen)}}

(* ... and the fresh entries are copied while mu_ is held, then sent.      *)
HandleGetPeers(c) ==
    /\ st[c] = "got_now"
    /\ st' = [st EXCEPT ![c] = "list"]
    /\ reply' = [reply EXCEPT ![c] = Snapshot(peers_, now[c])]
    /\ UNCHANGED <<peers_, clock, nodes, now, orphans, restarts, ghosts>>

(* The coordinator's process restarts: nothing is persisted, and every     *)
(* connection is lost.                                                     *)
CoordinatorRestart ==
    /\ restarts < MaxRestarts
    /\ \A c \in Client : st[c] # "idle" => CanFail(c)
    /\ restarts' = restarts + 1
    /\ peers_' = <<>> /\ orphans' = {}
    /\ st' = [c \in Client |-> "idle"]
    /\ now' = [c \in Client |-> 0]
    /\ reply' = [c \in Client |-> {}]
    /\ wait' = [n \in Node |-> IF st[n] # "idle" THEN REFRESH + SLACK ELSE wait[n]]
    /\ fails' = [n \in Node |-> IF st[n] # "idle" THEN fails[n] + 1 ELSE fails[n]]
    /\ grace' = [n \in Node |-> IF alive[n] THEN MaxGap + 1 ELSE 0]
    /\ must' = [c \in Client |-> {}]
    /\ fade' = [k \in PubKey |-> 0]
    /\ dead' = [c \in Client |-> {}]
    /\ UNCHANGED <<clock, alive, id, ids>>

-----------------------------------------------------------------------------
Less(x) == IF x = 0 THEN 0 ELSE x - 1

(* A second passes, unless a live node would exceed SLACK.                 *)
Tick ==
    /\ clock < MaxClock
    /\ \A n \in Node : alive[n] => wait[n] > 0
    /\ clock' = clock + 1
    /\ wait' = [n \in Node |-> Less(wait[n])]
    /\ grace' = [n \in Node |-> Less(grace[n])]
    /\ fade' = [k \in PubKey |-> Less(fade[k])]
    /\ UNCHANGED <<peers_, alive, id, ids, fails, client, orphans, restarts, must, dead>>

Next ==
    \/ \E n \in Node :
          Start(n) \/ Crash(n) \/ SendRegister(n) \/ RecvOk(n) \/ HandleRegister(n)
    \/ \E k \in orphans : HandleOrphan(k)
    \/ \E c \in Client :
          SendGetPeers(c) \/ RecvList(c) \/ Drop(c) \/ HandleGetNow(c) \/ HandleGetPeers(c)
    \/ CoordinatorRestart
    \/ Tick

Spec == Init /\ [][Next]_vars

-----------------------------------------------------------------------------
(* Every entry names a key of a node and a time that has passed.           *)
TypeOK ==
    /\ peers_ \in Seq([pubkey : PubKey, last_seen : 0..clock])
    /\ clock \in 0..MaxClock /\ restarts \in 0..MaxRestarts
    /\ alive \in [Node -> BOOLEAN] /\ id \in [Node -> 0..ids] /\ ids \in 0..MaxIds
    /\ wait \in [Node -> 0..REFRESH+SLACK] /\ fails \in [Node -> 0..MaxFails]
    /\ st \in [Client -> {"idle", "reg", "ok", "get", "got_now", "list"}]
    /\ now \in [Client -> 0..clock]
    /\ reply \in [Client -> SUBSET PubKey]
    /\ orphans \subseteq PubKey
    /\ \A n \in Node : /\ st[n] # "idle" => alive[n]
                       /\ alive[n] => id[n] >= 1

(* A key has one entry, however many handler threads register it at once   *)
(* and however often ("Nodes may re-register to refresh their entry").     *)
UniqueKeys ==
    \A i, j \in DOMAIN peers_ : peers_[i].pubkey = peers_[j].pubkey => i = j

Answered(c) == st[c] = "got_now" /\ st'[c] = "list"

(* A daemon that died leaves the lists, although nothing removes its       *)
(* entry: a list holds no key whose process had been dead for more than    *)
(* PEER_TTL when the request arrived.  A REGISTER that the process left    *)
(* behind, on its way to the coordinator or waiting for mu_, counts as a   *)
(* last sign of life when it is handled.                                   *)
DeadAreForgotten ==
    [][\A c \in Client : Answered(c) => dead[c] \cap reply'[c] = {}]_vars

(* A daemon that had been running, with the coordinator up, for more than  *)
(* MaxGap when a request arrived is in the list that answers it: although  *)
(* refresh attempts may fail, the coordinator may have restarted empty     *)
(* before, and registrations may slip in between the handler's reading of  *)
(* the clock and its taking of the lock.                                   *)
LiveAlwaysListed ==
    [][\A c \in Client : Answered(c) => must[c] \subseteq reply'[c]]_vars

(* A registration never makes an entry older, and only a restart of the    *)
(* coordinator removes one.                                                *)
EntriesOnlyRefresh ==
    [][restarts' = restarts =>
          /\ Len(peers_') >= Len(peers_)
          /\ \A i \in DOMAIN peers_ :
                /\ peers_'[i].pubkey = peers_[i].pubkey
                /\ peers_'[i].last_seen >= peers_[i].last_seen]_vars

=============================================================================
