-------------------------- MODULE CoordinatorProofs --------------------------
(***************************************************************************)
(* Proofs about Coordinator, for any set of nodes and lookups and any      *)
(* timing constants.                                                       *)
(***************************************************************************)
EXTENDS Coordinator, Integers, TLAPS

Entry == [pubkey : PubKey, last_seen : 0..clock]

Unique(ps) == \A i, j \in DOMAIN ps : ps[i].pubkey = ps[j].pubkey => i = j

(* A registration keeps the entries where they are, refreshes at most one  *)
(* of them or adds one at the back, and never gives a key a second entry.  *)
LEMMA RegisteredKeeps ==
  ASSUME clock \in Nat, NEW ps \in Seq(Entry), NEW k \in PubKey, Unique(ps)
  PROVE  /\ Registered(ps, k) \in Seq(Entry)
         /\ Unique(Registered(ps, k))
         /\ Len(Registered(ps, k)) >= Len(ps)
         /\ \A i \in DOMAIN ps :
               /\ Registered(ps, k)[i].pubkey = ps[i].pubkey
               /\ Registered(ps, k)[i].last_seen >= ps[i].last_seen
<1> DEFINE e == [pubkey |-> k, last_seen |-> clock]
<1>1. e \in Entry
  BY DEF Entry
<1>2. \A i \in DOMAIN ps : ps[i] \in Entry /\ ps[i].last_seen \in 0..clock
  <2>1. \A i \in DOMAIN ps : ps[i] \in Entry
    OBVIOUS
  <2> QED
    BY <2>1 DEF Entry
<1>3. CASE k \in Keys(ps)
  <2>1. PICK i \in DOMAIN ps : ps[i].pubkey = k
    BY <1>3 DEF Keys
  <2>2. \A h \in 1..i-1 : ps[h].pubkey # k
    BY <2>1 DEF Unique
  <2> DEFINE c == CHOOSE j \in DOMAIN ps :
                    ps[j].pubkey = k /\ \A h \in 1..j-1 : ps[h].pubkey # k
  <2>3. c \in DOMAIN ps /\ ps[c].pubkey = k
    BY <2>1, <2>2
  <2>4. Registered(ps, k) = [ps EXCEPT ![c] = e]
    BY <1>3 DEF Registered
  <2> HIDE DEF c
  <2>5. [ps EXCEPT ![c] = e] \in Seq(Entry) /\ DOMAIN [ps EXCEPT ![c] = e] = DOMAIN ps
    BY <1>1, <2>3
  <2>6. Len([ps EXCEPT ![c] = e]) = Len(ps)
    BY <2>3
  <2>7. \A i1 \in DOMAIN ps : [ps EXCEPT ![c] = e][i1].pubkey = ps[i1].pubkey
    BY <2>3
  <2>8. \A i1 \in DOMAIN ps : [ps EXCEPT ![c] = e][i1].last_seen >= ps[i1].last_seen
    BY <1>2, <2>3
  <2>9. Unique([ps EXCEPT ![c] = e])
    BY <2>5, <2>7 DEF Unique
  <2> QED
    BY <2>4, <2>5, <2>6, <2>7, <2>8, <2>9
<1>4. CASE k \notin Keys(ps)
  <2>1. Registered(ps, k) = Append(ps, e)
    BY <1>4 DEF Registered
  <2>2. /\ Append(ps, e) \in Seq(Entry)
        /\ DOMAIN Append(ps, e) = DOMAIN ps \cup {Len(ps) + 1}
        /\ Append(ps, e)[Len(ps) + 1] = e
        /\ \A i \in DOMAIN ps : Append(ps, e)[i] = ps[i]
        /\ Len(Append(ps, e)) = Len(ps) + 1
    BY <1>1
  <2>3. \A i \in DOMAIN ps : ps[i].pubkey # k
    BY <1>4 DEF Keys
  <2>4. Unique(Append(ps, e))
    BY <2>2, <2>3 DEF Unique
  <2>5. \A i \in DOMAIN ps : ps[i].last_seen >= ps[i].last_seen
    BY <1>2
  <2> QED
    BY <2>1, <2>2, <2>4, <2>5
<1> QED
  BY <1>3, <1>4

-----------------------------------------------------------------------------
(* TypeOK with a named type of entries.                                    *)
LEMMA EntriesTyped == TypeOK => peers_ \in Seq(Entry) /\ clock \in Nat
BY CoordinatorAssumption DEF TypeOK, Entry

(* A handler that registers a key keeps the entries typed and unique.      *)
LEMMA RegisterStep ==
  ASSUME TypeOK, UniqueKeys, NEW k \in PubKey,
         peers_' = Registered(peers_, k), clock' = clock
  PROVE  /\ peers_' \in Seq([pubkey : PubKey, last_seen : 0..clock'])
         /\ UniqueKeys'
         /\ Len(peers_') >= Len(peers_)
         /\ \A i \in DOMAIN peers_ :
               /\ peers_'[i].pubkey = peers_[i].pubkey
               /\ peers_'[i].last_seen >= peers_[i].last_seen
<1>1. peers_ \in Seq(Entry) /\ clock \in Nat
  BY EntriesTyped
<1>2. Unique(peers_)
  BY DEF UniqueKeys, Unique
<1>3. /\ Registered(peers_, k) \in Seq(Entry)
      /\ Unique(Registered(peers_, k))
      /\ Len(Registered(peers_, k)) >= Len(peers_)
      /\ \A i \in DOMAIN peers_ :
            /\ Registered(peers_, k)[i].pubkey = peers_[i].pubkey
            /\ Registered(peers_, k)[i].last_seen >= peers_[i].last_seen
  BY <1>1, <1>2, RegisteredKeeps
<1>4. Unique(peers_') /\ peers_' \in Seq([pubkey : PubKey, last_seen : 0..clock'])
  BY <1>3 DEF Entry
<1> QED
  BY <1>3, <1>4 DEF UniqueKeys, Unique

(* What a restarting or passing clock does to entries: nothing.            *)
LEMMA ClockStep ==
  ASSUME TypeOK, clock' = clock + 1, peers_' = peers_
  PROVE  peers_' \in Seq([pubkey : PubKey, last_seen : 0..clock'])
<1>1. clock \in Nat
  BY EntriesTyped
<1>2. [pubkey : PubKey, last_seen : 0..clock] \subseteq [pubkey : PubKey, last_seen : 0..clock']
  BY <1>1
<1> DEFINE Old == [pubkey : PubKey, last_seen : 0..clock]
           New == [pubkey : PubKey, last_seen : 0..clock']
<1>3. peers_ \in Seq(Old) /\ Old \subseteq New
  BY <1>2 DEF TypeOK
<1> HIDE DEF Old, New
<1>4. peers_ \in Seq(New)
  BY <1>3
<1> QED
  BY <1>4 DEF New

IInv == TypeOK /\ UniqueKeys

(* The parts of TypeOK that an action on one client can disturb.           *)
LEMMA NodesAreClients == Node \subseteq Client
BY DEF Client

(* Every step of the nodes, the clients and the coordinator keeps it.      *)
LEMMA StepKeepsIInv == IInv /\ [Next]_vars => IInv'
<1> SUFFICES ASSUME IInv, [Next]_vars PROVE IInv'
  OBVIOUS
<1> USE CoordinatorAssumption, NodesAreClients
<1>0. TypeOK /\ UniqueKeys /\ clock \in Nat
  BY EntriesTyped DEF IInv
<1>1. ASSUME NEW n \in Node, Start(n) PROVE IInv'
  <2>1. TypeOK'
    BY <1>0, <1>1 DEF Start, TypeOK, client
  <2> QED
    BY <1>0, <1>1, <2>1 DEF Start, IInv, UniqueKeys
<1>2. ASSUME NEW n \in Node, Crash(n) PROVE IInv'
  <2>1. key(n) \in PubKey
    BY <1>0, <1>2 DEF Crash, TypeOK, key, PubKey
  <2>2. orphans' \subseteq PubKey
    BY <1>0, <1>2, <2>1 DEF Crash, Abandon, TypeOK
  <2>3. /\ st' = [st EXCEPT ![n] = "idle"] /\ now' = [now EXCEPT ![n] = 0]
        /\ reply' = [reply EXCEPT ![n] = {}]
    BY <1>2 DEF Crash, Hangup
  <2>4. /\ alive' = [alive EXCEPT ![n] = FALSE] /\ wait' = [wait EXCEPT ![n] = 0]
        /\ fails' = [fails EXCEPT ![n] = 0]
        /\ UNCHANGED <<peers_, clock, id, ids, restarts>>
    BY <1>2 DEF Crash
  <2> QED
    BY <1>0, <2>2, <2>3, <2>4 DEF IInv, TypeOK, UniqueKeys
<1>3. ASSUME NEW n \in Node, SendRegister(n) PROVE IInv'
  BY <1>0, <1>3 DEF SendRegister, IInv, TypeOK, UniqueKeys, nodes
<1>4. ASSUME NEW n \in Node, RecvOk(n) PROVE IInv'
  BY <1>0, <1>4 DEF RecvOk, IInv, TypeOK, UniqueKeys, nodes
<1>5. ASSUME NEW n \in Node, HandleRegister(n) PROVE IInv'
  <2>1. key(n) \in PubKey
    BY <1>0, <1>5 DEF HandleRegister, TypeOK, key, PubKey
  <2>2. peers_' = Registered(peers_, key(n)) /\ clock' = clock
    BY <1>5 DEF HandleRegister
  <2>3. peers_' \in Seq([pubkey : PubKey, last_seen : 0..clock']) /\ UniqueKeys'
    BY <1>0, <2>1, <2>2, RegisterStep
  <2> QED
    BY <1>0, <1>5, <2>3 DEF HandleRegister, IInv, TypeOK, nodes
<1>6. ASSUME NEW k \in orphans, HandleOrphan(k) PROVE IInv'
  <2>1. k \in PubKey
    BY <1>0, <1>6 DEF TypeOK
  <2>2. peers_' = Registered(peers_, k) /\ clock' = clock
    BY <1>6 DEF HandleOrphan
  <2>3. peers_' \in Seq([pubkey : PubKey, last_seen : 0..clock']) /\ UniqueKeys'
    BY <1>0, <2>1, <2>2, RegisterStep
  <2> QED
    BY <1>0, <1>6, <2>3 DEF HandleOrphan, IInv, TypeOK, nodes, client
<1>7. ASSUME NEW c \in Client, SendGetPeers(c) PROVE IInv'
  <2>1. c \notin Node
    BY <1>7 DEF SendGetPeers
  <2> QED
    BY <1>0, <1>7, <2>1 DEF SendGetPeers, IInv, TypeOK, UniqueKeys, nodes
<1>8. ASSUME NEW c \in Client, NEW failed \in BOOLEAN,
             failed => CanFail(c), Over(c, failed),
             orphans' \subseteq PubKey,
             UNCHANGED <<peers_, clock, alive, id, ids, restarts, grace>>
      PROVE  IInv'
  <2>1. wait' \in [Node -> 0..REFRESH+SLACK]
    BY <1>0, <1>8 DEF Over, TypeOK
  <2>2. fails' \in [Node -> 0..MaxFails]
    BY <1>0, <1>8 DEF Over, CanFail, TypeOK
  <2>3. /\ st' = [st EXCEPT ![c] = "idle"] /\ now' = [now EXCEPT ![c] = 0]
        /\ reply' = [reply EXCEPT ![c] = {}]
    BY <1>8 DEF Over, Hangup
  <2> QED
    BY <1>0, <1>8, <2>1, <2>2, <2>3 DEF IInv, TypeOK, UniqueKeys
<1>9. ASSUME NEW c \in Client, RecvList(c) PROVE IInv'
  BY <1>0, <1>8, <1>9 DEF RecvList, TypeOK
<1>10. ASSUME NEW c \in Client, Drop(c) PROVE IInv'
  <2>1. c \in Node /\ st[c] = "reg" => key(c) \in PubKey
    BY <1>0 DEF TypeOK, key, PubKey
  <2>2. orphans' \subseteq PubKey
    BY <1>0, <1>10, <2>1 DEF Drop, Abandon, TypeOK
  <2> QED
    BY <1>8, <1>10, <2>2 DEF Drop
<1>11. ASSUME NEW c \in Client, HandleGetNow(c) PROVE IInv'
  BY <1>0, <1>11 DEF HandleGetNow, IInv, TypeOK, UniqueKeys, nodes
<1>12. ASSUME NEW c \in Client, HandleGetPeers(c) PROVE IInv'
  <2>1. peers_ \in Seq(Entry) /\ \A i \in DOMAIN peers_ : peers_[i] \in Entry
    BY <1>0, EntriesTyped
  <2>2. Snapshot(peers_, now[c]) \subseteq PubKey
    BY <2>1 DEF Snapshot, Entry
  <2> QED
    BY <1>0, <1>12, <2>2 DEF HandleGetPeers, IInv, TypeOK, UniqueKeys, nodes
<1>13. CASE CoordinatorRestart
  <2>1. peers_' = <<>> /\ clock' = clock /\ orphans' = {}
    BY <1>13 DEF CoordinatorRestart
  <2>2. peers_' \in Seq([pubkey : PubKey, last_seen : 0..clock']) /\ UniqueKeys'
    BY <2>1 DEF UniqueKeys
  <2>3. wait' \in [Node -> 0..REFRESH+SLACK] /\ fails' \in [Node -> 0..MaxFails]
    BY <1>0, <1>13 DEF CoordinatorRestart, CanFail, TypeOK
  <2> QED
    BY <1>0, <1>13, <2>1, <2>2, <2>3 DEF CoordinatorRestart, IInv, TypeOK
<1>14. CASE Tick
  <2>1. peers_' \in Seq([pubkey : PubKey, last_seen : 0..clock'])
    BY <1>0, <1>14, ClockStep DEF Tick
  <2>2. clock' \in 0..MaxClock /\ \A t \in 0..clock : t \in 0..clock'
    BY <1>0, <1>14 DEF Tick, TypeOK
  <2>3. wait' \in [Node -> 0..REFRESH+SLACK]
    BY <1>0, <1>14 DEF Tick, Less, TypeOK
  <2>4. now' \in [Client -> 0..clock']
    BY <1>0, <1>14, <2>2 DEF Tick, TypeOK, client
  <2> QED
    BY <1>0, <1>14, <2>1, <2>2, <2>3, <2>4 DEF Tick, IInv, TypeOK, UniqueKeys, client
<1>15. CASE UNCHANGED vars
  BY <1>0, <1>15 DEF vars, nodes, client, IInv, TypeOK, UniqueKeys
<1> QED
  BY <1>1, <1>2, <1>3, <1>4, <1>5, <1>6, <1>7, <1>9, <1>10, <1>11, <1>12, <1>13, <1>14, <1>15
     DEF Next

(* The entries stay well typed, and a key never has two of them.           *)
THEOREM UniqueKeysAlways == Spec => [](TypeOK /\ UniqueKeys)
<1>1. Init => IInv
  <2> SUFFICES ASSUME Init PROVE IInv
    OBVIOUS
  <2>1. peers_ \in Seq([pubkey : PubKey, last_seen : 0..clock])
    BY DEF Init
  <2> QED
    BY <2>1, CoordinatorAssumption, NodesAreClients DEF Init, IInv, TypeOK, UniqueKeys
<1> QED
  BY <1>1, StepKeepsIInv, PTL DEF Spec, IInv

(* The types, for every number of nodes and every TTL: the list and the    *)
(* replies name keys that a node may have, the list at times that have     *)
(* passed, and only a node that runs has a request under way.              *)
THEOREM CoordinatorTypeOK == Spec => []TypeOK
BY UniqueKeysAlways, PTL

-----------------------------------------------------------------------------
(* Within one run of the coordinator, every step leaves the entries where  *)
(* they are or registers one key.                                          *)
LEMMA EntriesStep ==
  ASSUME IInv, [Next]_vars, restarts' = restarts
  PROVE  /\ Len(peers_') >= Len(peers_)
         /\ \A i \in DOMAIN peers_ :
               /\ i \in DOMAIN peers_'
               /\ peers_'[i].pubkey = peers_[i].pubkey
               /\ peers_'[i].last_seen >= peers_[i].last_seen
<1>0. peers_ \in Seq(Entry) /\ clock \in Nat /\ TypeOK /\ UniqueKeys
  BY EntriesTyped DEF IInv
<1>1. CASE peers_' = peers_
  <2>1. \A i \in DOMAIN peers_ : peers_[i] \in Entry
    BY <1>0
  <2>2. \A i \in DOMAIN peers_ : peers_[i].last_seen \in Nat
    BY <1>0, <2>1 DEF Entry
  <2> QED
    BY <1>0, <1>1, <2>2
<1>2. ASSUME NEW k \in PubKey, peers_' = Registered(peers_, k), clock' = clock
      PROVE  /\ Len(peers_') >= Len(peers_)
             /\ \A i \in DOMAIN peers_ :
                   /\ i \in DOMAIN peers_'
                   /\ peers_'[i].pubkey = peers_[i].pubkey
                   /\ peers_'[i].last_seen >= peers_[i].last_seen
  <2>1. /\ peers_' \in Seq([pubkey : PubKey, last_seen : 0..clock'])
        /\ Len(peers_') >= Len(peers_)
        /\ \A i \in DOMAIN peers_ :
              /\ peers_'[i].pubkey = peers_[i].pubkey
              /\ peers_'[i].last_seen >= peers_[i].last_seen
    BY <1>0, <1>2, RegisterStep
  <2>2. \A i \in DOMAIN peers_ : i \in DOMAIN peers_'
    BY <1>0, <2>1
  <2> QED
    BY <2>1, <2>2
<1>3. CASE \E n \in Node : HandleRegister(n)
  <2>1. PICK n \in Node : HandleRegister(n)
    BY <1>3
  <2>2. key(n) \in PubKey
    BY <1>0, <2>1, CoordinatorAssumption DEF HandleRegister, TypeOK, key, PubKey
  <2> QED
    BY <1>2, <2>1, <2>2 DEF HandleRegister
<1>4. CASE \E k \in orphans : HandleOrphan(k)
  BY <1>0, <1>2, <1>4 DEF HandleOrphan, TypeOK
<1>5. CASE CoordinatorRestart
  <2>1. restarts' = restarts + 1 /\ restarts < MaxRestarts
    BY <1>5 DEF CoordinatorRestart
  <2> QED
    BY <1>0, <2>1 DEF TypeOK
<1>6. CASE \/ Tick \/ UNCHANGED vars
           \/ \E n \in Node : Start(n) \/ Crash(n) \/ SendRegister(n) \/ RecvOk(n)
           \/ \E c \in Client : \/ SendGetPeers(c) \/ RecvList(c) \/ Drop(c)
                                \/ HandleGetNow(c) \/ HandleGetPeers(c)
  BY <1>1, <1>6 DEF Tick, vars, Start, Crash, SendRegister, RecvOk, SendGetPeers, RecvList,
                    Drop, HandleGetNow, HandleGetPeers
<1> QED
  BY <1>3, <1>4, <1>5, <1>6 DEF Next

(* Only a restart removes entries, and registering never makes one older.  *)
THEOREM EntriesOnlyRefreshAlways == Spec => EntriesOnlyRefresh
<1> DEFINE A == restarts' = restarts =>
                  /\ Len(peers_') >= Len(peers_)
                  /\ \A i \in DOMAIN peers_ :
                        /\ peers_'[i].pubkey = peers_[i].pubkey
                        /\ peers_'[i].last_seen >= peers_[i].last_seen
<1>1. IInv /\ [Next]_vars => [A]_vars
  BY EntriesStep
<1>2. Spec => []IInv
  BY UniqueKeysAlways DEF IInv
<1> QED
  BY <1>1, <1>2, PTL DEF Spec, EntriesOnlyRefresh

(* The step in which a client gets its answer is HandleGetPeers.           *)
LEMMA AnsweredByHandler ==
  ASSUME IInv, Next, NEW c \in Client, Answered(c)
  PROVE  reply'[c] = Snapshot(peers_, now[c])
<1>1. st[c] = "got_now" /\ st'[c] = "list" /\ DOMAIN st = Client
  BY DEF Answered, IInv, TypeOK
<1>2. HandleGetPeers(c)
  <2>1. ASSUME NEW d \in Client, HandleGetPeers(d) PROVE d = c
    BY <1>1, <2>1 DEF HandleGetPeers
  <2>2. ASSUME NEW d \in Client,
               SendGetPeers(d) \/ HandleGetNow(d) \/ Hangup(d)
        PROVE  FALSE
    BY <1>1, <2>2 DEF SendGetPeers, HandleGetNow, Hangup
  <2>3. ASSUME NEW d \in Client, RecvList(d) \/ Drop(d) PROVE FALSE
    BY <2>2, <2>3 DEF RecvList, Drop, Over
  <2>4. ASSUME NEW n \in Node,
               Start(n) \/ Crash(n) \/ SendRegister(n) \/ RecvOk(n) \/ HandleRegister(n)
        PROVE  FALSE
    BY <1>1, <2>2, <2>4, NodesAreClients
       DEF Start, Crash, SendRegister, RecvOk, HandleRegister, client
  <2>5. ASSUME \/ \E k \in orphans : HandleOrphan(k)
               \/ CoordinatorRestart \/ Tick
        PROVE  FALSE
    BY <1>1, <2>5 DEF HandleOrphan, CoordinatorRestart, Tick, client
  <2> QED
    BY <2>1, <2>2, <2>3, <2>4, <2>5 DEF Next
<1> QED
  BY <1>2 DEF HandleGetPeers, IInv, TypeOK

-----------------------------------------------------------------------------
(* LiveAlwaysListed.  Per is the time between the ends of two attempts,    *)
(* Rest(f) the time that the failures still allowed after f can take, and  *)
(* Left(n) the time within which the next registration of n is certain.    *)
Per == REFRESH + SLACK
Rest(f) == (MaxFails - f) * Per
Left(n) == wait[n] + Rest(fails[n])

(* Key k has an entry not older at time lo than hi.                        *)
ListedIn(ps, k, lo, hi) == \E i \in DOMAIN ps : ps[i].pubkey = k /\ lo <= ps[i].last_seen + hi

(* What is certain of a live node: before it is registered, its entry will *)
(* not be older than MaxGap when it registers again, or it is too young to *)
(* be expected in a list; once registered, its entry is younger than SLACK *)
(* until its attempt ends.                                                 *)
Due(n) ==
    /\ st[n] \in {"idle", "reg"} =>
          ListedIn(peers_, key(n), clock + Left(n), MaxGap) \/ grace[n] > Left(n)
    /\ st[n] \notin {"idle", "reg"} => ListedIn(peers_, key(n), clock + wait[n], SLACK)
    /\ st[n] # "idle" => wait[n] <= SLACK

(* A handler that has read the clock will find every key it must list.     *)
Promised(c) == st[c] = "got_now" => \A k \in must[c] : ListedIn(peers_, k, now[c], PEER_TTL)

TimeInv ==
    /\ grace \in [Node -> Nat] /\ must \in [Client -> SUBSET PubKey]
    /\ \A n \in Node : IF alive[n] THEN Due(n) ELSE fails[n] = 0
    /\ \A c \in Client : Promised(c)

(* The arithmetic of the bounds; Rest is not linear and is kept folded.    *)
LEMMA RestFacts ==
  /\ Per \in Nat /\ SLACK \in Nat /\ MaxGap \in Nat /\ PEER_TTL \in Nat
  /\ SLACK <= MaxGap /\ MaxGap <= PEER_TTL
  /\ \A f \in 0..MaxFails : /\ Rest(f) \in Nat
                            /\ SLACK + Per + Rest(f) <= MaxGap
                            /\ f < MaxFails => Rest(f) = Rest(f + 1) + Per
  /\ SLACK + Per + Rest(0) = MaxGap
<1> USE CoordinatorAssumption
<1>1. Per \in Nat
  BY DEF Per
<1>2. \A m \in Nat : m * Per \in Nat /\ (m + 1) * Per = m * Per + Per
  BY <1>1
<1>3. \A m, k \in Nat : m <= k => m * Per <= k * Per
  BY <1>1
<1>4. MaxGap = SLACK + MaxFails * Per + Per
  BY <1>2 DEF MaxGap, Per
<1>5. ASSUME NEW f \in 0..MaxFails
      PROVE  /\ Rest(f) \in Nat /\ Rest(f) <= MaxFails * Per
             /\ f < MaxFails => Rest(f) = Rest(f + 1) + Per
  <2>1. MaxFails - f \in Nat /\ MaxFails - f <= MaxFails
    OBVIOUS
  <2>2. Rest(f) \in Nat /\ Rest(f) <= MaxFails * Per
    BY <2>1, <1>2, <1>3 DEF Rest
  <2>3. ASSUME f < MaxFails PROVE Rest(f) = Rest(f + 1) + Per
    <3>1. MaxFails - (f + 1) \in Nat /\ (MaxFails - (f + 1)) + 1 = MaxFails - f
      BY <2>3
    <3> QED
      BY <3>1, <1>2 DEF Rest
  <2> QED
    BY <2>2, <2>3
<1>6. Rest(0) = MaxFails * Per
  BY DEF Rest
<1> QED
  BY <1>1, <1>2, <1>4, <1>5, <1>6

(* Between restarts what is listed stays listed, for any later bound.      *)
LEMMA ListedStays ==
  ASSUME IInv, [Next]_vars, restarts' = restarts
  PROVE  \A k : \A lo, hi, lo2, hi2 \in Int :
            ListedIn(peers_, k, lo, hi) /\ lo2 + hi <= lo + hi2
              => ListedIn(peers_', k, lo2, hi2)
<1> SUFFICES ASSUME NEW k, NEW lo \in Int, NEW hi \in Int, NEW lo2 \in Int, NEW hi2 \in Int,
                    ListedIn(peers_, k, lo, hi), lo2 + hi <= lo + hi2
             PROVE  ListedIn(peers_', k, lo2, hi2)
  OBVIOUS
<1>1. PICK i \in DOMAIN peers_ : peers_[i].pubkey = k /\ lo <= peers_[i].last_seen + hi
  BY DEF ListedIn
<1>2. /\ i \in DOMAIN peers_' /\ peers_'[i].pubkey = peers_[i].pubkey
      /\ peers_'[i].last_seen >= peers_[i].last_seen
  BY EntriesStep
<1>3. peers_[i].last_seen \in Nat /\ peers_'[i].last_seen \in Nat
  <2>1. IInv'
    BY StepKeepsIInv
  <2>2. peers_ \in Seq(Entry) /\ peers_' \in Seq(Entry)' /\ clock \in Nat /\ clock' \in Nat
    BY <2>1, EntriesTyped, CoordinatorAssumption DEF IInv, TypeOK, Entry
  <2>3. peers_[i] \in Entry /\ peers_'[i] \in Entry'
    BY <1>2, <2>2
  <2> QED
    BY <2>2, <2>3 DEF Entry
<1>4. lo2 <= peers_'[i].last_seen + hi2
  BY <1>1, <1>2, <1>3
<1> QED
  BY <1>1, <1>2, <1>4 DEF ListedIn

(* A registration leaves an entry of its key with the present time.        *)
LEMMA RegisteredFresh ==
  ASSUME NEW ps \in Seq(Entry), NEW k \in PubKey, Unique(ps)
  PROVE  \E i \in DOMAIN Registered(ps, k) :
            Registered(ps, k)[i] = [pubkey |-> k, last_seen |-> clock]
<1> DEFINE e == [pubkey |-> k, last_seen |-> clock]
<1>1. CASE k \in Keys(ps)
  <2>1. PICK i \in DOMAIN ps : ps[i].pubkey = k
    BY <1>1 DEF Keys
  <2>2. \A h \in 1..i-1 : ps[h].pubkey # k
    BY <2>1 DEF Unique
  <2> DEFINE c == CHOOSE j \in DOMAIN ps :
                    ps[j].pubkey = k /\ \A h \in 1..j-1 : ps[h].pubkey # k
  <2>3. c \in DOMAIN ps
    BY <2>1, <2>2
  <2>4. Registered(ps, k) = [ps EXCEPT ![c] = e]
    BY <1>1 DEF Registered
  <2> HIDE DEF c
  <2> QED
    BY <2>3, <2>4
<1>2. CASE k \notin Keys(ps)
  <2>1. Registered(ps, k) = Append(ps, e)
    BY <1>2 DEF Registered
  <2>2. Len(ps) + 1 \in DOMAIN Append(ps, e) /\ Append(ps, e)[Len(ps) + 1] = e
    OBVIOUS
  <2> QED
    BY <2>1, <2>2
<1> QED
  BY <1>1, <1>2

(* The types of the state that the timing of node n depends on.            *)
LEMMA NodeTypes ==
  ASSUME IInv, TimeInv, NEW n \in Node
  PROVE  /\ clock \in Nat /\ wait[n] \in 0..Per /\ fails[n] \in 0..MaxFails
         /\ Rest(fails[n]) \in Nat /\ Left(n) \in Nat /\ grace[n] \in Nat
         /\ alive[n] \in BOOLEAN
BY CoordinatorAssumption, RestFacts DEF IInv, TypeOK, TimeInv, Left, Per

(* What is due for a node stays due in a step that leaves its timing, the  *)
(* clock and the coordinator's run alone, and lets it at most start its    *)
(* attempt in time or go on after it has been registered.                  *)
LEMMA DueKept ==
  ASSUME IInv, TimeInv, [Next]_vars, restarts' = restarts, clock' = clock,
         NEW n \in Node, Due(n),
         id'[n] = id[n], wait'[n] = wait[n], fails'[n] = fails[n], grace'[n] = grace[n],
         \/ st'[n] = st[n]
         \/ st[n] = "idle" /\ st'[n] = "reg" /\ wait[n] <= SLACK
         \/ st[n] \notin {"idle", "reg"} /\ st'[n] \notin {"idle", "reg"}
  PROVE  Due(n)'
<1>1. clock \in Nat /\ wait[n] \in Nat /\ Left(n) \in Nat
  BY NodeTypes
<1>2. key(n)' = key(n) /\ Left(n)' = Left(n)
  BY DEF key, Left
<1>3. SLACK \in Int /\ MaxGap \in Int
  BY RestFacts
<1>4. ListedIn(peers_, key(n), clock + Left(n), MaxGap)
        => ListedIn(peers_', key(n), clock + Left(n), MaxGap)
  BY <1>1, <1>3, ListedStays
<1>5. ListedIn(peers_, key(n), clock + wait[n], SLACK)
        => ListedIn(peers_', key(n), clock + wait[n], SLACK)
  BY <1>1, <1>3, ListedStays
<1> QED
  BY <1>2, <1>4, <1>5 DEF Due

(* The end of an attempt, whether it succeeded or not, leaves enough time  *)
(* for the attempts that follow.                                           *)
LEMMA DueAfterAttempt ==
  ASSUME IInv, TimeInv, [Next]_vars, restarts' = restarts, clock' = clock,
         NEW n \in Node, Due(n), st[n] # "idle", st'[n] = "idle",
         id'[n] = id[n], wait'[n] = Per, grace'[n] = grace[n],
         \/ st[n] = "list" /\ fails'[n] = 0
         \/ fails[n] < MaxFails /\ fails'[n] = fails[n] + 1
  PROVE  Due(n)'
<1>1. /\ clock \in Nat /\ wait[n] \in Nat /\ fails[n] \in 0..MaxFails
      /\ Rest(fails[n]) \in Nat /\ Left(n) \in Nat /\ grace[n] \in Nat
      /\ Left(n) = wait[n] + Rest(fails[n])
  BY NodeTypes DEF Left
<1>2. key(n)' = key(n) /\ Left(n)' = Per + Rest(fails'[n])
  BY DEF key, Left
<1>3. fails'[n] \in 0..MaxFails /\ Rest(fails'[n]) \in Nat /\ Per \in Nat
  <2>1. fails'[n] \in 0..MaxFails
    BY <1>1, CoordinatorAssumption
  <2> QED
    BY <2>1, RestFacts
<1>4. SLACK \in Int /\ MaxGap \in Int /\ Left(n)' \in Nat
  BY <1>2, <1>3, RestFacts
<1>5. CASE st[n] \notin {"idle", "reg"}
  <2>1. ListedIn(peers_, key(n), clock + wait[n], SLACK)
    BY <1>5 DEF Due
  <2>2. clock + Left(n)' + SLACK <= clock + wait[n] + MaxGap
    BY <1>1, <1>2, <1>3, RestFacts
  <2>3. ListedIn(peers_', key(n), clock + Left(n)', MaxGap)
    BY <1>1, <1>4, <2>1, <2>2, ListedStays
  <2> QED
    BY <1>2, <2>3 DEF Due
<1>6. CASE st[n] = "reg"
  <2>1. fails[n] < MaxFails /\ fails'[n] = fails[n] + 1
    BY <1>6
  <2>2. Left(n)' <= Left(n)
    <3>1. Rest(fails[n]) = Rest(fails'[n]) + Per
      BY <1>1, <2>1, RestFacts
    <3> QED
      BY <1>1, <1>2, <1>3, <3>1
  <2>3. ListedIn(peers_, key(n), clock + Left(n), MaxGap) \/ grace[n] > Left(n)
    BY <1>6 DEF Due
  <2>4. ListedIn(peers_, key(n), clock + Left(n), MaxGap)
          => ListedIn(peers_', key(n), clock + Left(n)', MaxGap)
    BY <1>1, <1>4, <2>2, ListedStays
  <2>5. grace[n] > Left(n) => grace'[n] > Left(n)'
    BY <1>1, <1>4, <2>2
  <2> QED
    BY <1>2, <2>3, <2>4, <2>5 DEF Due
<1> QED
  BY <1>5, <1>6

(* One step of the system, seen from node n.                               *)
LEMMA NodeStep ==
  ASSUME IInv, TimeInv, [Next]_vars, NEW n \in Node
  PROVE  IF alive'[n] THEN Due(n)' ELSE fails'[n] = 0
<1> DEFINE Goal == IF alive'[n] THEN Due(n)' ELSE fails'[n] = 0
<1> USE NodesAreClients
<1>0. /\ TypeOK /\ clock \in Nat /\ wait[n] \in 0..Per /\ fails[n] \in 0..MaxFails
      /\ Rest(fails[n]) \in Nat /\ Left(n) \in Nat /\ grace[n] \in Nat
      /\ IF alive[n] THEN Due(n) ELSE fails[n] = 0
  BY NodeTypes DEF IInv, TimeInv
<1>1. ASSUME alive'[n] = alive[n], restarts' = restarts, clock' = clock, st'[n] = st[n],
             id'[n] = id[n], wait'[n] = wait[n], fails'[n] = fails[n], grace'[n] = grace[n]
      PROVE  Goal
  BY <1>0, <1>1, DueKept
<1>2. ASSUME NEW m \in Node, Start(m) PROVE Goal
  <2>1. CASE m # n
    BY <1>0, <1>1, <1>2, <2>1 DEF Start, client, TypeOK, TimeInv
  <2>2. CASE m = n
    <3>1. ~alive[n] /\ fails[n] = 0 /\ st[n] = "idle"
      BY <1>0, <1>2, <2>2 DEF Start, TypeOK
    <3>2. /\ alive'[n] = TRUE /\ wait'[n] = SLACK /\ grace'[n] = MaxGap + 1
          /\ fails'[n] = 0 /\ st'[n] = "idle"
      BY <1>0, <1>2, <2>2, <3>1 DEF Start, client, TypeOK, TimeInv
    <3>3. Left(n)' = SLACK + Rest(0)
      BY <3>2 DEF Left
    <3>4. Rest(0) \in Nat
      BY CoordinatorAssumption, RestFacts
    <3>5. grace'[n] > Left(n)'
      BY <3>2, <3>3, <3>4, RestFacts
    <3> QED
      BY <3>2, <3>5 DEF Due
  <2> QED
    BY <2>1, <2>2
<1>3. ASSUME NEW m \in Node, Crash(m) PROVE Goal
  BY <1>0, <1>1, <1>3 DEF Crash, Hangup, TypeOK, TimeInv
<1>4. ASSUME NEW m \in Node, SendRegister(m) PROVE Goal
  <2>1. CASE m # n
    BY <1>0, <1>1, <1>4, <2>1 DEF SendRegister, nodes, ghosts, TypeOK
  <2>2. CASE m = n
    <3>1. /\ alive[n] /\ st[n] = "idle" /\ st'[n] = "reg" /\ wait[n] <= SLACK
          /\ restarts' = restarts /\ clock' = clock
          /\ UNCHANGED <<alive, id, wait, fails, grace>>
      BY <1>0, <1>4, <2>2 DEF SendRegister, nodes, ghosts, TypeOK
    <3>2. Due(n)'
      BY <1>0, <3>1, DueKept
    <3> QED
      BY <3>1, <3>2
  <2> QED
    BY <2>1, <2>2
<1>5. ASSUME NEW c \in Client, st[c] \notin {"idle", "reg"}, NEW s \in {"get", "got_now", "list"},
             st' = [st EXCEPT ![c] = s],
             UNCHANGED <<alive, id, wait, fails, grace, restarts, clock>>
      PROVE  Goal
  <2>1. CASE c # n
    BY <1>0, <1>1, <1>5, <2>1 DEF TypeOK
  <2>2. CASE c = n
    <3>1. st[n] \notin {"idle", "reg"} /\ st'[n] \notin {"idle", "reg"} /\ alive[n]
      BY <1>0, <1>5, <2>2 DEF TypeOK
    <3>2. Due(n)'
      BY <1>0, <1>5, <3>1, DueKept
    <3> QED
      BY <1>5, <3>1, <3>2
  <2> QED
    BY <2>1, <2>2
<1>6. ASSUME NEW m \in Node, RecvOk(m) PROVE Goal
  BY <1>5, <1>6 DEF RecvOk, nodes, ghosts
<1>7. ASSUME NEW c \in Client, HandleGetNow(c) \/ HandleGetPeers(c) PROVE Goal
  BY <1>5, <1>7 DEF HandleGetNow, HandleGetPeers, nodes, ghosts
<1>8. ASSUME NEW m \in Node, HandleRegister(m) PROVE Goal
  <2>1. CASE m # n
    BY <1>0, <1>1, <1>8, <2>1 DEF HandleRegister, nodes, ghosts, TypeOK
  <2>2. CASE m = n
    <3>1. /\ st[n] = "reg" /\ st'[n] = "ok" /\ peers_' = Registered(peers_, key(n))
          /\ alive[n] /\ clock' = clock /\ UNCHANGED <<alive, id, wait>>
      BY <1>0, <1>8, <2>2 DEF HandleRegister, nodes, TypeOK
    <3>2. key(n) \in PubKey /\ key(n)' = key(n) /\ wait[n] <= SLACK
      BY <1>0, <3>1, CoordinatorAssumption DEF TypeOK, key, PubKey, Due
    <3>3. PICK i \in DOMAIN peers_' : peers_'[i] = [pubkey |-> key(n), last_seen |-> clock]
      BY <3>1, <3>2, EntriesTyped, RegisteredFresh DEF IInv, UniqueKeys, Unique
    <3>4. peers_'[i].pubkey = key(n) /\ clock + wait[n] <= peers_'[i].last_seen + SLACK
      BY <1>0, <3>2, <3>3, RestFacts
    <3>5. ListedIn(peers_', key(n), clock + wait[n], SLACK)
      BY <3>3, <3>4 DEF ListedIn
    <3> QED
      BY <3>1, <3>2, <3>5 DEF Due
  <2> QED
    BY <2>1, <2>2
<1>9. ASSUME NEW k \in orphans, HandleOrphan(k) PROVE Goal
  BY <1>1, <1>9 DEF HandleOrphan, nodes, client, ghosts
<1>10. ASSUME NEW c \in Client, SendGetPeers(c) PROVE Goal
  BY <1>0, <1>1, <1>10, CoordinatorAssumption DEF SendGetPeers, nodes, ghosts, TypeOK
<1>11. ASSUME NEW c \in Client, RecvList(c) \/ Drop(c) PROVE Goal
  <2>0. /\ restarts' = restarts /\ clock' = clock /\ UNCHANGED <<alive, id, grace>>
        /\ st[c] # "idle" /\ st' = [st EXCEPT ![c] = "idle"]
        /\ wait' = [m \in Node |-> IF m = c THEN Per ELSE wait[m]]
    BY <1>11 DEF RecvList, Drop, Over, Hangup, Per
  <2>1. CASE c # n
    <3>1. fails'[n] = fails[n]
      BY <1>11, <2>1 DEF RecvList, Drop, Over
    <3> QED
      BY <1>0, <1>1, <2>0, <2>1, <3>1 DEF TypeOK
  <2>2. CASE c = n
    <3>1. alive[n] /\ alive'[n] /\ st[n] # "idle" /\ st'[n] = "idle" /\ wait'[n] = Per
      BY <1>0, <2>0, <2>2 DEF TypeOK
    <3>2. \/ st[n] = "list" /\ fails'[n] = 0
          \/ fails[n] < MaxFails /\ fails'[n] = fails[n] + 1
      BY <1>11, <2>2 DEF RecvList, Drop, Over, CanFail
    <3>3. Due(n)'
      BY <1>0, <2>0, <3>1, <3>2, DueAfterAttempt
    <3> QED
      BY <3>1, <3>3
  <2> QED
    BY <2>1, <2>2
<1>12. CASE CoordinatorRestart
  <2>1. /\ alive'[n] = alive[n] /\ st'[n] = "idle" /\ wait'[n] \in 0..Per
        /\ fails'[n] \in 0..MaxFails /\ (~alive[n] => fails'[n] = fails[n])
        /\ (alive[n] => grace'[n] = MaxGap + 1)
    BY <1>0, <1>12, CoordinatorAssumption DEF CoordinatorRestart, CanFail, TypeOK, Per
  <2>2. alive[n] => grace'[n] > Left(n)'
    BY <2>1, RestFacts DEF Left
  <2> QED
    BY <1>0, <2>1, <2>2 DEF Due
<1>13. CASE Tick
  <2>1. /\ alive' = alive /\ st' = st /\ fails' = fails /\ id' = id /\ restarts' = restarts
        /\ clock' = clock + 1 /\ wait'[n] = Less(wait[n]) /\ grace'[n] = Less(grace[n])
        /\ (alive[n] => wait[n] > 0)
    BY <1>13 DEF Tick, client
  <2>2. CASE ~alive[n]
    BY <1>0, <2>1, <2>2
  <2>3. CASE alive[n]
    <3>1. wait'[n] = wait[n] - 1 /\ wait'[n] \in Nat
      BY <1>0, <2>1, <2>3 DEF Less
    <3>2. key(n)' = key(n) /\ Left(n)' = Left(n) - 1 /\ Left(n)' \in Nat
      BY <1>0, <2>1, <3>1 DEF key, Left
    <3>3. SLACK \in Int /\ MaxGap \in Int
      BY RestFacts
    <3>4. ListedIn(peers_, key(n), clock + Left(n), MaxGap)
            => ListedIn(peers_', key(n), clock' + Left(n)', MaxGap)
      BY <1>0, <2>1, <3>2, <3>3, ListedStays
    <3>5. ListedIn(peers_, key(n), clock + wait[n], SLACK)
            => ListedIn(peers_', key(n), clock' + wait'[n], SLACK)
      BY <1>0, <2>1, <3>1, <3>3, ListedStays
    <3>6. grace[n] > Left(n) => grace'[n] > Left(n)'
      BY <1>0, <2>1, <3>2 DEF Less
    <3>7. wait[n] <= SLACK => wait'[n] <= SLACK
      BY <1>0, <3>1, <3>3
    <3> QED
      BY <1>0, <2>1, <2>3, <3>2, <3>4, <3>5, <3>6, <3>7 DEF Due
  <2> QED
    BY <2>2, <2>3
<1>14. CASE UNCHANGED vars
  BY <1>1, <1>14 DEF vars, nodes, client, ghosts
<1> QED
  BY <1>2, <1>3, <1>4, <1>6, <1>7, <1>8, <1>9, <1>10, <1>11, <1>12, <1>13, <1>14 DEF Next

(* One step of the system, seen from client c: the promise is made when    *)
(* the handler reads the clock, and kept until it takes the lock.          *)
LEMMA ClientStep ==
  ASSUME IInv, TimeInv, [Next]_vars, NEW c \in Client
  PROVE  Promised(c)'
<1> SUFFICES ASSUME st'[c] = "got_now", NEW k \in must'[c]
             PROVE  ListedIn(peers_', k, now'[c], PEER_TTL)
  BY DEF Promised
<1> USE NodesAreClients
<1>0. TypeOK /\ clock \in Nat /\ Promised(c) /\ PEER_TTL \in Int /\ must \in [Client -> SUBSET PubKey]
  BY EntriesTyped, RestFacts DEF IInv, TimeInv
<1>1. CASE HandleGetNow(c)
  <2>1. /\ peers_' = peers_ /\ now'[c] = clock /\ restarts' = restarts
        /\ must'[c] = {key(n) : n \in {m \in Node : alive[m] /\ grace[m] = 0}}
    BY <1>0, <1>1 DEF HandleGetNow, TypeOK
  <2>2. PICK n \in Node : alive[n] /\ grace[n] = 0 /\ k = key(n)
    BY <2>1
  <2>3. Due(n) /\ wait[n] \in Nat /\ Left(n) \in Nat
    BY <2>2, NodeTypes DEF TimeInv
  <2>4. \/ ListedIn(peers_, k, clock + Left(n), MaxGap)
        \/ ListedIn(peers_, k, clock + wait[n], SLACK)
    BY <2>2, <2>3 DEF Due
  <2> QED
    BY <1>0, <2>1, <2>3, <2>4, RestFacts, ListedStays
<1>2. ASSUME st[c] = "got_now", now'[c] = now[c], must'[c] = must[c], restarts' = restarts
      PROVE  ListedIn(peers_', k, now'[c], PEER_TTL)
  <2>1. ListedIn(peers_, k, now[c], PEER_TTL) /\ now[c] \in Int
    BY <1>0, <1>2 DEF Promised, TypeOK
  <2> QED
    BY <1>0, <1>2, <2>1, ListedStays
<1>3. ASSUME NEW d \in Client, Hangup(d), restarts' = restarts
      PROVE  ListedIn(peers_', k, now'[c], PEER_TTL)
  BY <1>0, <1>2, <1>3 DEF Hangup, TypeOK
<1>4. ASSUME NEW d \in Client, HandleGetNow(d) PROVE ListedIn(peers_', k, now'[c], PEER_TTL)
  BY <1>0, <1>1, <1>2, <1>4 DEF HandleGetNow, TypeOK
<1>5. ASSUME NEW d \in Client, RecvList(d) \/ Drop(d) \/ SendGetPeers(d) \/ HandleGetPeers(d)
      PROVE  ListedIn(peers_', k, now'[c], PEER_TTL)
  BY <1>0, <1>2, <1>3, <1>5
     DEF RecvList, Drop, Over, SendGetPeers, HandleGetPeers, ghosts, TypeOK
<1>6. ASSUME NEW n \in Node,
             Start(n) \/ Crash(n) \/ SendRegister(n) \/ RecvOk(n) \/ HandleRegister(n)
      PROVE  ListedIn(peers_', k, now'[c], PEER_TTL)
  BY <1>0, <1>2, <1>3, <1>6
     DEF Start, Crash, SendRegister, RecvOk, HandleRegister, client, ghosts, TypeOK
<1>7. CASE (\E o \in orphans : HandleOrphan(o)) \/ Tick \/ UNCHANGED vars
  BY <1>2, <1>7 DEF HandleOrphan, Tick, vars, client, ghosts
<1>8. CASE CoordinatorRestart
  BY <1>8 DEF CoordinatorRestart
<1> QED
  BY <1>4, <1>5, <1>6, <1>7, <1>8 DEF Next

(* The history variables keep their types.                                 *)
LEMMA GhostStep ==
  ASSUME IInv, TimeInv, [Next]_vars
  PROVE  grace' \in [Node -> Nat] /\ must' \in [Client -> SUBSET PubKey]
<1> USE NodesAreClients, RestFacts
<1>0. TypeOK /\ grace \in [Node -> Nat] /\ must \in [Client -> SUBSET PubKey]
  BY DEF IInv, TimeInv
<1>1. ASSUME NEW c \in Client, Hangup(c) PROVE must' \in [Client -> SUBSET PubKey]
  BY <1>0, <1>1 DEF Hangup
<1>2. ASSUME NEW n \in Node,
             Start(n) \/ Crash(n) \/ SendRegister(n) \/ RecvOk(n) \/ HandleRegister(n)
      PROVE  grace' \in [Node -> Nat] /\ must' \in [Client -> SUBSET PubKey]
  BY <1>0, <1>1, <1>2 DEF Start, Crash, SendRegister, RecvOk, HandleRegister, ghosts
<1>3. ASSUME NEW c \in Client, SendGetPeers(c) \/ RecvList(c) \/ Drop(c) \/ HandleGetPeers(c)
      PROVE  grace' \in [Node -> Nat] /\ must' \in [Client -> SUBSET PubKey]
  BY <1>0, <1>1, <1>3 DEF SendGetPeers, RecvList, Drop, Over, HandleGetPeers, ghosts
<1>4. ASSUME NEW c \in Client, HandleGetNow(c)
      PROVE  grace' \in [Node -> Nat] /\ must' \in [Client -> SUBSET PubKey]
  <2>1. \A n \in Node : alive[n] => key(n) \in PubKey
    BY <1>0, CoordinatorAssumption DEF TypeOK, key, PubKey
  <2> QED
    BY <1>0, <1>4, <2>1 DEF HandleGetNow
<1>5. CASE CoordinatorRestart \/ Tick
  BY <1>0, <1>5 DEF CoordinatorRestart, Tick, Less
<1>6. CASE (\E k \in orphans : HandleOrphan(k)) \/ UNCHANGED vars
  BY <1>0, <1>6 DEF HandleOrphan, vars, ghosts
<1> QED
  BY <1>2, <1>3, <1>4, <1>5, <1>6 DEF Next

(* A daemon that has been up long enough is in every list: GET_PEERS finds *)
(* it fresh whatever refreshes failed and wherever the handler is between  *)
(* its clock and the lock.                                                 *)
THEOREM LiveAlwaysListedAlways == Spec => LiveAlwaysListed
<1> DEFINE A == \A c \in Client : Answered(c) => must[c] \subseteq reply'[c]
<1>1. Init => TimeInv
  BY RestFacts, NodesAreClients DEF Init, TimeInv, Promised
<1>2. IInv /\ TimeInv /\ [Next]_vars => TimeInv'
  BY NodeStep, ClientStep, GhostStep DEF TimeInv
<1>3. IInv /\ TimeInv /\ [Next]_vars => [A]_vars
  <2> SUFFICES ASSUME IInv, TimeInv, Next, NEW c \in Client, Answered(c), NEW k \in must[c]
               PROVE  k \in reply'[c]
    OBVIOUS
  <2>1. reply'[c] = Snapshot(peers_, now[c])
    BY AnsweredByHandler
  <2>2. ListedIn(peers_, k, now[c], PEER_TTL)
    BY DEF TimeInv, Promised, Answered
  <2> QED
    BY <2>1, <2>2 DEF ListedIn, Snapshot, Fresh
<1>4. Spec => []IInv
  BY UniqueKeysAlways DEF IInv
<1> QED
  BY <1>1, <1>2, <1>3, <1>4, PTL DEF Spec, LiveAlwaysListed

-----------------------------------------------------------------------------
(* DeadAreForgotten.  All entries of k are too old for a request that      *)
(* arrived at t.                                                           *)
TooOld(k, t) ==
    \A i \in DOMAIN peers_ : peers_[i].pubkey = k => peers_[i].last_seen + PEER_TTL < t

(* The key belongs to a run that has been started.                         *)
Issued(k) == k[2] <= ids

(* Once its process is dead and its last REGISTER handled, an entry fades. *)
Fades(k) == Living(k) \/ k \in orphans \/ TooOld(k, clock + fade[k])

(* A key that had faded when c's request arrived cannot come back.         *)
Buried(c, k) == Issued(k) /\ ~Living(k) /\ k \notin orphans /\ TooOld(k, now[c])

FadeInv ==
    /\ fade \in [PubKey -> Nat] /\ dead \in [Client -> SUBSET PubKey]
    /\ \A k \in Keys(peers_) \cup orphans : Issued(k)
    /\ \A k \in PubKey : Fades(k)
    /\ \A c \in Client : st[c] = "got_now" => \A k \in dead[c] : Buried(c, k)

(* A registration touches the entry of its own key only, and makes no      *)
(* entry newer than the clock.                                             *)
LEMMA RegisteredOthers ==
  ASSUME clock \in Nat, NEW ps \in Seq(Entry), NEW k \in PubKey, Unique(ps)
  PROVE  \A i \in DOMAIN Registered(ps, k) :
            \/ i \in DOMAIN ps /\ Registered(ps, k)[i] = ps[i]
            \/ Registered(ps, k)[i].pubkey = k
<1> DEFINE e == [pubkey |-> k, last_seen |-> clock]
<1>1. CASE k \in Keys(ps)
  <2>1. PICK c \in DOMAIN ps : Registered(ps, k) = [ps EXCEPT ![c] = e]
    <3>1. PICK i \in DOMAIN ps : ps[i].pubkey = k
      BY <1>1 DEF Keys
    <3>2. \A h \in 1..i-1 : ps[h].pubkey # k
      BY <3>1 DEF Unique
    <3>3. (CHOOSE j \in DOMAIN ps : ps[j].pubkey = k /\ \A h \in 1..j-1 : ps[h].pubkey # k) \in DOMAIN ps
      BY <3>1, <3>2
    <3> QED
      BY <1>1, <3>3 DEF Registered
  <2> QED
    BY <2>1
<1>2. CASE k \notin Keys(ps)
  <2>1. Registered(ps, k) = Append(ps, e)
    BY <1>2 DEF Registered
  <2>2. /\ DOMAIN Append(ps, e) = DOMAIN ps \cup {Len(ps) + 1}
        /\ Append(ps, e)[Len(ps) + 1] = e
        /\ \A i \in DOMAIN ps : Append(ps, e)[i] = ps[i]
    OBVIOUS
  <2> QED
    BY <2>1, <2>2
<1> QED
  BY <1>1, <1>2

(* The same of a handler's step: the other keys stay as old as they were.  *)
LEMMA OthersStay ==
  ASSUME IInv, NEW o \in PubKey, peers_' = Registered(peers_, o)
  PROVE  /\ \A k, t : k # o /\ TooOld(k, t) => TooOld(k, t)'
         /\ Keys(peers_)' \subseteq Keys(peers_) \cup {o}
<1>1. peers_ \in Seq(Entry) /\ clock \in Nat /\ Unique(peers_)
  BY EntriesTyped DEF IInv, UniqueKeys, Unique
<1>2. \A i \in DOMAIN peers_' : \/ i \in DOMAIN peers_ /\ peers_'[i] = peers_[i]
                                \/ peers_'[i].pubkey = o
  BY <1>1, RegisteredOthers
<1>3. ASSUME NEW k, NEW t, k # o, TooOld(k, t) PROVE TooOld(k, t)'
  <2> SUFFICES \A i \in DOMAIN peers_' : peers_'[i].pubkey = k => peers_'[i].last_seen + PEER_TTL < t
    BY DEF TooOld
  <2> QED
    BY <1>2, <1>3 DEF TooOld
<1> QED
  BY <1>2, <1>3 DEF Keys

(* No entry is newer than the clock.                                       *)
LEMMA EntriesPast ==
  ASSUME TypeOK, NEW k PROVE TooOld(k, clock + PEER_TTL + 1)
<1>1. peers_ \in Seq(Entry) /\ clock \in Nat /\ PEER_TTL \in Nat
  BY EntriesTyped, CoordinatorAssumption
<1>2. \A i \in DOMAIN peers_ : peers_[i] \in Entry
  BY <1>1
<1> QED
  BY <1>1, <1>2 DEF TooOld, Entry

(* An entry that is too old for one time is too old for a later one.       *)
LEMMA StaysTooOld ==
  ASSUME TypeOK, NEW k, NEW t \in Int, NEW u \in Int, t <= u, TooOld(k, t)
  PROVE  TooOld(k, u)
<1>1. peers_ \in Seq(Entry) /\ clock \in Nat /\ PEER_TTL \in Nat
  BY EntriesTyped, CoordinatorAssumption
<1>2. \A i \in DOMAIN peers_ : peers_[i] \in Entry
  BY <1>1
<1> QED
  BY <1>1, <1>2 DEF TooOld, Entry

(* The keys of living nodes have been issued.                              *)
LEMMA LivingIssued ==
  ASSUME TypeOK, NEW n \in Node, alive[n]
  PROVE  key(n) \in PubKey /\ Issued(key(n)) /\ Living(key(n))
BY CoordinatorAssumption DEF TypeOK, key, PubKey, Issued, Living

(* What a step that registers nothing and starts nothing may do: the       *)
(* living stay or leave an entry that fades afresh.                        *)
LEMMA QuietKey ==
  ASSUME IInv, FadeInv, NEW k \in PubKey, TypeOK', peers_' = peers_,
         Living(k) => Living(k)', orphans \subseteq orphans',
         clock' + fade'[k] >= clock + fade[k], fade'[k] \in Nat
  PROVE  Fades(k)'
<1>0. TypeOK /\ clock \in Nat /\ fade[k] \in Nat /\ Fades(k)
  BY EntriesTyped DEF IInv, FadeInv
<1>1. TypeOK /\ clock \in Nat /\ clock' \in Nat /\ fade[k] \in Nat /\ Fades(k)
  <2>1. clock' \in 0..MaxClock
    BY DEF TypeOK
  <2> QED
    BY <1>0, <2>1, CoordinatorAssumption
<1>2. CASE Living(k) \/ k \in orphans
  BY <1>2 DEF Fades
<1>3. CASE TooOld(k, clock + fade[k])
  <2>1. TooOld(k, clock' + fade'[k])
    BY <1>1, <1>3, StaysTooOld
  <2>2. TooOld(k, clock + fade[k])'
    BY <2>1 DEF TooOld
  <2> QED
    BY <2>2 DEF Fades
<1> QED
  BY <1>1, <1>2, <1>3 DEF Fades

(* fade counts, for every key.                                             *)
LEMMA FadeTyped ==
  ASSUME FadeInv, [Next]_vars PROVE fade' \in [PubKey -> Nat]
<1>1. fade \in [PubKey -> Nat] /\ PEER_TTL + 1 \in Nat
  BY CoordinatorAssumption DEF FadeInv
<1>2. ASSUME NEW k, NEW x \in Nat, fade' = [fade EXCEPT ![k] = x] PROVE fade' \in [PubKey -> Nat]
  BY <1>1, <1>2
<1>3. ASSUME NEW n \in Node, Crash(n) PROVE fade' \in [PubKey -> Nat]
  BY <1>1, <1>2, <1>3 DEF Crash
<1>4. ASSUME NEW o \in orphans, HandleOrphan(o) PROVE fade' \in [PubKey -> Nat]
  <2>1. PICK x \in Nat : fade' = [fade EXCEPT ![o] = x]
    BY <1>1, <1>4 DEF HandleOrphan
  <2> QED
    BY <1>2, <2>1
<1>5. CASE Tick \/ CoordinatorRestart
  BY <1>1, <1>5 DEF Tick, CoordinatorRestart, Less
<1>6. CASE UNCHANGED fade
  BY <1>1, <1>6
<1> QED
  BY <1>3, <1>4, <1>5, <1>6
     DEF Next, Start, SendRegister, RecvOk, HandleRegister, SendGetPeers, RecvList, Drop,
         HandleGetNow, HandleGetPeers, vars, ghosts

-----------------------------------------------------------------------------
(* One step of the system, seen from a key.                                *)
LEMMA FadesStep ==
  ASSUME IInv, FadeInv, [Next]_vars, NEW k \in PubKey
  PROVE  Fades(k)' /\ fade' \in [PubKey -> Nat]
<1> DEFINE Goal == Fades(k)' /\ fade' \in [PubKey -> Nat]
<1> USE NodesAreClients
<1>0. /\ TypeOK /\ TypeOK' /\ fade \in [PubKey -> Nat] /\ clock \in Nat /\ PEER_TTL \in Nat
      /\ Fades(k)
  BY StepKeepsIInv, EntriesTyped, CoordinatorAssumption DEF IInv, FadeInv
<1>1. ASSUME UNCHANGED <<peers_, clock, alive, id, fade>>, orphans \subseteq orphans'
      PROVE  Goal
  <2>1. Living(k) => Living(k)'
    BY <1>1 DEF Living, key
  <2> QED
    BY <1>0, <1>1, <2>1, QuietKey
<1>2. ASSUME NEW n \in Node, Start(n) PROVE Goal
  <2>1. ASSUME NEW m \in Node, alive[m] PROVE alive'[m] /\ key(m)' = key(m)
    BY <1>0, <1>2, <2>1 DEF Start, TypeOK, key
  <2>2. Living(k) => Living(k)'
    BY <2>1 DEF Living
  <2> QED
    BY <1>0, <1>2, <2>2, QuietKey DEF Start
<1>3. ASSUME NEW n \in Node, Crash(n) PROVE Goal
  <2>1. /\ alive[n] /\ fade' = [fade EXCEPT ![key(n)] = PEER_TTL + 1]
        /\ alive' = [alive EXCEPT ![n] = FALSE] /\ UNCHANGED <<peers_, clock, id>>
        /\ orphans \subseteq orphans'
    BY <1>3 DEF Crash, Abandon
  <2>2. fade' \in [PubKey -> Nat]
    BY FadeTyped
  <2>3. CASE k = key(n)
    <3>1. fade'[k] = PEER_TTL + 1
      BY <1>0, <2>1, <2>3
    <3>2. TooOld(k, clock + (PEER_TTL + 1))'
      BY <1>0, <2>1, EntriesPast DEF TooOld
    <3> QED
      BY <2>1, <2>2, <3>1, <3>2 DEF Fades
  <2>4. CASE k # key(n)
    <3>1. Living(k) => Living(k)'
      BY <1>0, <2>1, <2>4 DEF Living, key, TypeOK
    <3> QED
      BY <1>0, <2>1, <2>2, <2>4, <3>1, QuietKey
  <2> QED
    BY <2>3, <2>4
<1>4. ASSUME NEW n \in Node, HandleRegister(n) PROVE Goal
  <2>1. /\ alive[n] /\ peers_' = Registered(peers_, key(n)) /\ UNCHANGED <<fade, clock, alive, id, orphans>>
    BY <1>0, <1>4 DEF HandleRegister, nodes, ghosts, TypeOK
  <2>2. key(n) \in PubKey /\ \A j : Living(j)' <=> Living(j)
    BY <1>0, <2>1, LivingIssued DEF Living, key
  <2>3. CASE k = key(n)
    BY <1>0, <2>1, <2>2, <2>3, LivingIssued DEF Fades
  <2>4. CASE k # key(n)
    BY <1>0, <2>1, <2>2, <2>4, OthersStay DEF Fades
  <2> QED
    BY <2>3, <2>4
<1>5. ASSUME NEW o \in orphans, HandleOrphan(o) PROVE Goal
  <2>1. /\ peers_' = Registered(peers_, o) /\ UNCHANGED <<clock, alive, id>>
        /\ fade' = [fade EXCEPT ![o] = IF Living(o) THEN 0 ELSE PEER_TTL + 1]
        /\ orphans' = orphans \ {o} /\ o \in PubKey
    BY <1>0, <1>5 DEF HandleOrphan, nodes, TypeOK
  <2>2. fade' \in [PubKey -> Nat] /\ \A j : Living(j)' <=> Living(j)
    BY <2>1, FadeTyped DEF Living, key
  <2>3. CASE k = o
    <3>1. CASE Living(o)
      BY <2>2, <2>3, <3>1 DEF Fades
    <3>2. CASE ~Living(o)
      <4>1. fade'[k] = PEER_TTL + 1
        BY <1>0, <2>1, <2>3, <3>2
      <4>2. \A i \in DOMAIN peers_' : peers_'[i].last_seen \in 0..clock
        <5> DEFINE Past == [pubkey : PubKey, last_seen : 0..clock']
        <5>1. peers_' \in Seq(Past)
          BY <1>0 DEF TypeOK
        <5> HIDE DEF Past
        <5>2. \A i \in DOMAIN peers_' : peers_'[i] \in Past
          BY <5>1
        <5> USE DEF Past
        <5> QED
          BY <2>1, <5>2
      <4>3. TooOld(k, clock + fade[k])'
        BY <1>0, <2>1, <4>1, <4>2 DEF TooOld
      <4> QED
        BY <2>2, <4>3 DEF Fades
    <3> QED
      BY <3>1, <3>2
  <2>4. CASE k # o
    <3>1. fade'[k] = fade[k]
      BY <1>0, <2>1, <2>4
    <3> QED
      BY <1>0, <2>1, <2>2, <2>4, <3>1, OthersStay DEF Fades
  <2> QED
    BY <2>3, <2>4
<1>6. ASSUME NEW n \in Node, SendRegister(n) \/ RecvOk(n) PROVE Goal
  BY <1>1, <1>6 DEF SendRegister, RecvOk, nodes, ghosts
<1>7. ASSUME NEW c \in Client,
             SendGetPeers(c) \/ RecvList(c) \/ Drop(c) \/ HandleGetNow(c) \/ HandleGetPeers(c)
      PROVE  Goal
  BY <1>1, <1>7 DEF SendGetPeers, RecvList, Drop, Abandon, HandleGetNow, HandleGetPeers, nodes, ghosts
<1>8. CASE CoordinatorRestart
  <2>1. peers_' = <<>> /\ fade' = [j \in PubKey |-> 0]
    BY <1>8 DEF CoordinatorRestart
  <2> QED
    BY <2>1 DEF Fades, TooOld
<1>9. CASE Tick
  <2>1. /\ clock' = clock + 1 /\ fade' = [j \in PubKey |-> Less(fade[j])]
        /\ UNCHANGED <<peers_, alive, id, orphans>>
    BY <1>9 DEF Tick
  <2>2. \A j \in PubKey : Less(fade[j]) \in Nat /\ 1 + Less(fade[j]) >= fade[j]
    BY <1>0 DEF Less
  <2>3. Living(k) => Living(k)'
    BY <2>1 DEF Living, key
  <2>4. fade'[k] = Less(fade[k]) /\ fade' \in [PubKey -> Nat]
    BY <2>1, <2>2
  <2>5. clock' + fade'[k] >= clock + fade[k]
    BY <1>0, <2>1, <2>2, <2>4
  <2> QED
    BY <1>0, <2>1, <2>3, <2>4, <2>5, QuietKey
<1>10. CASE UNCHANGED vars
  BY <1>1, <1>10 DEF vars, nodes, ghosts
<1> QED
  BY <1>2, <1>3, <1>4, <1>5, <1>6, <1>7, <1>8, <1>9, <1>10 DEF Next

(* No key comes back to life, and only keys that were issued are met.      *)
LEMMA IssuedStep ==
  ASSUME IInv, FadeInv, [Next]_vars
  PROVE  /\ \A k \in Keys(peers_)' \cup orphans' : Issued(k)'
         /\ \A k \in PubKey : Issued(k) => Issued(k)'
         /\ \A k \in PubKey : Issued(k) /\ ~Living(k) /\ k \notin orphans
                                 => ~Living(k)' /\ k \notin orphans'
<1> DEFINE Goal == /\ \A k \in Keys(peers_)' \cup orphans' : Issued(k)'
                   /\ \A k \in PubKey : Issued(k) => Issued(k)'
                   /\ \A k \in PubKey : Issued(k) /\ ~Living(k) /\ k \notin orphans
                                           => ~Living(k)' /\ k \notin orphans'
<1> USE NodesAreClients
<1>0. /\ TypeOK /\ ids \in Nat /\ \A k \in Keys(peers_) \cup orphans : Issued(k)
  BY CoordinatorAssumption DEF IInv, FadeInv, TypeOK
<1> DEFINE Known(S) == \A k \in S : k \in Keys(peers_) \cup orphans \/ (Living(k) /\ Issued(k))
           Waits(S) == \A k \in S : k \in orphans \/ (Living(k) /\ Issued(k))
<1>1. ASSUME UNCHANGED <<alive, id, ids>>, Known(Keys(peers_)'), Waits(orphans')
      PROVE  Goal
  <2>1. \A k : (Living(k)' <=> Living(k)) /\ (Issued(k)' <=> Issued(k))
    BY <1>1 DEF Living, key, Issued
  <2> QED
    BY <1>0, <1>1, <2>1
<1>2. ASSUME NEW n \in Node, Start(n) PROVE Goal
  <2>1. /\ ids' = ids + 1 /\ alive' = [alive EXCEPT ![n] = TRUE] /\ id' = [id EXCEPT ![n] = ids']
        /\ UNCHANGED <<peers_, orphans>>
    BY <1>2 DEF Start
  <2>2. \A k \in PubKey : Issued(k) => Issued(k)'
    BY <1>0, <2>1, CoordinatorAssumption DEF Issued, PubKey
  <2>3. ASSUME NEW k \in PubKey, Issued(k), ~Living(k), NEW m \in Node, alive'[m], k = key(m)'
        PROVE  FALSE
    <3>1. CASE m = n
      <4>1. k = <<n, ids + 1>>
        BY <1>0, <2>1, <2>3, <3>1 DEF key, TypeOK
      <4> QED
        BY <1>0, <2>3, <4>1 DEF Issued
    <3>2. CASE m # n
      BY <1>0, <2>1, <2>3, <3>2 DEF key, TypeOK, Living
    <3> QED
      BY <3>1, <3>2
  <2>4. Keys(peers_)' \cup orphans' \subseteq PubKey /\ Keys(peers_)' = Keys(peers_)
    <3>1. \A i \in DOMAIN peers_ : peers_[i] \in Entry
      BY <1>0, EntriesTyped
    <3> QED
      BY <1>0, <2>1, <3>1 DEF Keys, Entry, TypeOK
  <2> QED
    BY <1>0, <2>1, <2>2, <2>3, <2>4 DEF Living
<1>3. ASSUME NEW n \in Node, Crash(n) PROVE Goal
  <2>1. /\ alive' = [alive EXCEPT ![n] = FALSE] /\ UNCHANGED <<id, ids, peers_>> /\ alive[n]
        /\ orphans' \subseteq orphans \cup {key(n)}
    BY <1>3 DEF Crash, Abandon
  <2>2. \A k : (Living(k)' => Living(k)) /\ (Issued(k)' <=> Issued(k))
    BY <1>0, <2>1 DEF Living, key, Issued, TypeOK
  <2>3. Living(key(n)) /\ Issued(key(n)) /\ Keys(peers_)' = Keys(peers_)
    BY <1>0, <2>1, LivingIssued DEF Keys
  <2> QED
    BY <1>0, <2>1, <2>2, <2>3
<1>4. ASSUME NEW n \in Node, HandleRegister(n) PROVE Goal
  <2>1. alive[n] /\ peers_' = Registered(peers_, key(n)) /\ UNCHANGED <<alive, id, ids, orphans>>
    BY <1>0, <1>4 DEF HandleRegister, nodes, TypeOK
  <2>2. key(n) \in PubKey /\ Living(key(n)) /\ Issued(key(n))
    BY <1>0, <2>1, LivingIssued
  <2>3. Keys(peers_)' \subseteq Keys(peers_) \cup {key(n)}
    BY <2>1, <2>2, OthersStay
  <2>4. Known(Keys(peers_)') /\ Waits(orphans')
    BY <2>1, <2>2, <2>3
  <2> HIDE DEF Goal, Known, Waits
  <2> QED
    BY <1>1, <2>1, <2>4
<1>5. ASSUME NEW o \in orphans, HandleOrphan(o) PROVE Goal
  <2>1. /\ peers_' = Registered(peers_, o) /\ UNCHANGED <<alive, id, ids>> /\ orphans' \subseteq orphans
        /\ o \in PubKey
    BY <1>0, <1>5 DEF HandleOrphan, nodes, TypeOK
  <2>2. Keys(peers_)' \subseteq Keys(peers_) \cup {o}
    BY <2>1, OthersStay
  <2>4. Known(Keys(peers_)') /\ Waits(orphans')
    BY <2>1, <2>2
  <2> HIDE DEF Goal, Known, Waits
  <2> QED
    BY <1>1, <2>1, <2>4
<1>6. ASSUME NEW n \in Node, SendRegister(n) \/ RecvOk(n) PROVE Goal
  <2>1. UNCHANGED <<alive, id, ids, peers_, orphans>>
    BY <1>6 DEF SendRegister, RecvOk, nodes
  <2>2. Known(Keys(peers_)') /\ Waits(orphans')
    BY <2>1 DEF Keys
  <2> HIDE DEF Goal, Known, Waits
  <2> QED
    BY <1>1, <2>1, <2>2
<1>7. ASSUME NEW c \in Client,
             SendGetPeers(c) \/ RecvList(c) \/ HandleGetNow(c) \/ HandleGetPeers(c)
      PROVE  Goal
  <2>1. UNCHANGED <<alive, id, ids, peers_, orphans>>
    BY <1>7 DEF SendGetPeers, RecvList, HandleGetNow, HandleGetPeers, nodes
  <2>2. Known(Keys(peers_)') /\ Waits(orphans')
    BY <2>1 DEF Keys
  <2> HIDE DEF Goal, Known, Waits
  <2> QED
    BY <1>1, <2>1, <2>2
<1>8. ASSUME NEW c \in Client, Drop(c) PROVE Goal
  <2>1. /\ UNCHANGED <<alive, id, ids, peers_>>
        /\ orphans' = orphans \/ (c \in Node /\ st[c] = "reg" /\ orphans' = orphans \cup {key(c)})
    BY <1>8 DEF Drop, Abandon
  <2>2. CASE orphans' = orphans
    <3>1. Known(Keys(peers_)') /\ Waits(orphans')
      BY <2>1, <2>2 DEF Keys
    <3> HIDE DEF Goal, Known, Waits
    <3> QED
      BY <1>1, <2>1, <3>1
  <2>3. CASE c \in Node /\ st[c] = "reg" /\ orphans' = orphans \cup {key(c)}
    <3>1. alive[c]
      BY <1>0, <2>3 DEF TypeOK
    <3>2. Living(key(c)) /\ Issued(key(c))
      BY <1>0, <2>3, <3>1, LivingIssued
    <3>3. Known(Keys(peers_)') /\ Waits(orphans')
      BY <2>1, <2>3, <3>2 DEF Keys
    <3> HIDE DEF Goal, Known, Waits
    <3> QED
      BY <1>1, <2>1, <3>3
  <2> QED
    BY <2>1, <2>2, <2>3
<1>9. ASSUME CoordinatorRestart PROVE Goal
  <2>1. UNCHANGED <<alive, id, ids>> /\ peers_' = <<>> /\ orphans' = {}
    BY <1>9 DEF CoordinatorRestart
  <2>2. Keys(peers_)' = {}
    BY <2>1 DEF Keys
  <2>3. Known(Keys(peers_)') /\ Waits(orphans')
    BY <2>1, <2>2
  <2> HIDE DEF Goal, Known, Waits
  <2> QED
    BY <1>1, <2>1, <2>3
<1>10. ASSUME Tick \/ UNCHANGED vars PROVE Goal
  <2>1. UNCHANGED <<alive, id, ids, peers_, orphans>>
    BY <1>10 DEF Tick, vars, nodes
  <2>2. Known(Keys(peers_)') /\ Waits(orphans')
    BY <2>1 DEF Keys
  <2> HIDE DEF Goal, Known, Waits
  <2> QED
    BY <1>1, <2>1, <2>2
<1> QED
  BY <1>2, <1>3, <1>4, <1>5, <1>6, <1>7, <1>8, <1>9, <1>10 DEF Next

(* A registration never brings back an entry of a dead key.                *)
LEMMA OldStays ==
  ASSUME IInv, FadeInv, [Next]_vars, NEW k \in PubKey, ~Living(k), k \notin orphans,
         NEW t, TooOld(k, t)
  PROVE  TooOld(k, t)'
<1> USE NodesAreClients
<1>0. TypeOK
  BY DEF IInv
<1>1. CASE peers_' = peers_ \/ peers_' = <<>>
  BY <1>1 DEF TooOld
<1>2. ASSUME NEW n \in Node, HandleRegister(n) PROVE TooOld(k, t)'
  <2>1. alive[n] /\ peers_' = Registered(peers_, key(n))
    BY <1>0, <1>2 DEF HandleRegister, TypeOK
  <2>2. key(n) \in PubKey /\ Living(key(n))
    BY <1>0, <2>1, LivingIssued
  <2> QED
    BY <2>1, <2>2, OthersStay
<1>3. ASSUME NEW o \in orphans, HandleOrphan(o) PROVE TooOld(k, t)'
  <2>1. peers_' = Registered(peers_, o) /\ o \in PubKey
    BY <1>0, <1>3 DEF HandleOrphan, TypeOK
  <2> QED
    BY <2>1, OthersStay
<1> QED
  BY <1>1, <1>2, <1>3
     DEF Next, Start, Crash, SendRegister, RecvOk, SendGetPeers, RecvList, Drop, HandleGetNow,
         HandleGetPeers, CoordinatorRestart, Tick, vars

(* One step of the system, seen from client c: what had faded when the     *)
(* handler read the clock stays buried until it takes the lock.            *)
LEMMA BuriedStep ==
  ASSUME IInv, FadeInv, [Next]_vars, NEW c \in Client
  PROVE  /\ dead'[c] \subseteq PubKey
         /\ st'[c] = "got_now" => \A k \in dead'[c] : Buried(c, k)'
<1> DEFINE Goal == /\ dead'[c] \subseteq PubKey
                   /\ st'[c] = "got_now" => \A k \in dead'[c] : Buried(c, k)'
<1> USE NodesAreClients
<1>0. /\ TypeOK /\ dead \in [Client -> SUBSET PubKey] /\ fade \in [PubKey -> Nat] /\ clock \in Nat
      /\ st[c] = "got_now" => \A k \in dead[c] : Buried(c, k)
  BY EntriesTyped DEF IInv, FadeInv
<1>1. ASSUME dead'[c] = dead[c], st'[c] = "got_now" => st[c] = "got_now" /\ now'[c] = now[c]
      PROVE  Goal
  <2> SUFFICES ASSUME st'[c] = "got_now", NEW k \in dead[c] PROVE Buried(c, k)'
    BY <1>0, <1>1
  <2>1. k \in PubKey /\ Buried(c, k) /\ now'[c] = now[c]
    BY <1>0, <1>1
  <2>2. Issued(k)' /\ ~Living(k)' /\ k \notin orphans'
    BY <2>1, IssuedStep DEF Buried
  <2>3. TooOld(k, now[c])'
    <3>1. PICK t : t = now[c]
      OBVIOUS
    <3>2. TooOld(k, t)'
      BY <2>1, <3>1, OldStays DEF Buried
    <3> QED
      BY <2>1, <3>1, <3>2 DEF TooOld
  <2> QED
    BY <2>2, <2>3 DEF Buried
<1>2. ASSUME NEW d \in Client, HandleGetNow(d) PROVE Goal
  <2>1. CASE d # c
    BY <1>0, <1>1, <1>2, <2>1 DEF HandleGetNow, TypeOK
  <2>2. CASE d = c
    <3>1. /\ dead'[c] = {k \in Keys(peers_) \ orphans : ~Living(k) /\ fade[k] = 0}
          /\ now'[c] = clock /\ UNCHANGED <<peers_, orphans, alive, id, ids>>
      BY <1>0, <1>2, <2>2 DEF HandleGetNow, TypeOK, nodes
    <3>2. Keys(peers_) \subseteq PubKey
      <4>1. \A i \in DOMAIN peers_ : peers_[i] \in Entry
        BY <1>0, EntriesTyped
      <4> QED
        BY <4>1 DEF Keys, Entry
    <3>3. ASSUME NEW k \in dead'[c] PROVE Buried(c, k)'
      <4>1. /\ k \in PubKey /\ k \in Keys(peers_) /\ k \notin orphans /\ ~Living(k) /\ fade[k] = 0
        BY <3>1, <3>2, <3>3
      <4>2. Issued(k) /\ TooOld(k, clock + fade[k])
        BY <4>1 DEF FadeInv, Fades
      <4>3. TooOld(k, clock)
        BY <1>0, <4>1, <4>2
      <4>4. TooOld(k, now[c])' /\ ~Living(k)' /\ Issued(k)' /\ k \notin orphans'
        BY <3>1, <4>1, <4>2, <4>3 DEF TooOld, Living, key, Issued
      <4> QED
        BY <4>4 DEF Buried
    <3> QED
      BY <3>1, <3>2, <3>3
  <2> QED
    BY <2>1, <2>2
<1>3. ASSUME NEW d \in Client, Hangup(d) PROVE Goal
  <2>1. CASE d # c
    BY <1>0, <1>1, <1>3, <2>1 DEF Hangup, TypeOK
  <2>2. CASE d = c
    BY <1>0, <1>3, <2>2 DEF Hangup, TypeOK
  <2> QED
    BY <2>1, <2>2
<1>4. ASSUME NEW d \in Client, SendGetPeers(d) \/ HandleGetPeers(d) \/ RecvList(d) \/ Drop(d)
      PROVE  Goal
  BY <1>0, <1>1, <1>3, <1>4 DEF SendGetPeers, HandleGetPeers, RecvList, Drop, Over, ghosts, TypeOK
<1>5. ASSUME NEW n \in Node,
             Start(n) \/ Crash(n) \/ SendRegister(n) \/ RecvOk(n) \/ HandleRegister(n)
      PROVE  Goal
  BY <1>0, <1>1, <1>3, <1>5
     DEF Start, Crash, SendRegister, RecvOk, HandleRegister, client, ghosts, TypeOK
<1>6. CASE (\E o \in orphans : HandleOrphan(o)) \/ Tick \/ UNCHANGED vars
  BY <1>1, <1>6 DEF HandleOrphan, Tick, vars, client, ghosts
<1>7. CASE CoordinatorRestart
  BY <1>7 DEF CoordinatorRestart
<1> QED
  BY <1>2, <1>4, <1>5, <1>6, <1>7 DEF Next

(* dead stays a function of the clients.                                   *)
LEMMA DeadTyped ==
  ASSUME IInv, FadeInv, [Next]_vars PROVE DOMAIN dead' = Client /\ dead' = [c \in Client |-> dead'[c]]
<1>1. dead \in [Client -> SUBSET PubKey]
  BY DEF FadeInv
<1>2. ASSUME NEW d \in Client, Hangup(d)
      PROVE  DOMAIN dead' = Client /\ dead' = [c \in Client |-> dead'[c]]
  BY <1>1, <1>2 DEF Hangup
<1> QED
  BY <1>1, <1>2, NodesAreClients
     DEF Next, Start, Crash, SendRegister, RecvOk, HandleRegister, HandleOrphan, SendGetPeers,
         RecvList, Drop, Over, HandleGetNow, HandleGetPeers, CoordinatorRestart, Tick, vars, ghosts

(* A dead daemon leaves the lists PEER_TTL after its last sign of life,    *)
(* for any nodes, lookups and times, although its entry stays.             *)
THEOREM DeadAreForgottenAlways == Spec => DeadAreForgotten
<1> DEFINE A == \A c \in Client : Answered(c) => dead[c] \cap reply'[c] = {}
<1>1. Init => FadeInv
  BY DEF Init, FadeInv, Keys, Fades, TooOld
<1>2. IInv /\ FadeInv /\ [Next]_vars => FadeInv'
  <2> SUFFICES ASSUME IInv, FadeInv, [Next]_vars PROVE FadeInv'
    OBVIOUS
  <2>1. fade' \in [PubKey -> Nat]
    BY FadeTyped
  <2>2. dead' \in [Client -> SUBSET PubKey]
    BY DeadTyped, BuriedStep
  <2> QED
    BY <2>1, <2>2, FadesStep, IssuedStep, BuriedStep DEF FadeInv
<1>3. IInv /\ FadeInv /\ [Next]_vars => [A]_vars
  <2> SUFFICES ASSUME IInv, FadeInv, Next, NEW c \in Client, Answered(c), NEW k \in dead[c], k \in reply'[c]
               PROVE  FALSE
    OBVIOUS
  <2>1. PICK i \in DOMAIN peers_ : Fresh(now[c], peers_[i].last_seen) /\ peers_[i].pubkey = k
    BY AnsweredByHandler DEF Snapshot
  <2>2. peers_[i].last_seen + PEER_TTL < now[c]
    BY <2>1 DEF FadeInv, Buried, TooOld, Answered
  <2>3. peers_[i].last_seen \in Nat /\ now[c] \in Nat /\ PEER_TTL \in Nat
    <3>1. peers_[i] \in Entry /\ clock \in Nat
      BY EntriesTyped DEF IInv
    <3> QED
      BY <3>1, CoordinatorAssumption DEF Entry, IInv, TypeOK
  <2> QED
    BY <2>1, <2>2, <2>3 DEF Fresh
<1>4. Spec => []IInv
  BY UniqueKeysAlways DEF IInv
<1> QED
  BY <1>1, <1>2, <1>3, <1>4, PTL DEF Spec, DeadAreForgotten

=============================================================================
