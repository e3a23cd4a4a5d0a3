----------------------------- MODULE PeerTable -----------------------------
(***************************************************************************)
(* The erasure from node::peers_ (remove_peer in node/node.cpp), which the *)
(* modules NodeNetwork and Control share: std::remove_if moves the entries *)
(* to be kept to the front, in their order, and erase cuts off the rest.   *)
(***************************************************************************)
EXTENDS Naturals, Sequences

(* peers without the entries that are raw.  kept[i] is what remove_if has  *)
(* moved to the front when it has gone through the first i entries.        *)
erased(peers, raw) ==
    LET kept[i \in 0 .. Len(peers)] ==
          IF i = 0 THEN <<>>
          ELSE IF peers[i] = raw THEN kept[i - 1] ELSE Append(kept[i - 1], peers[i])
    IN  kept[Len(peers)]
=============================================================================
