--------------------------- MODULE MessageChannel ---------------------------
(***************************************************************************)
(* What a peer connection promises to the two nodes it joins, one way:     *)
(* messages are delivered whole, once, and in the order in which they were *)
(* submitted.  When the connection is lost, what has not been delivered is *)
(* a suffix of what was submitted.                                         *)
(***************************************************************************)
EXTENDS Naturals, Sequences

CONSTANT Message
VARIABLES sent, delivered

Init == sent = <<>> /\ delivered = <<>>

Submit(m) == sent' = Append(sent, m) /\ UNCHANGED delivered

Deliver ==
    /\ Len(delivered) < Len(sent)
    /\ delivered' = Append(delivered, sent[Len(delivered) + 1])
    /\ UNCHANGED sent

Next == (\E m \in Message : Submit(m)) \/ Deliver

Spec == Init /\ [][Next]_<<sent, delivered>>
=============================================================================
