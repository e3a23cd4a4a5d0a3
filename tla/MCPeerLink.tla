------------------------------ MODULE MCPeerLink ------------------------------
(* Instances of PeerLink for TLC.                                          *)
EXTENDS PeerLink

CONSTANTS s1, s2, t1, a, b

MCThread == {s1, s2}
MCTransferId == {t1}

(* An empty text, one of exactly CHUNK_PAYLOAD_SIZE cells, one of more.    *)
MCTexts == {<<>>, <<a, b>>, <<b, a, a, b, a>>}
MCFiles == {<<b>>}

(* A text that begins like a chunk frame.                                  *)
MCLookalike == <<[transfer_id |-> t1, index |-> 0, total |-> 1], a>>
MCTextsLookalike == {<<a>>, MCLookalike}

MCTextsEmpty == {<<a>>, <<>>}
MCNone == {}
MCLongFiles == {<<a, a, b, b, a>>}
=============================================================================
