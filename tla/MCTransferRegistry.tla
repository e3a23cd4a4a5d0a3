------------------------- MODULE MCTransferRegistry -------------------------
(* Instance of TransferRegistry for TLC.                                   *)
EXTENDS TransferRegistry, TLC

CONSTANTS t1, t2, a, b

MCTransferId == {t1, t2}
MCData == {<<a>>, <<b>>}
MCSymmetry == Permutations(MCTransferId) \cup Permutations({a, b})
=============================================================================
