--------------------------- MODULE MCRecoverySend ---------------------------
(* RecoverySend for one message about one cart and two workers.            *)
EXTENDS RecoverySend

CONSTANTS c1

MCCartOf == [s \in Send |-> c1]
=============================================================================
