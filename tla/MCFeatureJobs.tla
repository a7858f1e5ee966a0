--------------------------- MODULE MCFeatureJobs ---------------------------
(* FeatureJobs for two events of one shopper.                              *)
EXTENDS FeatureJobs

CONSTANTS j1, j2, c1, c2, k1

MCCartOf == [j \in Job |-> IF j = j1 THEN c1 ELSE c2]
MCCustomerOf == [c \in Cart |-> k1]
=============================================================================
