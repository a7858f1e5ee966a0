-------------------------- MODULE MCCommerceAction --------------------------
(* CommerceAction for one action on a product that a merchant may edit.     *)
EXTENDS CommerceAction

CONSTANTS a1, plain, textA, textB

MCDesired == [a \in Action |-> IF a = a1 THEN textA ELSE textB]
=============================================================================
