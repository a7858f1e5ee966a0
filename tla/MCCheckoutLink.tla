--------------------------- MODULE MCCheckoutLink ---------------------------
(* CheckoutLink for two orders and two checkouts that share a cart token.  *)
EXTENDS CheckoutLink, TLC

CONSTANTS o1, o2, c1, c2, id1, tok1, tok2, weak

Ids(id, token, cartToken) ==
    [t \in Type |-> CASE t = "checkout_id" -> id [] t = "checkout_token" -> token
                      [] t = "cart_token" -> cartToken]

WorkerSymmetry == Permutations(Worker)

\* c1 came by webhook; c2 has its token only
MCCartIds ==
    [c \in Cart |-> IF c = c1 THEN [typed |-> Ids(id1, tok1, weak), external |-> id1]
                    ELSE [typed |-> Ids(None, tok2, weak), external |-> tok2]]

\* o1 names both checkouts; o2 is c1's by a token, or has the shared one only
MCPayloads ==
    [o \in Order |-> IF o = o1 THEN {Ids(id1, tok2, None)}
                     ELSE {Ids(None, tok1, None), Ids(None, None, weak)}]
MCSynced == [o \in Order |-> Ids(None, IF o = o1 THEN tok2 ELSE tok1, None)]
=============================================================================
