--------------------------- MODULE MCOrderLedger ---------------------------
(* Two orders.  The payloads of the first name two customers; it is         *)
(* refunded and then cancelled.  The second is the second customer's and    *)
(* stays as it was placed, so that the transactions of both meet on its row. *)
EXTENDS OrderLedger
CONSTANTS o1, o2, c1, c2

MCOrder == {o1, o2}
MCCustomer == {c1, c2}
MCNames == [o \in MCOrder |-> IF o = o1 THEN {c1, c2} ELSE {c2}]
MCFinal == [o \in MCOrder |->
    IF o = o1 THEN [refunded |-> Gross, cancelled |-> TRUE, customer |-> c1]
              ELSE [refunded |-> 0, cancelled |-> FALSE, customer |-> c2]]
=============================================================================
