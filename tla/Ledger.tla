------------------------------- MODULE Ledger -------------------------------
(***************************************************************************)
(* What the order ledger promises: every order that arrives, by webhook or *)
(* by sync, takes effect at one instant, on the rows of that instant.  An  *)
(* upsert applies the rules of FinancialIntegrity to the row it replaces,  *)
(* and a cancellation leaves a tombstone.  There are two exceptions.  An   *)
(* upsert that a cancellation raced may not know of the tombstone, and an  *)
(* order whose payloads name several customers may be written by an upsert *)
(* that goes by an older row.                                              *)
(***************************************************************************)
EXTENDS FinancialIntegrity

CONSTANTS Order,
          OrderRow,     \* the rows of an order
          Sent,         \* the payloads the provider may send of each order
          Cancellable,  \* the orders it may report as cancelled
          Shared        \* the orders whose payloads name several customers

VARIABLES orders,       \* the row of each order, or None
          tombs,        \* the orders with a tombstone
          raced         \* the orders whose cancellation raced an upsert

vars == <<orders, tombs, raced>>

Init == orders = [o \in Order |-> None] /\ tombs = {} /\ raced = {}

\* the row that an upsert leaves
Upserted(existing, payload, tombstone) ==
    LET money == ReconcileOrderMoney(payload, IF existing = None THEN None ELSE existing.refunded)
    IN  [status |-> ResolveRecoveryStatus(existing, tombstone),
         total |-> money.total, refunded |-> money.refunded, customer |-> payload.customer]

Upsert(o, payload) ==
    /\ \E tombstone \in BOOLEAN :
          /\ tombstone => o \in tombs
          /\ o \in tombs /\ ~tombstone => orders[o] = None /\ o \in raced
          /\ orders' = [orders EXCEPT ![o] = Upserted(orders[o], payload, tombstone)]
    /\ UNCHANGED <<tombs, raced>>

Overtaken(o, payload) ==
    /\ o \in Shared /\ orders[o] # None
    /\ \E existing \in OrderRow \cup {None}, tombstone \in BOOLEAN :
          /\ tombstone => o \in tombs
          /\ o \in tombs /\ ~tombstone => o \in raced
          /\ orders' = [orders EXCEPT ![o] = Upserted(existing, payload, tombstone)]
    /\ UNCHANGED <<tombs, raced>>

Cancel(o) ==
    /\ orders' = IF orders[o] = None THEN orders
                 ELSE [orders EXCEPT ![o].status = "cancelled"]
    /\ tombs' = tombs \cup {o}
    /\ \/ UNCHANGED raced
       \/ /\ orders[o] = None \/ o \in Shared
          /\ o \notin tombs /\ raced' = raced \cup {o}

Next ==
    \E o \in Order :
        \/ \E payload \in Sent[o] : Upsert(o, payload) \/ Overtaken(o, payload)
        \/ o \in Cancellable /\ Cancel(o)

Spec == Init /\ [][Next]_vars
=============================================================================
