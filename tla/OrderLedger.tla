---------------------------- MODULE OrderLedger ----------------------------
(***************************************************************************)
(* The order ledger of commerceWebhookService.js: the transactions of      *)
(* upsertOrder and cancelOrder, at the grain of their SQL statements, with *)
(* the money rules of financialIntegrity.js and the order pass of          *)
(* shopifySync.js that runs over the same rows.                            *)
(*                                                                         *)
(* Prisma opens these transactions at Postgres' default READ COMMITTED:    *)
(* a read sees the latest committed rows and the transaction's own writes, *)
(* a write takes the row's lock until commit, waiting for another holder,  *)
(* and then applies to the latest committed version.  A cycle of waits is  *)
(* broken by aborting one of its transactions.                             *)
(*                                                                         *)
(* Shopify's state of an order only moves on (refunds grow, a cancellation *)
(* stays) up to `final`; a payload may carry any state up to it, however   *)
(* late and however often.  Its customer may change: a customer added or   *)
(* merged later, or the fallback `order:<id>` of a payload without one     *)
(* (customerData).  Line items and the checkout link are not part of this  *)
(* module.                                                                 *)
(***************************************************************************)
EXTENDS FinancialIntegrity, FiniteSetsExt

CONSTANTS Order,        \* external order ids
          Customer,
          names,        \* the customers the payloads of each order may name
          Gross,        \* the amount every order was placed for
          final,        \* the state each order comes to have in Shopify
          Hook,         \* workers that serve order webhooks
          Sync,         \* the worker running the store's order sync pass
          MaxEvents     \* bound on payloads served before the final one and statements failing

ASSUME NamesAssumption == names \in [Order -> SUBSET Customer]
ASSUME GrossAssumption == Gross \in Nat
ASSUME FinalAssumption ==
    /\ final \in [Order -> [refunded : 0..Gross, cancelled : BOOLEAN, customer : Customer]]
    /\ \A o \in Order : final[o].customer \in names[o]
ASSUME EventsAssumption == MaxEvents \in Nat
ASSUME WorkerAssumption == Sync \notin Hook /\ None \notin Hook \cup {Sync} \cup Order

Worker == Hook \cup {Sync}

VARIABLES orders,       \* committed orders rows
          tombs,        \* committed order_cancellation_tombstones
          ltv,          \* committed customers.ltv
          lock,         \* the transaction holding each row lock
          tx,           \* the transaction of each worker
          sum,          \* the revenue each transaction summed last
          events,       \* payloads served and statements failed so far
          raced,        \* history: orders cancelled while an upsert was past its
                        \* tombstone read
          overtaken     \* history: upserts whose order another customer's
                        \* transaction wrote after they had read it

vars == <<orders, tombs, ltv, lock, tx, sum, events, raced, overtaken>>
ledger == <<orders, tombs, ltv, raced>>

\* None stands for SQL null: no row, no refund evidence, nothing written yet.
Amount == 0..Gross
OrderRow == [status : {"completed", "cancelled"}, total : Amount,
             refunded : Amount \cup {None}, customer : Customer]
Payload == [net : Amount, refunded : Amount \cup {None}, customer : Customer]

ASSUME NoneAssumption == None \notin OrderRow /\ None \notin Payload /\ None \notin Amount

Lockable == ({"customer"} \X Customer) \cup ({"order", "tombstone"} \X Order)

Location == {"idle", "upsertCustomer", "readOrder", "readTombstone", "writeOrder",
             "writeTombstone", "findOrder", "markCancelled", "sumOrders", "writeLtv"}

\* What a transaction knows and has written but not committed.
Tx == [pc : Location, order : Order \cup {None}, payload : Payload \cup {None},
       existing : OrderRow \cup {None}, tombstone : BOOLEAN,
       wroteOrder : OrderRow \cup {None}, wroteTomb : BOOLEAN]
NoTx == [pc |-> "idle", order |-> None, payload |-> None, existing |-> None,
         tombstone |-> FALSE, wroteOrder |-> None, wroteTomb |-> FALSE]

TypeOK ==
    /\ orders \in [Order -> OrderRow \cup {None}]
    /\ tombs \subseteq Order
    /\ ltv \in [Customer -> Nat]
    /\ lock \in [Lockable -> Worker \cup {None}]
    /\ tx \in [Worker -> Tx]
    /\ sum \in [Worker -> Nat]
    /\ events \in 0..MaxEvents
    /\ raced \subseteq Order
    /\ overtaken \subseteq Worker

Init ==
    /\ orders = [o \in Order |-> None]
    /\ tombs = {}
    /\ ltv = [c \in Customer |-> 0]
    /\ lock = [l \in Lockable |-> None]
    /\ tx = [w \in Worker |-> NoTx]
    /\ sum = [w \in Worker |-> 0]
    /\ events = 0 /\ raced = {} /\ overtaken = {}

----------------------------------------------------------------------------
(* Transactions and row locks. *)

InOrder(w) == tx[w].order
\* the customer of an upsert's payload, of the row a cancellation found
CustomerOf(w) == IF tx[w].payload # None THEN tx[w].payload.customer ELSE tx[w].existing.customer
CustomerKey(w) == <<"customer", CustomerOf(w)>>
OrderKey(w) == <<"order", InOrder(w)>>
TombstoneKey(w) == <<"tombstone", InOrder(w)>>

Free(w, l) == lock[l] \in {None, w}
TakeLock(w, l) == Free(w, l) /\ lock' = [lock EXCEPT ![l] = w]
Unlocked(w) == [l \in Lockable |-> IF lock[l] = w THEN None ELSE lock[l]]

\* the row lock the transaction's next statement takes
Wanted(w) ==
    CASE tx[w].pc \in {"upsertCustomer", "writeLtv"}  -> {CustomerKey(w)}
      [] tx[w].pc \in {"writeOrder", "markCancelled"} -> {OrderKey(w)}
      [] tx[w].pc = "writeTombstone"                  -> {TombstoneKey(w)}
      [] OTHER                                        -> {}
WaitsFor(v, w) == v # w /\ \E l \in Wanted(v) : lock[l] = w
Deadlocked(w) ==
    \E circle \in SUBSET Worker :
        w \in circle /\ \A v \in circle : \E u \in circle : WaitsFor(v, u)

Begin(w, o, statement, payload) ==
    /\ tx[w].pc = "idle"
    /\ tx' = [tx EXCEPT ![w] = [NoTx EXCEPT !.pc = statement, !.order = o, !.payload = payload]]

End(w) ==
    /\ tx' = [tx EXCEPT ![w] = NoTx]
    /\ sum' = [sum EXCEPT ![w] = 0]
    /\ lock' = Unlocked(w)

\* The upserts of w's order that have read its row and not written it yet.  Those of
\* w's own customer are not among them: w holds that customer's row, or waits for it.
Overtakes(w) ==
    IF tx[w].wroteOrder = None THEN {}
    ELSE {v \in Worker \ {w} : /\ InOrder(v) = InOrder(w) /\ tx[v].payload # None
                               /\ tx[v].pc \in {"readTombstone", "writeOrder"}
                               /\ CustomerOf(v) # CustomerOf(w)}

\* an upsert that will not see a tombstone committed now
PastTombstone(v, o) ==
    /\ InOrder(v) = o /\ tx[v].payload # None /\ ~tx[v].tombstone
    /\ tx[v].pc \in {"writeOrder", "sumOrders", "writeLtv"}

\* rows as the transaction sees them
Seen(w) ==
    IF tx[w].wroteOrder = None THEN orders
    ELSE [orders EXCEPT ![InOrder(w)] = tx[w].wroteOrder]

Commit(w) ==
    /\ orders' = Seen(w)
    /\ tombs' = IF tx[w].wroteTomb THEN tombs \cup {InOrder(w)} ELSE tombs
    /\ raced' = raced \cup {o \in tombs' \ tombs : \E v \in Worker : PastTombstone(v, o)}
    /\ overtaken' = (overtaken \cup Overtakes(w)) \ {w}
    /\ End(w)

----------------------------------------------------------------------------
(* The states of an order, and the two ways they reach the service. *)

\* what happens to an order once it is cancelled is not read
UpTo(o) == {[refunded |-> r, cancelled |-> FALSE, customer |-> c] :
               r \in 0..final[o].refunded, c \in names[o]} \cup {final[o]}

\* What a payload of that state may carry: the net total and the refunds behind
\* it (shopifyNetOrderTotal, shopifyRefundedAmount), a net total whose refunds
\* are not given, or the order's total with no refund evidence at all.
PayloadsOf(s) == [net : {Gross - s.refunded}, refunded : {s.refunded, None}, customer : {s.customer}]
                    \cup [net : {Gross}, refunded : {None}, customer : {s.customer}]

\* the payloads an order's upserts may carry, the orders ever cancelled, and those
\* whose payloads do not agree on the customer
Sent == [o \in Order |-> UNION {PayloadsOf(s) : s \in {t \in UpTo(o) : ~t.cancelled}}]
Cancellable == {o \in Order : final[o].cancelled}
Shared == {o \in Order : \E c, d \in names[o] : c # d}

\* processCommerceWebhook and syncOrders route a cancelled order to cancelOrder.
Ingest(w, o, s) ==
    /\ IF s.cancelled THEN Begin(w, o, "writeTombstone", None)
       ELSE \E payload \in PayloadsOf(s) : Begin(w, o, "upsertCustomer", payload)
    /\ UNCHANGED <<ledger, lock, sum, overtaken>>

Webhook(w, o) ==
    /\ w \in Hook
    /\ events < MaxEvents /\ events' = events + 1
    /\ \E s \in UpTo(o) : Ingest(w, o, s)

\* the pass fetched its orders before it began to write them
SyncOrder(o) ==
    /\ events < MaxEvents /\ events' = events + 1
    /\ \E s \in UpTo(o) : Ingest(Sync, o, s)
SyncFinalOrder(o) == UNCHANGED events /\ Ingest(Sync, o, final[o])

----------------------------------------------------------------------------
(* upsertOrder *)

\* Faulty variant: a customer that is already known is only read.
UpsertCustomer_NoLock(w) ==
    /\ tx[w].pc = "upsertCustomer"
    /\ tx' = [tx EXCEPT ![w].pc = "readOrder"]
    /\ UNCHANGED <<ledger, lock, sum, events, overtaken>>

\* the first statement: the upserts that name this customer queue here
UpsertCustomer(w) ==
    /\ tx[w].pc = "upsertCustomer"
    /\ TakeLock(w, CustomerKey(w))
    /\ tx' = [tx EXCEPT ![w].pc = "readOrder"]
    /\ UNCHANGED <<ledger, sum, events, overtaken>>

ReadOrder(w) ==
    /\ tx[w].pc = "readOrder"
    /\ tx' = [tx EXCEPT ![w] = [@ EXCEPT !.pc = "readTombstone", !.existing = orders[InOrder(w)]]]
    /\ UNCHANGED <<ledger, lock, sum, events, overtaken>>

ReadTombstone(w) ==
    /\ tx[w].pc = "readTombstone"
    /\ tx' = [tx EXCEPT ![w] = [@ EXCEPT !.pc = "writeOrder", !.tombstone = InOrder(w) \in tombs]]
    /\ UNCHANGED <<ledger, lock, sum, events, overtaken>>

\* upsert: its create branch stores the payload's own money, its update branch
\* what was reconciled with the row read before; both take the payload's customer
WriteOrder(w) ==
    LET t == tx[w]
        money == ReconcileOrderMoney(t.payload, IF t.existing = None THEN None
                                                ELSE t.existing.refunded)
        status == ResolveRecoveryStatus(t.existing, t.tombstone)
    IN  /\ t.pc = "writeOrder"
        /\ TakeLock(w, OrderKey(w))
        /\ tx' = [tx EXCEPT ![w] = [@ EXCEPT !.pc = "sumOrders", !.wroteOrder =
                IF orders[t.order] = None
                THEN [status |-> status, total |-> t.payload.net,
                      refunded |-> t.payload.refunded, customer |-> t.payload.customer]
                ELSE [status |-> status, total |-> money.total,
                      refunded |-> money.refunded, customer |-> t.payload.customer]]]
        /\ UNCHANGED <<ledger, sum, events, overtaken>>

----------------------------------------------------------------------------
(* cancelOrder *)

WriteTombstone(w) ==
    /\ tx[w].pc = "writeTombstone"
    /\ TakeLock(w, TombstoneKey(w))
    /\ tx' = [tx EXCEPT ![w] = [@ EXCEPT !.pc = "findOrder", !.wroteTomb = TRUE]]
    /\ UNCHANGED <<ledger, sum, events, overtaken>>

\* Faulty variant: an order whose tombstone is already there needs no update.
FindOrder_OnceOnly(w) ==
    /\ tx[w].pc = "findOrder"
    /\ IF orders[InOrder(w)] = None \/ InOrder(w) \in tombs
       THEN Commit(w) /\ UNCHANGED ltv
       ELSE /\ tx' = [tx EXCEPT ![w] = [@ EXCEPT !.pc = "markCancelled",
                                                 !.existing = orders[InOrder(w)]]]
            /\ UNCHANGED <<ledger, lock, sum, overtaken>>
    /\ UNCHANGED events

\* no order yet: the tombstone is all that is left behind
FindOrder(w) ==
    /\ tx[w].pc = "findOrder"
    /\ IF orders[InOrder(w)] = None
       THEN Commit(w) /\ UNCHANGED ltv
       ELSE /\ tx' = [tx EXCEPT ![w] = [@ EXCEPT !.pc = "markCancelled",
                                                 !.existing = orders[InOrder(w)]]]
            /\ UNCHANGED <<ledger, lock, sum, overtaken>>
    /\ UNCHANGED events

MarkCancelled(w) ==
    /\ tx[w].pc = "markCancelled"
    /\ TakeLock(w, OrderKey(w))
    /\ tx' = [tx EXCEPT ![w] = [@ EXCEPT !.pc = "sumOrders",
                  !.wroteOrder = [orders[InOrder(w)] EXCEPT !.status = "cancelled"]]]
    /\ UNCHANGED <<ledger, sum, events, overtaken>>

----------------------------------------------------------------------------
(* recalculateCustomerTotals, the last step of both *)

Revenue(c, rows) ==
    MapThenSumSet(LAMBDA o : rows[o].total,
                  {o \in Order : rows[o] # None /\ rows[o].customer = c
                                 /\ rows[o].status # "cancelled"})

SumOrders(w) ==
    /\ tx[w].pc = "sumOrders"
    /\ tx' = [tx EXCEPT ![w].pc = "writeLtv"]
    /\ sum' = [sum EXCEPT ![w] = Revenue(CustomerOf(w), Seen(w))]
    /\ UNCHANGED <<ledger, lock, events, overtaken>>

\* the update of the customers row, and the commit that follows it
WriteLtv(w) ==
    /\ tx[w].pc = "writeLtv"
    /\ Free(w, CustomerKey(w))
    /\ ltv' = [ltv EXCEPT ![CustomerOf(w)] = sum[w]]
    /\ Commit(w)
    /\ UNCHANGED events

----------------------------------------------------------------------------
(* Transactions that do not commit. *)

\* Postgres breaks a cycle of waits by aborting one of its transactions.
DeadlockAbort(w) ==
    /\ Deadlocked(w)
    /\ End(w)
    /\ overtaken' = overtaken \ {w}
    /\ UNCHANGED <<ledger, events>>

\* a failing statement, a timeout or the death of the process
Abort(w) ==
    /\ tx[w].pc # "idle"
    /\ events < MaxEvents /\ events' = events + 1
    /\ End(w)
    /\ overtaken' = overtaken \ {w}
    /\ UNCHANGED ledger

----------------------------------------------------------------------------

Statement(w) ==
    \/ UpsertCustomer(w) \/ ReadOrder(w) \/ ReadTombstone(w) \/ WriteOrder(w)
    \/ WriteTombstone(w) \/ FindOrder(w) \/ MarkCancelled(w)
    \/ SumOrders(w) \/ WriteLtv(w)
    \/ DeadlockAbort(w)

Next ==
    \/ \E o \in Order :
          \/ SyncOrder(o) \/ SyncFinalOrder(o)
          \/ \E w \in Hook : Webhook(w, o)
    \/ \E w \in Worker : Statement(w) \/ Abort(w)

Spec == Init /\ [][Next]_vars

\* A transaction runs on and, however often its row is taken before it (Postgres grants
\* a lock to its waiters in turn), gets it in the end; and the recurring sync comes
\* round to every order with the state it has come to.  Each pass fetches anew, so
\* older states have an end.
FairSpec ==
    /\ Spec
    /\ \A w \in Worker : SF_vars(Statement(w))
    /\ \A o \in Order : SF_vars(SyncFinalOrder(o))

----------------------------------------------------------------------------
(* Properties. *)

Completed(o) == orders[o] # None /\ orders[o].status = "completed"
Cancelled(o) == orders[o] # None /\ orders[o].status = "cancelled"

\* `new` may replace `old`: not less cancelled and not less refunded.
Succeeds(new, old) ==
    old # None =>
        /\ old.status = "cancelled" => new.status = "cancelled"
        /\ old.refunded # None => new.refunded # None /\ new.refunded >= old.refunded

\* the commit of an overtaken upsert of o
ByOvertaken(o) == \E w \in overtaken : InOrder(w) = o /\ tx'[w].pc = "idle"

\* "A cancelled order is terminal for revenue even if a delayed order-update
\* arrives later" (resolveOrderRecoveryStatus) and "the recorded refunded amount
\* is monotonic" (upsertOrder): both are computed from rows read before the write.
\* No interleaving brings a cancelled order or a refunded amount back, but for an
\* upsert that names another customer than the transaction it lost to, so that
\* the two did not queue on one customer's row.
NothingComesBack ==
    [][\A o \in Order : orders[o] # None
          => /\ orders'[o] # None
             /\ Succeeds(orders'[o], orders[o]) \/ ByOvertaken(o)]_vars

\* Those two comments as they stand, without the exception.  Refuted by two
\* payloads of one order with different customers.
EvidenceIsMonotonic ==
    [][\A o \in Order : orders[o] # None
          => orders'[o] # None /\ Succeeds(orders'[o], orders[o])]_vars

\* Every transaction takes effect at one instant, its commit, as if it had read
\* its rows then: the customer's row serializes the upserts that name it
\* (upsertOrder) and holds a cancellation of an existing order back (cancelOrder).
\* Two exceptions are all there is: a create can miss the tombstone of the
\* cancellation that raced it, and where payloads of an order disagree on its
\* customer, an upsert may go by an older row of the order.
LedgerImpl == INSTANCE Ledger
LedgerSpec == LedgerImpl!Spec

\* Hence an order that a create raced into revenue past its cancellation leaves it
\* with the next write of its row, whatever that write carries, but an overtaken one.
RaceEndsWithNextWrite ==
    [][\A o \in tombs : orders[o] # None /\ orders'[o] # orders[o]
          => Cancelled(o)' \/ ByOvertaken(o)]_vars

\* "it can understate net revenue (never overstate it)" (reconcileOrderMoney): a
\* row never counts money that its own refund evidence says was given back.
NeverOverstated ==
    \A o \in Order :
        orders[o] # None /\ orders[o].refunded # None
            => orders[o].total + orders[o].refunded <= Gross

\* A tombstone keeps its order out of revenue, unless it was committed while an
\* upsert of that order was already past its tombstone read (cancelOrder, upsertOrder).
TombstoneHolds == \A o \in tombs \ raced : ~Completed(o)

\* Without that exception: "the tombstone prevents the later create from
\* resurrecting cancelled revenue" (cancelOrder).  Refuted by that race, with two
\* handlers.
TombstonePrevents == \A o \in tombs : ~Completed(o)

\* Once the orders stop changing, the sync repairs what webhooks and older payloads
\* left behind: an order raced into revenue past its cancellation, and a lifetime
\* value written from a sum that a concurrent transaction had made stale
\* (syncOrders).  Only of customers that still have an order: one whose last order
\* went to another customer keeps the old value.
LedgerSettles ==
    <>[](/\ \A o \in tombs : ~Completed(o)
         /\ \A o \in Order : orders[o] # None =>
               ltv[orders[o].customer] = Revenue(orders[o].customer, orders))
=============================================================================
