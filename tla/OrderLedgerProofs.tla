-------------------------- MODULE OrderLedgerProofs -------------------------
(* What holds of the order ledger for any number of orders, customers,     *)
(* webhook handlers and amounts.                                           *)
EXTENDS OrderLedger, TLAPS

\* The types of the rows, the locks and the transactions: TypeOK without the
\* two variables that hold sums.
RowsType ==
    /\ orders \in [Order -> OrderRow \cup {None}]
    /\ tombs \subseteq Order
    /\ lock \in [Lockable -> Worker \cup {None}]
    /\ tx \in [Worker -> Tx]
    /\ raced \subseteq Order

UpsertReads == {"upsertCustomer", "readOrder", "readTombstone", "writeOrder"}
CancelReads == {"writeTombstone", "findOrder", "markCancelled"}
Totals == {"sumOrders", "writeLtv"}

\* What a transaction carries at each of its statements.
Shape(w) ==
    /\ tx[w].pc = "idle" => tx[w] = NoTx
    /\ tx[w].pc # "idle" => tx[w].order \in Order
    /\ tx[w].pc \in UpsertReads => tx[w].payload # None
    /\ tx[w].pc \in CancelReads => tx[w].payload = None
    /\ (tx[w].wroteOrder # None) <=> (tx[w].pc \in Totals)
    /\ tx[w].wroteTomb => tx[w].payload = None
    /\ tx[w].payload = None /\ tx[w].pc \in {"markCancelled"} \cup Totals
          => tx[w].existing # None /\ orders[tx[w].order] # None

\* A row, or a payload, that counts no money it knows to have been given back.
Honest(money, amount) == money.refunded # None => amount + money.refunded <= Gross

Evidence(w) ==
    /\ tx[w].payload # None => Honest(tx[w].payload, tx[w].payload.net)
    /\ tx[w].wroteOrder # None => Honest(tx[w].wroteOrder, tx[w].wroteOrder.total)

\* An upsert holds its customer's row from its first statement on, and whoever
\* has written an order holds that order's row.
Locks(w) ==
    /\ tx[w].payload # None /\ tx[w].pc \notin {"idle", "upsertCustomer"}
          => lock[CustomerKey(w)] = w
    /\ tx[w].wroteOrder # None => lock[OrderKey(w)] = w

\* What an upsert read is still so when it is used, and what was written still
\* succeeds the committed row, unless the transaction was overtaken.
Current(w) ==
    w \notin overtaken =>
        /\ tx[w].payload # None /\ tx[w].pc \in {"readTombstone", "writeOrder"} \cup Totals
              => tx[w].existing = orders[tx[w].order]
        /\ tx[w].wroteOrder # None => Succeeds(tx[w].wroteOrder, orders[tx[w].order])

\* Overtaken are only upserts of orders that two customers share.
Late(w) ==
    w \in overtaken =>
        /\ tx[w].payload # None /\ tx[w].pc \in {"readTombstone", "writeOrder"} \cup Totals
        /\ tx[w].order \in Shared /\ orders[tx[w].order] # None

\* A transaction that cannot know of a tombstone has been counted as raced.
Aware(w) ==
    /\ tx[w].payload # None /\ tx[w].pc \in {"writeOrder"} \cup Totals
            /\ tx[w].order \in tombs \ raced
          => tx[w].tombstone
    /\ tx[w].wroteOrder # None /\ (tx[w].payload = None \/ tx[w].tombstone)
          => tx[w].wroteOrder.status = "cancelled"

\* An upsert carries what was sent and a cancellation was one; a tombstone that
\* was read is there, and one that was not only concerns a create.
Grounds(w) ==
    /\ tx[w].payload # None => tx[w].payload \in Sent[tx[w].order]
    /\ tx[w].payload = None /\ tx[w].pc # "idle" => tx[w].order \in Cancellable
    /\ tx[w].payload = None /\ tx[w].pc \in {"findOrder", "markCancelled"} \cup Totals
          => tx[w].wroteTomb
    /\ tx[w].tombstone => tx[w].order \in tombs
    /\ tx[w].payload # None /\ tx[w].pc \in {"writeOrder"} \cup Totals
            /\ tx[w].order \in tombs /\ ~tx[w].tombstone /\ w \notin overtaken
          => orders[tx[w].order] = None

\* The customers a transaction has to do with are among those its order's payloads name.
Named(w) ==
    /\ tx[w].payload # None => tx[w].payload.customer \in names[tx[w].order]
    /\ tx[w].existing # None => tx[w].existing.customer \in names[tx[w].order]
    /\ tx[w].wroteOrder # None => tx[w].wroteOrder.customer \in names[tx[w].order]

\* What was written is what the rules make of the row that was read.
Serial(w) ==
    /\ tx[w].wroteOrder # None /\ tx[w].payload # None
          => tx[w].wroteOrder =
                LedgerImpl!Upserted(tx[w].existing, tx[w].payload, tx[w].tombstone)
    /\ tx[w].wroteOrder # None /\ tx[w].payload = None
          => /\ orders[tx[w].order] # None
             /\ tx[w].wroteOrder = [orders[tx[w].order] EXCEPT !.status = "cancelled"]

WorkerInv(w) ==
    /\ Shape(w) /\ Evidence(w) /\ Locks(w) /\ Current(w) /\ Late(w) /\ Aware(w)
    /\ Grounds(w) /\ Named(w) /\ Serial(w)

RowsNamed == \A o \in Order : orders[o] # None => orders[o].customer \in names[o]

IInv ==
    /\ RowsType
    /\ RowsNamed
    /\ \A w \in Worker : WorkerInv(w)
    /\ NeverOverstated
    /\ TombstoneHolds

-----------------------------------------------------------------------------
(* Types. *)

LEMMA Keys ==
    /\ \A c \in Customer : <<"customer", c>> \in Lockable
    /\ \A o \in Order : <<"order", o>> \in Lockable /\ <<"tombstone", o>> \in Lockable
  BY DEF Lockable

LEMMA NoneIsNobody == None \notin Worker /\ None \notin Order
  BY WorkerAssumption DEF Worker

LEMMA NoTxType == NoTx \in Tx
  BY DEF NoTx, Tx, Location

LEMMA NoTxInv ==
    ASSUME NEW w \in Worker, tx[w] = NoTx, w \notin overtaken PROVE WorkerInv(w)
  BY DEF WorkerInv, Shape, Evidence, Locks, Current, Late, Aware, Grounds, Named, Serial, NoTx,
     UpsertReads, CancelReads, Totals

\* The payloads of any state of an order are typed and honest.
LEMMA PayloadsType ==
    ASSUME NEW o \in Order, NEW s \in UpTo(o), NEW p \in PayloadsOf(s)
    PROVE  p \in Payload /\ p # None /\ Honest(p, p.net) /\ p.customer \in names[o]
<1>1. s.refunded \in 0..Gross /\ s.customer \in names[o] /\ s.customer \in Customer
  BY FinalAssumption, GrossAssumption, NamesAssumption DEF UpTo
<1>2. p \in Payload /\ Honest(p, p.net) /\ p.customer = s.customer
  BY <1>1, GrossAssumption, NoneAssumption DEF PayloadsOf, Payload, Amount, Honest
<1> QED
  BY <1>1, <1>2, NoneAssumption

\* The customer whose row a transaction locks.
LEMMA CustomerType ==
    ASSUME RowsType, NEW w \in Worker, tx[w].payload # None \/ tx[w].existing # None
    PROVE  CustomerOf(w) \in Customer /\ CustomerKey(w) \in Lockable
  BY Keys DEF RowsType, Tx, Payload, OrderRow, CustomerOf, CustomerKey

\* The reconciled money is typed and honest, and keeps the refund it was given.
LEMMA Reconciled ==
    ASSUME NEW p \in Payload, Honest(p, p.net), NEW stored \in Amount \cup {None}
    PROVE  LET money == ReconcileOrderMoney(p, stored)
           IN  /\ money.total \in Amount /\ money.refunded \in Amount \cup {None}
               /\ Honest(money, money.total)
               /\ stored # None => money.refunded # None /\ money.refunded >= stored
  BY GrossAssumption, NoneAssumption
  DEF ReconcileOrderMoney, Payload, Amount, Honest, Minus, Least, Most

-----------------------------------------------------------------------------
(* Statements that change one transaction and take or free its locks. *)

LEMMA LocalStep ==
    ASSUME IInv, NEW w \in Worker, UNCHANGED ledger, RowsType',
           \A v \in Worker \ {w} : tx'[v] = tx[v] /\ (v \in overtaken' <=> v \in overtaken),
           \A v \in Worker \ {w} : \A l \in Lockable : lock[l] = v => lock'[l] = v,
           WorkerInv(w)'
    PROVE  IInv'
<1>1. ASSUME NEW v \in Worker, v # w PROVE WorkerInv(v)'
  <2>1. WorkerInv(v) /\ tx'[v] = tx[v] /\ \A l \in Lockable : lock[l] = v => lock'[l] = v
    BY <1>1 DEF IInv
  <2>2. UNCHANGED <<orders, tombs, raced>> /\ (v \in overtaken' <=> v \in overtaken)
    BY <1>1 DEF ledger
  <2>3. Shape(v)' /\ Evidence(v)' /\ Aware(v)' /\ Named(v)' /\ Serial(v)'
    BY <2>1, <2>2 DEF WorkerInv, Shape, Evidence, Aware, Named, Serial
  <2>4. Current(v)' /\ Late(v)' /\ Grounds(v)'
    BY <2>1, <2>2 DEF WorkerInv, Current, Late, Grounds
  <2>5. Locks(v)'
    <3>1. Shape(v) /\ Locks(v) /\ CustomerKey(v)' = CustomerKey(v) /\ OrderKey(v)' = OrderKey(v)
      BY <2>1 DEF WorkerInv, CustomerKey, CustomerOf, OrderKey, InOrder
    <3>2. tx[v].payload # None => CustomerKey(v) \in Lockable
      BY CustomerType DEF IInv
    <3>3. tx[v].wroteOrder # None => OrderKey(v) \in Lockable
      BY <3>1, Keys DEF Shape, OrderKey, InOrder, Totals
    <3> QED
      BY <2>1, <3>1, <3>2, <3>3 DEF Locks
  <2> QED
    BY <2>1, <2>3, <2>4, <2>5 DEF WorkerInv
<1>2. (RowsNamed /\ NeverOverstated /\ TombstoneHolds)'
  BY DEF IInv, ledger, RowsNamed, NeverOverstated, TombstoneHolds, Completed
<1> QED
  BY <1>1, <1>2 DEF IInv

\* What the other fields of a worker's transaction become; the order and the
\* payload stay.
After(w, statement, existing, tombstone, wroteOrder, wroteTomb) ==
    /\ tx'[w] = [pc |-> statement, order |-> tx[w].order, payload |-> tx[w].payload,
                 existing |-> existing, tombstone |-> tombstone,
                 wroteOrder |-> wroteOrder, wroteTomb |-> wroteTomb]
    /\ \A v \in Worker \ {w} : tx'[v] = tx[v]

LEMMA TxType ==
    ASSUME tx \in [Worker -> Tx], NEW w \in Worker, NEW t \in Tx, tx' = [tx EXCEPT ![w] = t]
    PROVE  tx' \in [Worker -> Tx] /\ tx'[w] = t /\ \A v \in Worker \ {w} : tx'[v] = tx[v]
  OBVIOUS

LEMMA UpsertCustomerStep ==
    ASSUME IInv, NEW w \in Worker, UpsertCustomer(w) PROVE IInv'
<1>1. tx' = [tx EXCEPT ![w] = [tx[w] EXCEPT !.pc = "readOrder"]]
  BY DEF UpsertCustomer
<1>2. tx[w] \in Tx /\ [tx[w] EXCEPT !.pc = "readOrder"] \in Tx
  BY DEF IInv, RowsType, Tx, Location
<1>3. /\ tx' \in [Worker -> Tx]
      /\ After(w, "readOrder", tx[w].existing, tx[w].tombstone, tx[w].wroteOrder, tx[w].wroteTomb)
  BY <1>1, <1>2, TxType DEF IInv, RowsType, After, Tx
<1>4. /\ tx[w].pc = "upsertCustomer" /\ tx[w].order \in Order /\ CustomerKey(w) \in Lockable
      /\ tx[w].payload # None /\ tx[w].wroteOrder = None
      /\ w \notin overtaken /\ UNCHANGED overtaken
  BY CustomerType DEF UpsertCustomer, IInv, WorkerInv, Shape, Late, UpsertReads, Totals
<1>5. RowsType'
  BY <1>3, <1>4 DEF UpsertCustomer, TakeLock, ledger, IInv, RowsType
<1>6. WorkerInv(w)'
  <2>1. lock'[CustomerKey(w)] = w
    BY <1>4 DEF UpsertCustomer, TakeLock, IInv, RowsType
  <2>2. (Shape(w) /\ Evidence(w))'
    BY <1>3, <1>4 DEF IInv, After, WorkerInv, Shape, Evidence, UpsertReads, CancelReads, Totals
  <2>3. (Locks(w) /\ Current(w) /\ Late(w) /\ Aware(w))'
    BY <1>3, <1>4, <2>1 DEF After, Locks, Current, Late, Aware, CustomerKey, CustomerOf, InOrder,
       Totals
  <2>4. (Grounds(w) /\ Named(w) /\ Serial(w))'
    <3>1. Grounds(w) /\ UNCHANGED <<orders, tombs>>
      BY DEF UpsertCustomer, ledger, IInv, WorkerInv
    <3>2. Grounds(w)'
      BY <1>3, <1>4, <3>1 DEF After, Grounds, Totals
    <3>3. Serial(w)'
      BY <1>3, <1>4 DEF After, Serial
    <3>4. Named(w)'
      BY <1>3 DEF After, IInv, WorkerInv, Named
    <3> QED
      BY <3>2, <3>3, <3>4
  <2> QED
    BY <2>2, <2>3, <2>4 DEF WorkerInv
<1>7. \A v \in Worker \ {w} : \A l \in Lockable : lock[l] = v => lock'[l] = v
  BY NoneIsNobody DEF UpsertCustomer, TakeLock, Free, IInv, RowsType
<1> QED
  BY <1>3, <1>4, <1>5, <1>6, <1>7, LocalStep DEF UpsertCustomer, After

LEMMA ReadOrderStep ==
    ASSUME IInv, NEW w \in Worker, ReadOrder(w) PROVE IInv'
<1> DEFINE found == orders[tx[w].order]
<1>1. tx' = [tx EXCEPT ![w] = [tx[w] EXCEPT !.pc = "readTombstone", !.existing = found]]
  BY DEF ReadOrder, InOrder
<1>2. /\ tx[w].pc = "readOrder" /\ tx[w].order \in Order
      /\ w \notin overtaken /\ UNCHANGED <<overtaken, orders, tombs, raced, lock>>
      /\ tx[w].payload # None /\ tx[w].wroteOrder = None
  BY DEF ReadOrder, ledger, IInv, WorkerInv, Shape, Late, UpsertReads, Totals
<1>3. tx[w] \in Tx /\ found \in OrderRow \cup {None} /\ found = orders[tx[w].order]
  BY <1>2 DEF IInv, RowsType
<1> HIDE DEF found
<1>7. [tx[w] EXCEPT !.pc = "readTombstone", !.existing = found] \in Tx
  BY <1>3 DEF Tx, Location
<1>8. /\ tx' \in [Worker -> Tx]
      /\ After(w, "readTombstone", found, tx[w].tombstone, tx[w].wroteOrder, tx[w].wroteTomb)
  BY <1>1, <1>3, <1>7, TxType DEF IInv, RowsType, After, Tx
<1>4. /\ tx' \in [Worker -> Tx]
      /\ After(w, "readTombstone", orders[tx[w].order], tx[w].tombstone,
                  tx[w].wroteOrder, tx[w].wroteTomb)
  BY <1>3, <1>8
<1>5. RowsType'
  BY <1>4 DEF ReadOrder, ledger, IInv, RowsType
<1>6. WorkerInv(w)'
  <2>1. (Shape(w) /\ Evidence(w))'
    BY <1>2, <1>4 DEF IInv, After, WorkerInv, Shape, Evidence, UpsertReads, CancelReads, Totals
  <2>2. (Locks(w) /\ Current(w) /\ Late(w) /\ Aware(w))'
    BY <1>2, <1>4 DEF IInv, After, WorkerInv, Locks, Current, Late, Aware, CustomerKey,
       CustomerOf, InOrder, Totals
  <2>3. (Grounds(w) /\ Named(w) /\ Serial(w))'
    <3>1. Grounds(w) /\ Named(w) /\ RowsNamed
      BY DEF IInv, WorkerInv
    <3>2. Grounds(w)'
      BY <1>2, <1>4, <3>1 DEF After, Grounds, Totals
    <3>3. Serial(w)'
      BY <1>2, <1>4 DEF After, Serial
    <3>4. Named(w)'
      BY <1>2, <1>4, <3>1 DEF After, Named, RowsNamed
    <3> QED
      BY <3>2, <3>3, <3>4
  <2> QED
    BY <2>1, <2>2, <2>3 DEF WorkerInv
<1> QED
  BY <1>2, <1>4, <1>5, <1>6, LocalStep DEF ReadOrder, After

LEMMA ReadTombstoneStep ==
    ASSUME IInv, NEW w \in Worker, ReadTombstone(w) PROVE IInv'
<1> DEFINE found == tx[w].order \in tombs
<1>1. tx' = [tx EXCEPT ![w] = [tx[w] EXCEPT !.pc = "writeOrder", !.tombstone = found]]
  BY DEF ReadTombstone, InOrder
<1>2. /\ tx[w] \in Tx /\ tx[w].pc = "readTombstone" /\ tx[w].order \in Order
      /\ tx[w].payload # None /\ tx[w].wroteOrder = None
      /\ UNCHANGED <<overtaken, orders, tombs, raced, lock>>
  BY DEF ReadTombstone, ledger, IInv, RowsType, WorkerInv, Shape, UpsertReads, Totals
<1>3. found \in BOOLEAN /\ (found <=> tx[w].order \in tombs)
  OBVIOUS
<1> HIDE DEF found
<1>4. [tx[w] EXCEPT !.pc = "writeOrder", !.tombstone = found] \in Tx
  BY <1>2, <1>3 DEF Tx, Location
<1>5. /\ tx' \in [Worker -> Tx]
      /\ After(w, "writeOrder", tx[w].existing, found, tx[w].wroteOrder, tx[w].wroteTomb)
  BY <1>1, <1>2, <1>4, TxType DEF IInv, RowsType, After, Tx
<1>6. RowsType'
  BY <1>5 DEF ReadTombstone, ledger, IInv, RowsType
<1>7. WorkerInv(w)'
  <2>1. (Shape(w) /\ Evidence(w))'
    BY <1>2, <1>5 DEF IInv, After, WorkerInv, Shape, Evidence, UpsertReads, CancelReads, Totals
  <2>2. (Locks(w) /\ Current(w) /\ Late(w) /\ Named(w))'
    BY <1>2, <1>5 DEF IInv, After, WorkerInv, Locks, Current, Late, Named,
       CustomerKey, CustomerOf, InOrder
  <2>3. Aware(w)'
    <3>1. UNCHANGED <<tombs, raced>>
      BY DEF ReadTombstone, ledger
    <3>2. tx[w].order \in tombs => tx'[w].tombstone
      BY <1>3, <1>5 DEF After
    <3> QED
      BY <1>2, <1>5, <3>1, <3>2 DEF After, Aware
  <2>4. (Grounds(w) /\ Serial(w))'
    <3>1. UNCHANGED <<orders, tombs>> /\ (tx'[w].tombstone <=> tx[w].order \in tombs)
      BY <1>3, <1>5 DEF ReadTombstone, ledger, After
    <3>2. Grounds(w) /\ (tx[w].order \in tombs => tx'[w].tombstone)
      BY <3>1 DEF IInv, WorkerInv
    <3>3. Grounds(w)'
      BY <1>2, <1>5, <3>1, <3>2 DEF After, Grounds
    <3>4. Serial(w)'
      BY <1>2, <1>5 DEF After, Serial
    <3> QED
      BY <3>3, <3>4
  <2> QED
    BY <2>1, <2>2, <2>3, <2>4 DEF WorkerInv
<1> QED
  BY <1>5, <1>6, <1>7, LocalStep DEF ReadTombstone, After

\* The row an upsert writes is typed and honest and succeeds the row it read; it
\* is cancelled when a tombstone was read.
LEMMA UpsertedRow ==
    ASSUME NEW payload \in Payload, Honest(payload, payload.net),
           NEW existing \in OrderRow \cup {None}, NEW tombstone \in BOOLEAN
    PROVE  LET money == ReconcileOrderMoney(payload, IF existing = None THEN None
                                                     ELSE existing.refunded)
               new == [status |-> ResolveRecoveryStatus(existing, tombstone),
                       total |-> money.total, refunded |-> money.refunded,
                       customer |-> payload.customer]
           IN  /\ new \in OrderRow /\ Honest(new, new.total) /\ Succeeds(new, existing)
               /\ tombstone => new.status = "cancelled"
<1> DEFINE stored == IF existing = None THEN None ELSE existing.refunded
           money == ReconcileOrderMoney(payload, stored)
           status == ResolveRecoveryStatus(existing, tombstone)
           new == [status |-> status, total |-> money.total, refunded |-> money.refunded,
                   customer |-> payload.customer]
<1>1. /\ status \in {"completed", "cancelled"}
      /\ tombstone => status = "cancelled"
      /\ existing # None /\ existing.status = "cancelled" => status = "cancelled"
  BY DEF ResolveRecoveryStatus
<1>2. stored \in Amount \cup {None}
  BY DEF OrderRow
<1>3. /\ money.total \in Amount /\ money.refunded \in Amount \cup {None}
      /\ Honest(money, money.total)
      /\ stored # None => money.refunded # None /\ money.refunded >= stored
  BY <1>2, Reconciled
<1> HIDE DEF status, money
<1>4. payload.customer \in Customer
  BY DEF Payload
<1>5. new \in OrderRow /\ Honest(new, new.total)
  BY <1>1, <1>3, <1>4 DEF OrderRow, Honest
<1>6. Succeeds(new, existing)
  BY <1>1, <1>3 DEF Succeeds
<1> QED
  BY <1>1, <1>5, <1>6 DEF status, money

\* A create stores what the rules make of a payload without a stored row.
LEMMA Created ==
    ASSUME NEW payload \in Payload
    PROVE  LET money == ReconcileOrderMoney(payload, None)
           IN  money.total = payload.net /\ money.refunded = payload.refunded
  BY GrossAssumption, NoneAssumption
  DEF ReconcileOrderMoney, Payload, Amount, Minus, Least, Most

\* The abstract ledger writes the same row.
LEMMA SameRules ==
    ASSUME NEW payload, NEW existing, NEW tombstone
    PROVE  LET money == ReconcileOrderMoney(payload, IF existing = None THEN None
                                                     ELSE existing.refunded)
           IN  LedgerImpl!Upserted(existing, payload, tombstone) =
                  [status |-> ResolveRecoveryStatus(existing, tombstone),
                   total |-> money.total, refunded |-> money.refunded,
                   customer |-> payload.customer]
  BY DEF LedgerImpl!Upserted, LedgerImpl!ReconcileOrderMoney, LedgerImpl!ResolveRecoveryStatus,
     LedgerImpl!Minus, LedgerImpl!Least, LedgerImpl!Most,
     ReconcileOrderMoney, ResolveRecoveryStatus, Minus, Least, Most

LEMMA WriteOrderStep ==
    ASSUME IInv, NEW w \in Worker, WriteOrder(w) PROVE IInv'
<1> DEFINE t == tx[w]
           money == ReconcileOrderMoney(t.payload, IF t.existing = None THEN None
                                                   ELSE t.existing.refunded)
           status == ResolveRecoveryStatus(t.existing, t.tombstone)
           new == [status |-> status, total |-> money.total, refunded |-> money.refunded,
                   customer |-> t.payload.customer]
<1>b. new = LedgerImpl!Upserted(t.existing, t.payload, t.tombstone)
  BY SameRules
<1>1. /\ t \in Tx /\ t.pc = "writeOrder" /\ t.order \in Order /\ t.payload \in Payload
      /\ t.payload # None /\ Honest(t.payload, t.payload.net)
      /\ w \notin overtaken => t.existing = orders[t.order]
      /\ w \in overtaken => orders[t.order] # None
      /\ t.existing \in OrderRow \cup {None} /\ t.tombstone \in BOOLEAN /\ ~t.wroteTomb
      /\ UNCHANGED <<overtaken, orders, tombs, raced>>
  <2>1. t \in Tx /\ t.pc = "writeOrder" /\ WorkerInv(w) /\ UNCHANGED <<overtaken, orders, tombs, raced>>
    BY DEF WriteOrder, ledger, IInv, RowsType
  <2>2. t.order \in Order /\ t.payload # None /\ ~t.wroteTomb
    BY <2>1 DEF WorkerInv, Shape, UpsertReads
  <2>3. (w \notin overtaken => t.existing = orders[t.order]) /\ Honest(t.payload, t.payload.net)
    BY <2>1, <2>2 DEF WorkerInv, Current, Evidence
  <2>4. w \in overtaken => orders[t.order] # None
    BY <2>1 DEF WorkerInv, Late
  <2> QED
    BY <2>1, <2>2, <2>3, <2>4 DEF Tx
<1>a. /\ OrderKey(w) \in Lockable /\ CustomerKey(w) \in Lockable
      /\ OrderKey(w) # CustomerKey(w) /\ lock[CustomerKey(w)] = w
  BY <1>1, Keys, CustomerType DEF IInv, WorkerInv, Locks, OrderKey, CustomerKey, InOrder
<1>2. /\ new \in OrderRow /\ Honest(new, new.total) /\ Succeeds(new, t.existing)
      /\ t.tombstone => new.status = "cancelled"
      /\ new.customer = t.payload.customer
  BY <1>1, UpsertedRow
<1>c. orders[t.order] = None =>
         /\ t.existing = None
         /\ new = [status |-> status, total |-> t.payload.net, refunded |-> t.payload.refunded,
                   customer |-> t.payload.customer]
  BY <1>1, Created
<1> HIDE DEF money, status
<1>3. tx' = [tx EXCEPT ![w] = [t EXCEPT !.pc = "sumOrders", !.wroteOrder = new]]
  <2>1. CASE orders[t.order] = None
    BY <1>1, <1>c, <2>1 DEF WriteOrder, money, status
  <2>2. CASE orders[t.order] # None
    BY <1>1, <2>2 DEF WriteOrder, money, status
  <2> QED
    BY <2>1, <2>2
<1> HIDE DEF new
<1>4. [t EXCEPT !.pc = "sumOrders", !.wroteOrder = new] \in Tx
  BY <1>1, <1>2 DEF Tx, Location
<1>5. /\ tx' \in [Worker -> Tx]
      /\ After(w, "sumOrders", t.existing, t.tombstone, new, t.wroteTomb)
  BY <1>1, <1>3, <1>4, TxType DEF IInv, RowsType, After, Tx
<1>6. RowsType'
  BY <1>a, <1>5 DEF WriteOrder, TakeLock, ledger, IInv, RowsType
<1>7. lock'[OrderKey(w)] = w /\ lock'[CustomerKey(w)] = w
  BY <1>a DEF WriteOrder, TakeLock, IInv, RowsType
<1>8. new # None
  BY <1>2, NoneAssumption
<1>9. Shape(w)' /\ Evidence(w)' /\ Locks(w)'
  BY <1>1, <1>2, <1>5, <1>7, <1>8 DEF After, Shape, Evidence, Locks, OrderKey, CustomerKey,
     CustomerOf, InOrder, UpsertReads, CancelReads, Totals
<1>10. Current(w)' /\ Late(w)' /\ Aware(w)'
  <2>1. (t.order \in tombs \ raced => t.tombstone) /\ Late(w)
    BY <1>1 DEF IInv, WorkerInv, Aware
  <2>2. Current(w)'
    BY <1>1, <1>2, <1>5 DEF After, Current
  <2>4. Late(w)'
    BY <1>1, <1>5, <2>1 DEF After, Late, Totals
  <2>3. Aware(w)'
    BY <1>1, <1>2, <1>5, <2>1 DEF After, Aware
  <2> QED
    BY <2>2, <2>3, <2>4
<1>11. Grounds(w)' /\ Named(w)' /\ Serial(w)'
  <2>1. UNCHANGED <<orders, tombs>> /\ Grounds(w) /\ Named(w)
    BY DEF WriteOrder, ledger, IInv, WorkerInv
  <2>2. Grounds(w)'
    BY <1>1, <1>5, <2>1 DEF After, Grounds
  <2>3. Serial(w)'
    BY <1>1, <1>b, <1>5 DEF After, Serial
  <2>4. Named(w)'
    BY <1>1, <1>2, <1>5, <2>1 DEF After, Named
  <2> QED
    BY <2>2, <2>3, <2>4
<1>12. \A v \in Worker \ {w} : \A l \in Lockable : lock[l] = v => lock'[l] = v
  BY NoneIsNobody DEF WriteOrder, TakeLock, Free, IInv, RowsType
<1> QED
  BY <1>1, <1>5, <1>6, <1>9, <1>10, <1>11, <1>12, LocalStep DEF WriteOrder, After, WorkerInv

LEMMA WriteTombstoneStep ==
    ASSUME IInv, NEW w \in Worker, WriteTombstone(w) PROVE IInv'
<1>1. tx' = [tx EXCEPT ![w] = [tx[w] EXCEPT !.pc = "findOrder", !.wroteTomb = TRUE]]
  BY DEF WriteTombstone
<1>2. /\ tx[w] \in Tx /\ tx[w].pc = "writeTombstone" /\ tx[w].order \in Order
      /\ tx[w].payload = None /\ tx[w].wroteOrder = None
      /\ w \notin overtaken /\ UNCHANGED overtaken
  BY DEF WriteTombstone, IInv, RowsType, WorkerInv, Shape, Late, CancelReads, Totals
<1>3. [tx[w] EXCEPT !.pc = "findOrder", !.wroteTomb = TRUE] \in Tx
  BY <1>2 DEF Tx, Location
<1>4. /\ tx' \in [Worker -> Tx]
      /\ After(w, "findOrder", tx[w].existing, tx[w].tombstone, tx[w].wroteOrder, TRUE)
  BY <1>1, <1>2, <1>3, TxType DEF IInv, RowsType, After, Tx
<1>5. RowsType'
  BY <1>2, <1>4, Keys DEF WriteTombstone, TakeLock, TombstoneKey, InOrder, ledger, IInv, RowsType
<1>6. WorkerInv(w)'
  <2>1. (Shape(w) /\ Evidence(w) /\ Locks(w) /\ Current(w) /\ Late(w) /\ Aware(w))'
    BY <1>2, <1>4 DEF After, Shape, Evidence, Locks, Current, Late, Aware,
       UpsertReads, CancelReads, Totals
  <2>2. (Grounds(w) /\ Named(w) /\ Serial(w))'
    BY <1>2, <1>4 DEF WriteTombstone, ledger, IInv, After, WorkerInv, Grounds, Named, Serial,
       Totals
  <2> QED
    BY <2>1, <2>2 DEF WorkerInv
<1>7. \A v \in Worker \ {w} : \A l \in Lockable : lock[l] = v => lock'[l] = v
  BY NoneIsNobody DEF WriteTombstone, TakeLock, Free, IInv, RowsType
<1> QED
  BY <1>2, <1>4, <1>5, <1>6, <1>7, LocalStep DEF WriteTombstone, After

\* cancelOrder found the order and goes on to mark it.
LEMMA OrderFoundStep ==
    ASSUME IInv, NEW w \in Worker, FindOrder(w), orders[tx[w].order] # None PROVE IInv'
<1> DEFINE found == orders[tx[w].order]
<1>1. /\ tx' = [tx EXCEPT ![w] = [tx[w] EXCEPT !.pc = "markCancelled", !.existing = found]]
      /\ UNCHANGED <<ledger, lock, overtaken>>
  BY DEF FindOrder, InOrder
<1>2. /\ tx[w] \in Tx /\ tx[w].pc = "findOrder" /\ tx[w].order \in Order
      /\ tx[w].payload = None /\ tx[w].wroteOrder = None /\ w \notin overtaken
      /\ found \in OrderRow /\ found.customer \in names[tx[w].order]
  BY DEF FindOrder, IInv, RowsType, WorkerInv, Shape, Late, RowsNamed, CancelReads, Totals
<1>7. found # None /\ found = orders[tx[w].order]
  OBVIOUS
<1> HIDE DEF found
<1>3. [tx[w] EXCEPT !.pc = "markCancelled", !.existing = found] \in Tx
  BY <1>2 DEF Tx, Location
<1>4. /\ tx' \in [Worker -> Tx]
      /\ After(w, "markCancelled", found, tx[w].tombstone, tx[w].wroteOrder, tx[w].wroteTomb)
  BY <1>1, <1>2, <1>3, TxType DEF IInv, RowsType, After, Tx
<1>5. RowsType'
  BY <1>1, <1>4 DEF ledger, IInv, RowsType
<1>6. WorkerInv(w)'
  <2>1. (Shape(w) /\ Evidence(w) /\ Locks(w) /\ Current(w) /\ Late(w) /\ Aware(w))'
    BY <1>1, <1>2, <1>4, <1>7 DEF ledger, After, Shape, Evidence, Locks, Current, Late, Aware,
       UpsertReads, CancelReads, Totals
  <2>2. (Grounds(w) /\ Named(w) /\ Serial(w))'
    <3>1. Grounds(w) /\ UNCHANGED <<orders, tombs>>
      BY <1>1 DEF ledger, IInv, WorkerInv
    <3>4. Named(w)'
      BY <1>2, <1>4 DEF After, Named
    <3>2. Grounds(w)'
      BY <1>2, <1>4, <3>1 DEF After, Grounds, Totals
    <3>3. Serial(w)'
      BY <1>2, <1>4 DEF After, Serial
    <3> QED
      BY <3>2, <3>3, <3>4
  <2> QED
    BY <2>1, <2>2 DEF WorkerInv
<1> QED
  BY <1>1, <1>4, <1>5, <1>6, LocalStep DEF After

LEMMA MarkCancelledStep ==
    ASSUME IInv, NEW w \in Worker, MarkCancelled(w) PROVE IInv'
<1> DEFINE old == orders[tx[w].order]
           new == [old EXCEPT !.status = "cancelled"]
<1>1. /\ tx[w] \in Tx /\ tx[w].pc = "markCancelled" /\ tx[w].order \in Order
      /\ tx[w].payload = None /\ tx[w].wroteOrder = None /\ old \in OrderRow
      /\ tx[w].existing # None /\ old.customer \in names[tx[w].order]
      /\ w \notin overtaken /\ UNCHANGED overtaken
  BY DEF MarkCancelled, IInv, RowsType, RowsNamed, WorkerInv, Shape, Late, CancelReads, Totals
<1>2. OrderKey(w) \in Lockable
  BY <1>1, Keys DEF OrderKey, InOrder
<1>3. /\ new \in OrderRow /\ new # None /\ new.status = "cancelled" /\ Succeeds(new, old)
      /\ new.total = old.total /\ new.refunded = old.refunded /\ new.customer = old.customer
  <2>1. new \in OrderRow /\ new.status = "cancelled" /\ new.customer = old.customer
        /\ new.total = old.total /\ new.refunded = old.refunded
    BY <1>1 DEF OrderRow
  <2>2. old.refunded # None => old.refunded >= old.refunded
    BY <1>1, GrossAssumption DEF OrderRow, Amount
  <2> QED
    BY <2>1, <2>2, NoneAssumption DEF Succeeds
<1>4. Honest(new, new.total)
  BY <1>1, <1>3, NoneAssumption DEF IInv, NeverOverstated, Honest
<1>5. tx' = [tx EXCEPT ![w] = [tx[w] EXCEPT !.pc = "sumOrders", !.wroteOrder = new]]
  BY DEF MarkCancelled, InOrder
<1>a. new = [orders[tx[w].order] EXCEPT !.status = "cancelled"]
  OBVIOUS
<1> HIDE DEF new
<1>6. [tx[w] EXCEPT !.pc = "sumOrders", !.wroteOrder = new] \in Tx
  BY <1>1, <1>3 DEF Tx, Location
<1>7. /\ tx' \in [Worker -> Tx]
      /\ After(w, "sumOrders", tx[w].existing, tx[w].tombstone, new, tx[w].wroteTomb)
  BY <1>1, <1>5, <1>6, TxType DEF IInv, RowsType, After, Tx
<1>8. RowsType'
  BY <1>2, <1>7 DEF MarkCancelled, TakeLock, ledger, IInv, RowsType
<1>9. lock'[OrderKey(w)] = w /\ UNCHANGED orders
  BY <1>2 DEF MarkCancelled, TakeLock, IInv, RowsType, ledger
<1>14. old # None
  BY <1>1, NoneAssumption
<1>15. Shape(w)'
  BY <1>1, <1>3, <1>7, <1>9, <1>14 DEF After, Shape, UpsertReads, CancelReads, Totals
<1>16. Evidence(w)' /\ Locks(w)'
  BY <1>1, <1>4, <1>7, <1>9 DEF After, Evidence, Locks, OrderKey, InOrder
<1>10. (Shape(w) /\ Evidence(w) /\ Locks(w))'
  BY <1>15, <1>16
<1>11. (Current(w) /\ Late(w) /\ Aware(w))'
  BY <1>1, <1>3, <1>7, <1>9 DEF After, Current, Late, Aware
<1>12. (Grounds(w) /\ Named(w) /\ Serial(w))'
  <2>1. UNCHANGED <<orders, tombs>> /\ Grounds(w) /\ Named(w)
    BY DEF MarkCancelled, ledger, IInv, WorkerInv
  <2>5. Named(w)'
    BY <1>1, <1>3, <1>7, <2>1 DEF After, Named
  <2>2. Grounds(w)'
    BY <1>1, <1>7, <2>1 DEF After, Grounds
  <2>3. old # None
    BY <1>1, NoneAssumption
  <2>4. Serial(w)'
    BY <1>1, <1>a, <1>7, <2>1, <2>3 DEF After, Serial
  <2> QED
    BY <2>2, <2>4, <2>5
<1>13. \A v \in Worker \ {w} : \A l \in Lockable : lock[l] = v => lock'[l] = v
  BY NoneIsNobody DEF MarkCancelled, TakeLock, Free, IInv, RowsType
<1> QED
  BY <1>1, <1>7, <1>8, <1>10, <1>11, <1>12, <1>13, LocalStep DEF MarkCancelled, After, WorkerInv

LEMMA SumOrdersStep ==
    ASSUME IInv, NEW w \in Worker, SumOrders(w) PROVE IInv'
<1>1. /\ tx' = [tx EXCEPT ![w] = [tx[w] EXCEPT !.pc = "writeLtv"]]
      /\ UNCHANGED <<ledger, lock, overtaken>>
  BY DEF SumOrders
<1>2. tx[w] \in Tx /\ tx[w].pc = "sumOrders" /\ tx[w].order \in Order
  BY DEF SumOrders, IInv, RowsType, WorkerInv, Shape
<1>3. [tx[w] EXCEPT !.pc = "writeLtv"] \in Tx
  BY <1>2 DEF Tx, Location
<1>4. /\ tx' \in [Worker -> Tx]
      /\ After(w, "writeLtv", tx[w].existing, tx[w].tombstone, tx[w].wroteOrder, tx[w].wroteTomb)
  BY <1>1, <1>2, <1>3, TxType DEF IInv, RowsType, After, Tx
<1>5. RowsType'
  BY <1>1, <1>4 DEF ledger, IInv, RowsType
<1>6. WorkerInv(w)'
  <2>1. (Shape(w) /\ Evidence(w))'
    <3>1. /\ tx'[w].pc = "writeLtv" /\ tx'[w].order = tx[w].order
          /\ tx'[w].payload = tx[w].payload /\ tx'[w].wroteOrder = tx[w].wroteOrder
          /\ tx'[w].wroteTomb = tx[w].wroteTomb /\ tx'[w].existing = tx[w].existing
          /\ UNCHANGED orders
      BY <1>1, <1>4 DEF After, ledger
    <3>2. Shape(w) /\ Evidence(w)
      BY DEF IInv, WorkerInv
    <3>3. tx[w].wroteOrder # None /\ (tx[w].wroteTomb => tx[w].payload = None)
      BY <1>2, <3>2 DEF Shape, Totals
    <3>6. tx[w].payload = None => tx[w].existing # None /\ orders[tx[w].order] # None
      BY <1>2, <3>2 DEF Shape, Totals
    <3>4. Shape(w)'
      BY <1>2, <3>1, <3>3, <3>6 DEF Shape, UpsertReads, CancelReads, Totals
    <3>5. Evidence(w)'
      BY <3>1, <3>2 DEF Evidence, Honest
    <3> QED
      BY <3>4, <3>5
  <2>2. /\ Locks(w) /\ Current(w) /\ Late(w) /\ Aware(w)
        /\ UNCHANGED <<lock, orders, tombs, raced, overtaken>>
    BY <1>1 DEF ledger, IInv, WorkerInv
  <2>3. Locks(w)'
    BY <1>2, <1>4, <2>2 DEF After, Locks, CustomerKey, CustomerOf, OrderKey, InOrder
  <2>4. (Current(w) /\ Late(w) /\ Aware(w))'
    BY <1>2, <1>4, <2>2 DEF After, Current, Late, Aware, Totals
  <2>5. (Grounds(w) /\ Named(w) /\ Serial(w))'
    BY <1>2, <1>4, <2>2 DEF IInv, WorkerInv, After, Grounds, Named, Serial, Totals
  <2> QED
    BY <2>1, <2>3, <2>4, <2>5 DEF WorkerInv
<1> QED
  BY <1>1, <1>4, <1>5, <1>6, LocalStep DEF After

LEMMA BeginStep ==
    ASSUME IInv, NEW w \in Worker, NEW o \in Order, NEW payload \in Payload \cup {None},
           NEW statement \in {"upsertCustomer", "writeTombstone"},
           payload # None => Honest(payload, payload.net) /\ payload.customer \in names[o],
           statement = "upsertCustomer" <=> payload # None,
           IF payload = None THEN o \in Cancellable ELSE payload \in Sent[o],
           Begin(w, o, statement, payload), UNCHANGED <<ledger, lock, overtaken>>
    PROVE  IInv'
<1> DEFINE new == [NoTx EXCEPT !.pc = statement, !.order = o, !.payload = payload]
<1>1. /\ new \in Tx /\ new.pc = statement /\ new.order = o /\ new.payload = payload
      /\ new.wroteOrder = None /\ ~new.wroteTomb /\ ~new.tombstone /\ new.existing = None
  BY NoTxType DEF Tx, NoTx, Location
<1>2. tx' = [tx EXCEPT ![w] = new]
  BY DEF Begin
<1> HIDE DEF new
<1>3. tx' \in [Worker -> Tx] /\ tx'[w] = new /\ \A v \in Worker \ {w} : tx'[v] = tx[v]
  BY <1>1, <1>2, TxType DEF IInv, RowsType
<1>4. RowsType'
  BY <1>3 DEF ledger, IInv, RowsType
<1>6. w \notin overtaken'
  BY DEF Begin, IInv, WorkerInv, Late, Totals
<1>5. WorkerInv(w)'
  BY <1>1, <1>3, <1>6 DEF WorkerInv, Shape, Evidence, Locks, Current, Late, Aware, Grounds,
     Named, Serial, UpsertReads, CancelReads, Totals
<1> QED
  BY <1>3, <1>4, <1>5, LocalStep

LEMMA IngestStep ==
    ASSUME IInv, NEW w \in Worker, NEW o \in Order, NEW s \in UpTo(o), Ingest(w, o, s)
    PROVE  IInv'
<1>1. CASE s.cancelled
  <2>1. o \in Cancellable
    BY <1>1 DEF UpTo, Cancellable
  <2> QED
    BY <1>1, <2>1, BeginStep DEF Ingest
<1>2. ASSUME ~s.cancelled, NEW p \in PayloadsOf(s), Begin(w, o, "upsertCustomer", p) PROVE IInv'
  <2>1. p \in Sent[o]
    BY <1>2 DEF Sent
  <2> QED
    BY <1>2, <2>1, BeginStep, PayloadsType DEF Ingest
<1> QED
  BY <1>1, <1>2 DEF Ingest

\* A transaction that ends without having changed the ledger.
LEMMA EndStep ==
    ASSUME IInv, NEW w \in Worker, End(w), UNCHANGED ledger, overtaken' = overtaken \ {w}
    PROVE  IInv'
<1>1. tx' \in [Worker -> Tx] /\ tx'[w] = NoTx /\ \A v \in Worker \ {w} : tx'[v] = tx[v]
  BY NoTxType, TxType DEF End, IInv, RowsType
<1>2. RowsType'
  BY <1>1 DEF End, Unlocked, ledger, IInv, RowsType
<1>3. WorkerInv(w)'
  BY <1>1 DEF WorkerInv, Shape, Evidence, Locks, Current, Late, Aware, Grounds, Named, Serial,
     NoTx, UpsertReads, CancelReads, Totals
<1>4. \A v \in Worker \ {w} : \A l \in Lockable : lock[l] = v => lock'[l] = v
  BY DEF End, Unlocked
<1> QED
  BY <1>1, <1>2, <1>3, <1>4, LocalStep

-----------------------------------------------------------------------------
(* Commits. *)

\* The two statements a transaction commits with: a cancellation that found no
\* order, and the update of the customer's totals.
Committing(w) ==
    /\ Commit(w)
    /\ \/ tx[w].pc = "findOrder" /\ orders[tx[w].order] = None
       \/ tx[w].pc = "writeLtv" /\ Free(w, CustomerKey(w))

LEMMA Committed ==
    ASSUME IInv, NEW w \in Worker, Committing(w)
    PROVE  /\ tx[w].order \in Order /\ tx[w] \in Tx /\ WorkerInv(w)
           /\ orders' \in [Order -> OrderRow \cup {None}]
           /\ \A o \in Order \ {tx[w].order} : orders'[o] = orders[o]
           /\ tx[w].wroteOrder = None => orders' = orders
           /\ tx[w].wroteOrder # None => orders'[tx[w].order] = tx[w].wroteOrder
           /\ tombs' = IF tx[w].wroteTomb THEN tombs \cup {tx[w].order} ELSE tombs
           /\ tombs' \subseteq Order /\ raced \subseteq raced' /\ raced' \subseteq Order
           /\ (tx[w].wroteOrder # None) <=> (tx[w].pc = "writeLtv")
<1>1. tx[w] \in Tx /\ WorkerInv(w)
  BY DEF IInv, RowsType
<1>2. tx[w].order \in Order /\ ((tx[w].wroteOrder # None) <=> (tx[w].pc = "writeLtv"))
  BY <1>1 DEF Committing, WorkerInv, Shape, Totals
<1>3. tombs' = (IF tx[w].wroteTomb THEN tombs \cup {tx[w].order} ELSE tombs) /\ orders' = Seen(w)
  BY DEF Committing, Commit, InOrder
<1>4. tombs' \subseteq Order /\ raced \subseteq raced' /\ raced' \subseteq Order
  BY <1>2, <1>3 DEF Committing, Commit, IInv, RowsType
<1>5. tx[w].wroteOrder \in OrderRow \cup {None}
  BY <1>1 DEF Tx
<1> QED
  BY <1>1, <1>2, <1>3, <1>4, <1>5 DEF Seen, InOrder, IInv, RowsType

\* A commit leaves the row alone that another transaction has written, and the one
\* another upsert has read, unless it overtakes that.
LEMMA HeldRow ==
    ASSUME IInv, NEW w \in Worker, Committing(w), NEW v \in Worker \ {w},
           \/ tx[v].wroteOrder # None
           \/ tx[v].payload # None /\ tx[v].pc \in {"readTombstone", "writeOrder"}
              /\ v \notin Overtakes(w)
    PROVE  orders'[tx[v].order] = orders[tx[v].order]
<1>1. WorkerInv(v) /\ tx[v].order \in Order
  BY DEF IInv, WorkerInv, Shape, Totals
<1>2. SUFFICES ASSUME tx[v].order = tx[w].order, tx[w].wroteOrder # None PROVE FALSE
  BY <1>1, Committed
<1>3. /\ tx[w].order \in Order /\ tx[w].pc = "writeLtv"
      /\ lock[OrderKey(w)] = w /\ lock[CustomerKey(w)] \in {None, w}
  BY <1>2, Committed DEF Committing, WorkerInv, Locks, Free
<1>4. OrderKey(v) = OrderKey(w)
  BY <1>2 DEF OrderKey, InOrder
<1>5. CASE tx[v].wroteOrder # None
  BY <1>1, <1>3, <1>4, <1>5 DEF WorkerInv, Locks
<1>6. CASE tx[v].payload # None /\ tx[v].pc \in {"readTombstone", "writeOrder"}
           /\ v \notin Overtakes(w)
  <2>1. CustomerKey(v) = CustomerKey(w)
    BY <1>2, <1>6 DEF Overtakes, InOrder, CustomerKey
  <2> QED
    BY <1>1, <1>3, <1>6, <2>1, NoneIsNobody DEF WorkerInv, Locks
<1> QED
  BY <1>5, <1>6

\* A cancellation that found its order commits while no upsert of the order is past
\* its first read, but for those it overtakes.
LEMMA NoneUnderCancel ==
    ASSUME IInv, NEW w \in Worker, Committing(w), tx[w].pc = "writeLtv",
           NEW v \in Worker \ {w}, tx[v].payload # None, tx[v].order = tx[w].order,
           tx[v].pc \in {"readTombstone", "writeOrder"} \cup Totals
    PROVE  v \in Overtakes(w)
<1>1. WorkerInv(v) /\ tx[w].wroteOrder # None /\ tx[w].order \in Order
  BY Committed DEF IInv
<1>2. CASE tx[v].pc \in Totals
  <2>1. tx[v].wroteOrder # None
    BY <1>1, <1>2 DEF WorkerInv, Shape
  <2>2. lock[OrderKey(v)] = v /\ lock[OrderKey(w)] = w
    BY <1>1, <2>1, Committed DEF WorkerInv, Locks
  <2> QED
    BY <2>2 DEF OrderKey, InOrder
<1>3. CASE tx[v].pc \in {"readTombstone", "writeOrder"}
  <2>1. lock[CustomerKey(v)] = v /\ lock[CustomerKey(w)] \in {None, w}
    BY <1>1, <1>3 DEF WorkerInv, Locks, Committing, Free
  <2>2. CustomerOf(v) # CustomerOf(w)
    BY <2>1, NoneIsNobody DEF CustomerKey
  <2> QED
    BY <1>1, <1>3, <2>2 DEF Overtakes, InOrder
<1> QED
  BY <1>2, <1>3

\* Transactions of one order that have to do with two customers: it is shared.
LEMMA OvertakesShared ==
    ASSUME IInv, NEW w \in Worker, Committing(w), NEW v \in Overtakes(w)
    PROVE  /\ v \in Worker \ {w} /\ tx[v].payload # None
           /\ tx[v].pc \in {"readTombstone", "writeOrder"}
           /\ tx[v].order = tx[w].order /\ tx[w].order \in Shared
           /\ tx[w].wroteOrder # None
<1>1. /\ v \in Worker \ {w} /\ tx[v].payload # None /\ tx[v].order = tx[w].order
      /\ tx[v].pc \in {"readTombstone", "writeOrder"} /\ CustomerOf(v) # CustomerOf(w)
      /\ tx[w].wroteOrder # None
  BY DEF Overtakes, InOrder
<1>2. WorkerInv(v) /\ WorkerInv(w) /\ tx[w].order \in Order
  BY <1>1, Committed DEF IInv
<1>3. CustomerOf(v) \in names[tx[w].order]
  BY <1>1, <1>2 DEF WorkerInv, Named, CustomerOf
<1>4. CustomerOf(w) \in names[tx[w].order]
  BY <1>1, <1>2 DEF WorkerInv, Shape, Named, CustomerOf
<1> QED
  BY <1>1, <1>2, <1>3, <1>4 DEF Shared

LEMMA CommitOthers ==
    ASSUME IInv, NEW w \in Worker, Committing(w), NEW v \in Worker \ {w}
    PROVE  WorkerInv(v)'
<1>1. /\ tx'[v] = tx[v] /\ WorkerInv(v)
      /\ \A l \in Lockable : lock[l] = v => lock'[l] = v
      /\ v \in overtaken' <=> v \in overtaken \/ v \in Overtakes(w)
  BY DEF Committing, Commit, End, Unlocked, IInv, RowsType
<1>2. tx[v].pc # "idle" => tx[v].order \in Order
  BY <1>1 DEF WorkerInv, Shape
<1>3. \A o \in Order : orders[o] # None => orders'[o] # None
  BY Committed DEF IInv, RowsType
<1>15. Shape(v)'
  <2>1. Shape(v) /\ tx'[v] = tx[v] /\ (orders[tx[v].order] # None /\ tx[v].order \in Order
            => orders'[tx[v].order] # None)
    BY <1>1, <1>3 DEF WorkerInv
  <2> QED
    BY <1>2, <2>1 DEF Shape, Totals
<1>16. Evidence(v)'
  BY <1>1 DEF WorkerInv, Evidence
<1>4. (Shape(v) /\ Evidence(v))'
  BY <1>15, <1>16
<1>5. Locks(v)'
  <2>1. CustomerKey(v)' = CustomerKey(v) /\ OrderKey(v)' = OrderKey(v)
    BY <1>1 DEF CustomerKey, CustomerOf, OrderKey, InOrder
  <2>2. tx[v].payload # None => CustomerKey(v) \in Lockable
    BY CustomerType DEF IInv
  <2>3. tx[v].wroteOrder # None => OrderKey(v) \in Lockable
    BY <1>1, Keys DEF WorkerInv, Shape, OrderKey, InOrder, Totals
  <2> QED
    BY <1>1, <2>1, <2>2, <2>3 DEF WorkerInv, Locks
<1>6. ASSUME \/ tx[v].wroteOrder # None
             \/ tx[v].payload # None /\ v \notin overtaken'
                /\ tx[v].pc \in {"readTombstone", "writeOrder"} \cup Totals
      PROVE  orders'[tx[v].order] = orders[tx[v].order]
  <2>1. \/ tx[v].wroteOrder # None
        \/ tx[v].payload # None /\ tx[v].pc \in {"readTombstone", "writeOrder"}
           /\ v \notin Overtakes(w)
    BY <1>1, <1>6 DEF WorkerInv, Shape
  <2> QED
    BY <2>1, HeldRow
<1>7. Current(v)'
  BY <1>1, <1>6 DEF WorkerInv, Current
<1>13. Late(v)'
  <2>1. CASE v \in overtaken
    BY <1>1, <1>2, <1>3, <2>1 DEF WorkerInv, Late, Totals
  <2>2. CASE v \in Overtakes(w)
    <3>1. orders'[tx[v].order] # None
      BY <2>2, OvertakesShared, Committed
    <3> QED
      BY <1>1, <2>2, <3>1, OvertakesShared DEF Late
  <2>3. CASE v \notin overtaken'
    BY <2>3 DEF Late
  <2> QED
    BY <1>1, <2>1, <2>2, <2>3
<1>14. Named(v)'
  BY <1>1 DEF WorkerInv, Named
<1>8. ASSUME tx[v].payload # None, tx[v].pc \in {"writeOrder"} \cup Totals,
             tx[v].order \in tombs' \ raced', ~tx[v].tombstone
      PROVE  FALSE
  <2>1. tx[v].order \notin tombs
    BY <1>1, <1>8, Committed DEF WorkerInv, Aware
  <2>2. PastTombstone(v, tx[v].order)
    BY <1>8 DEF PastTombstone, InOrder, Totals
  <2>3. tx[v].order \in raced'
    BY <1>8, <2>1, <2>2 DEF Committing, Commit
  <2> QED
    BY <1>8, <2>3
<1>9. Aware(v)'
  BY <1>1, <1>8 DEF WorkerInv, Aware
<1>10. Serial(v)'
  BY <1>1, <1>6 DEF WorkerInv, Serial
<1>11. ASSUME tx[v].payload # None, tx[v].pc \in {"writeOrder"} \cup Totals,
              tx[v].order \in tombs', ~tx[v].tombstone, v \notin overtaken'
       PROVE  orders'[tx[v].order] = None
  <2>2. orders'[tx[v].order] = orders[tx[v].order]
    BY <1>6, <1>11
  <2>3. CASE tx[v].order \in tombs
    BY <1>1, <1>11, <2>2, <2>3 DEF WorkerInv, Grounds
  <2>4. CASE tx[v].order \notin tombs
    <3>1. tx[v].order = tx[w].order
      BY <1>11, <2>4, Committed
    <3>2. tx[w].pc # "writeLtv"
      BY <1>1, <1>11, <3>1, NoneUnderCancel
    <3> QED
      BY <2>2, <3>1, <3>2 DEF Committing
  <2> QED
    BY <2>3, <2>4
<1>12. Grounds(v)'
  BY <1>1, <1>11, Committed DEF WorkerInv, Grounds
<1> QED
  BY <1>4, <1>5, <1>7, <1>9, <1>10, <1>12, <1>13, <1>14 DEF WorkerInv

LEMMA CommitStep ==
    ASSUME IInv, NEW w \in Worker, Committing(w) PROVE IInv'
<1>1. tx' \in [Worker -> Tx] /\ tx'[w] = NoTx
  BY NoTxType, TxType DEF Committing, Commit, End, IInv, RowsType
<1>2. lock' \in [Lockable -> Worker \cup {None}]
  BY DEF Committing, Commit, End, Unlocked, IInv, RowsType
<1>3. RowsType'
  BY <1>1, <1>2, Committed DEF RowsType
<1>8. w \notin overtaken'
  BY DEF Committing, Commit
<1>4. WorkerInv(w)'
  BY <1>1, <1>8 DEF WorkerInv, Shape, Evidence, Locks, Current, Late, Aware, Grounds, Named,
     Serial, NoTx, UpsertReads, CancelReads, Totals
<1>9. RowsNamed'
  BY Committed DEF IInv, RowsNamed, WorkerInv, Named
<1>5. \A v \in Worker : WorkerInv(v)'
  BY <1>4, CommitOthers
<1>6. NeverOverstated'
  <2>1. SUFFICES ASSUME NEW o \in Order, orders'[o] # None PROVE Honest(orders'[o], orders'[o].total)
    BY DEF NeverOverstated, Honest
  <2>2. CASE orders'[o] = orders[o]
    BY <2>1, <2>2 DEF IInv, NeverOverstated, Honest
  <2>3. CASE orders'[o] # orders[o]
    BY <2>1, <2>3, Committed DEF WorkerInv, Evidence
  <2> QED
    BY <2>2, <2>3
<1>7. TombstoneHolds'
  <2>1. SUFFICES ASSUME NEW o \in tombs' \ raced', orders'[o] # None
                 PROVE  orders'[o].status # "completed"
    BY DEF TombstoneHolds, Completed
  <2>2. CASE o \in tombs /\ orders'[o] = orders[o]
    BY <2>1, <2>2, Committed DEF IInv, TombstoneHolds, Completed
  <2>3. CASE o \in tombs /\ orders'[o] # orders[o]
    <3>1. /\ o = tx[w].order /\ orders'[o] = tx[w].wroteOrder /\ tx[w].wroteOrder # None
          /\ tx[w].pc = "writeLtv" /\ o \in tombs \ raced
      BY <2>1, <2>3, Committed DEF IInv, RowsType
    <3>2. tx[w].payload = None \/ tx[w].tombstone
      BY <3>1, Committed DEF WorkerInv, Aware, Totals
    <3> QED
      BY <3>1, <3>2, Committed DEF WorkerInv, Aware
  <2>4. CASE o \notin tombs
    <3>1. o = tx[w].order /\ tx[w].wroteTomb
      BY <2>1, <2>4, Committed
    <3>2. tx[w].payload = None /\ tx[w].wroteOrder # None
      BY <2>1, <3>1, Committed DEF Committing, WorkerInv, Shape
    <3> QED
      BY <3>1, <3>2, Committed DEF WorkerInv, Aware
  <2> QED
    BY <2>2, <2>3, <2>4
<1> QED
  BY <1>3, <1>5, <1>6, <1>7, <1>9 DEF IInv

LEMMA FindOrderStep ==
    ASSUME IInv, NEW w \in Worker, FindOrder(w) PROVE IInv'
<1>1. CASE orders[tx[w].order] = None
  BY <1>1, CommitStep DEF FindOrder, Committing, InOrder
<1>2. CASE orders[tx[w].order] # None
  BY <1>2, OrderFoundStep
<1> QED
  BY <1>1, <1>2

-----------------------------------------------------------------------------
(* The invariant. *)

LEMMA InitIInv == Init => IInv
<1> SUFFICES ASSUME Init PROVE IInv
  OBVIOUS
<1>1. RowsType
  BY NoTxType DEF Init, RowsType
<1>2. \A w \in Worker : tx[w] = NoTx /\ w \notin overtaken
  BY DEF Init
<1>3. \A w \in Worker : WorkerInv(w)
  BY <1>2, NoTxInv
<1> QED
  BY <1>1, <1>3 DEF Init, IInv, RowsNamed, NeverOverstated, TombstoneHolds

LEMMA Step == IInv /\ [Next]_vars => IInv'
<1> SUFFICES ASSUME IInv, [Next]_vars PROVE IInv'
  OBVIOUS
<1>1. CASE UNCHANGED vars
  <2>1. UNCHANGED <<orders, tombs, lock, tx, raced, overtaken>>
    BY <1>1 DEF vars
  <2>2. \A w \in Worker : (Shape(w) /\ Evidence(w) /\ Current(w) /\ Late(w) /\ Aware(w))'
    BY <2>1 DEF IInv, WorkerInv, Shape, Evidence, Current, Late, Aware
  <2>3. \A w \in Worker : (Locks(w) /\ Grounds(w) /\ Named(w) /\ Serial(w))'
    BY <2>1 DEF IInv, WorkerInv, Locks, CustomerKey, CustomerOf, OrderKey, InOrder,
       Grounds, Named, Serial
  <2>4. (RowsType /\ RowsNamed /\ NeverOverstated /\ TombstoneHolds)'
    BY <2>1 DEF IInv, RowsType, RowsNamed, NeverOverstated, TombstoneHolds, Completed
  <2> QED
    BY <2>2, <2>3, <2>4 DEF IInv, WorkerInv
<1>2. ASSUME NEW o \in Order, SyncOrder(o) \/ SyncFinalOrder(o) PROVE IInv'
  <2>1. final[o] \in UpTo(o)
    BY DEF UpTo
  <2> QED
    BY <1>2, <2>1, IngestStep DEF SyncOrder, SyncFinalOrder, Worker
<1>3. ASSUME NEW o \in Order, NEW w \in Hook, Webhook(w, o) PROVE IInv'
  BY <1>3, IngestStep DEF Webhook, Worker
<1>4. ASSUME NEW w \in Worker, Abort(w) PROVE IInv'
  BY <1>4, EndStep DEF Abort
<1>5. ASSUME NEW w \in Worker, DeadlockAbort(w) PROVE IInv'
  BY <1>5, EndStep DEF DeadlockAbort
<1>6. ASSUME NEW w \in Worker, WriteLtv(w) PROVE IInv'
  BY <1>6, CommitStep DEF WriteLtv, Committing
<1>7. ASSUME NEW w \in Worker, Statement(w) PROVE IInv'
  BY <1>5, <1>6, <1>7, UpsertCustomerStep, ReadOrderStep, ReadTombstoneStep, WriteOrderStep,
     WriteTombstoneStep, FindOrderStep, MarkCancelledStep, SumOrdersStep DEF Statement
<1> QED
  BY <1>1, <1>2, <1>3, <1>4, <1>7 DEF Next

LEMMA Invariant == Spec => []IInv
  BY InitIInv, Step, PTL DEF Spec

LEMMA Ended ==
    ASSUME IInv, NEW w \in Worker, Committing(w)
    PROVE  tx'[w].pc = "idle"
  BY DEF Committing, Commit, End, NoTx, IInv, RowsType

\* Rows and tombstones change only by a commit.
LEMMA Commits ==
    ASSUME [Next]_vars
    PROVE  (\E w \in Worker : Committing(w)) \/ UNCHANGED <<orders, tombs, raced>>
<1>1. ASSUME NEW w \in Worker, Statement(w)
      PROVE  UNCHANGED <<orders, tombs, raced>> \/ Committing(w)
  BY <1>1 DEF Statement, UpsertCustomer, ReadOrder, ReadTombstone, WriteOrder, WriteTombstone,
     FindOrder, MarkCancelled, SumOrders, WriteLtv, DeadlockAbort, ledger, Committing, InOrder
<1> QED
  BY <1>1 DEF Next, vars, SyncOrder, SyncFinalOrder, Webhook, Ingest, Abort, ledger

\* A committed row gives way to one that succeeds it, or to an overtaken upsert.
LEMMA RowsSucceed ==
    ASSUME IInv, [Next]_vars, NEW o \in Order, orders[o] # None
    PROVE  orders'[o] # None /\ (Succeeds(orders'[o], orders[o]) \/ ByOvertaken(o))
<1>1. Succeeds(orders[o], orders[o])
  BY GrossAssumption DEF IInv, RowsType, OrderRow, Amount, Succeeds
<1>2. ASSUME NEW w \in Worker, Committing(w)
      PROVE  orders'[o] # None /\ (Succeeds(orders'[o], orders[o]) \/ ByOvertaken(o))
  <2>1. CASE orders'[o] = orders[o]
    BY <1>1, <2>1
  <2>2. CASE orders'[o] # orders[o]
    <3>1. /\ o = tx[w].order /\ orders'[o] = tx[w].wroteOrder /\ tx[w].wroteOrder # None
          /\ WorkerInv(w)
      BY <1>2, <2>2, Committed
    <3>2. CASE w \notin overtaken
      BY <3>1, <3>2 DEF WorkerInv, Current
    <3>3. CASE w \in overtaken
      BY <1>2, <3>1, <3>3, Ended DEF ByOvertaken, InOrder
    <3> QED
      BY <3>1, <3>2, <3>3
  <2> QED
    BY <2>1, <2>2
<1>3. CASE orders' = orders
  BY <1>1, <1>3
<1>4. orders' = orders \/ \E w \in Worker : Committing(w)
  BY Commits
<1> QED
  BY <1>2, <1>3, <1>4

-----------------------------------------------------------------------------

(* A cancelled order stays cancelled (resolveOrderRecoveryStatus) and the    *)
(* recorded refund never shrinks (upsertOrder), however many handlers and    *)
(* syncs write the order, and in whatever order its payloads arrive: an      *)
(* upsert computes both from a row it read before, but it holds its          *)
(* customer's row, and only a transaction of another customer writes the     *)
(* order without that.                                                       *)
THEOREM EvidenceStays == Spec => NothingComesBack
<1> DEFINE Stays(o) == orders[o] # None
                          => /\ orders'[o] # None
                             /\ Succeeds(orders'[o], orders[o]) \/ ByOvertaken(o)
<1>1. ASSUME IInv, [Next]_vars, NEW o \in Order PROVE Stays(o)
  BY <1>1, RowsSucceed
<1>2. IInv /\ [Next]_vars => [\A o \in Order : Stays(o)]_vars
  BY <1>1
<1> QED
  BY <1>2, Invariant, PTL DEF Spec, NothingComesBack

(* No row counts money its own refund evidence says was given back           *)
(* (reconcileOrderMoney), for any amounts.                                   *)
THEOREM RevenueNeverOverstated == Spec => []NeverOverstated
<1>1. IInv => NeverOverstated
  BY DEF IInv
<1> QED
  BY <1>1, Invariant, PTL

(* An order with a tombstone is completed only if an upsert was past its     *)
(* read of the tombstone when the cancellation committed: the race of the    *)
(* two transactions is the only way round a tombstone.                       *)
THEOREM TombstonesHold == Spec => []TombstoneHolds
<1>1. IInv => TombstoneHolds
  BY DEF IInv
<1> QED
  BY <1>1, Invariant, PTL

-----------------------------------------------------------------------------
(* The abstract ledger. *)

\* A commit of an upsert, overtaken or not.
LEMMA UpsertCommits ==
    ASSUME IInv, NEW w \in Worker, Committing(w), tx[w].payload # None
    PROVE  /\ tx[w].payload \in Sent[tx[w].order]
           /\ w \notin overtaken => LedgerImpl!Upsert(tx[w].order, tx[w].payload)
           /\ w \in overtaken => LedgerImpl!Overtaken(tx[w].order, tx[w].payload)
<1> DEFINE o == tx[w].order
<1>1. o \in Order /\ tx[w] \in Tx /\ WorkerInv(w) /\ orders \in [Order -> OrderRow \cup {None}]
  BY Committed DEF IInv, RowsType
<1>2. tx[w].pc = "writeLtv" /\ tx[w].wroteOrder # None
  BY <1>1, Committed DEF Committing, WorkerInv, Shape, CancelReads
<1>3. ~tx[w].wroteTomb
  BY <1>1 DEF WorkerInv, Shape
<1>4. tombs' = tombs /\ raced' = raced
  BY <1>3 DEF Committing, Commit
<1>5. orders' = [orders EXCEPT ![o] =
                     LedgerImpl!Upserted(tx[w].existing, tx[w].payload, tx[w].tombstone)]
  BY <1>1, <1>2 DEF Committing, Commit, Seen, InOrder, WorkerInv, Serial
<1>6. /\ tx[w].tombstone \in BOOLEAN /\ (tx[w].tombstone => o \in tombs)
      /\ (o \in tombs /\ ~tx[w].tombstone => o \in raced)
      /\ tx[w].existing \in OrderRow \cup {None}
  BY <1>1, <1>2 DEF Tx, WorkerInv, Grounds, Aware, Totals
<1>7. tx[w].payload \in Sent[o]
  BY <1>1 DEF WorkerInv, Grounds
<1>8. CASE w \notin overtaken
  <2>1. tx[w].existing = orders[o] /\ (o \in tombs /\ ~tx[w].tombstone => orders[o] = None)
    BY <1>1, <1>2, <1>8 DEF WorkerInv, Current, Grounds, Totals
  <2> QED
    BY <1>4, <1>5, <1>6, <1>7, <1>8, <2>1 DEF LedgerImpl!Upsert
<1>9. CASE w \in overtaken
  <2>1. o \in Shared /\ orders[o] # None
    BY <1>1, <1>9 DEF WorkerInv, Late
  <2> QED
    BY <1>4, <1>5, <1>6, <1>7, <1>9, <2>1 DEF LedgerImpl!Overtaken
<1> QED
  BY <1>8, <1>9

\* A commit of cancelOrder.
LEMMA CancelCommits ==
    ASSUME IInv, NEW w \in Worker, Committing(w), tx[w].payload = None
    PROVE  LedgerImpl!Cancel(tx[w].order) /\ tx[w].order \in Cancellable
<1> DEFINE o == tx[w].order
           late == {p \in tombs' \ tombs : \E v \in Worker : PastTombstone(v, p)}
<1>1. o \in Order /\ WorkerInv(w) /\ orders \in [Order -> OrderRow \cup {None}]
  BY Committed DEF IInv, RowsType
<1>2. tombs' = tombs \cup {o} /\ o \in Cancellable
  BY <1>1, Committed DEF Committing, WorkerInv, Grounds, Totals
<1>3. raced' = raced \cup late
  BY DEF Committing, Commit
<1>4. late \subseteq {o} /\ (o \in tombs => late = {})
  BY <1>2
<1>5. CASE tx[w].pc = "findOrder"
  <2>1. orders[o] = None /\ orders' = orders
    BY <1>1, <1>5, Committed DEF Committing
  <2>2. \/ UNCHANGED raced
        \/ orders[o] = None /\ o \notin tombs /\ raced' = raced \cup {o}
    BY <1>3, <1>4, <2>1
  <2> QED
    BY <1>2, <2>1, <2>2 DEF LedgerImpl!Cancel
<1>6. CASE tx[w].pc = "writeLtv"
  <2>1. late = {} \/ o \in Shared
    <3>1. SUFFICES ASSUME NEW v \in Worker, PastTombstone(v, o) PROVE o \in Shared
      BY <1>4
    <3>2. /\ v # w /\ tx[v].payload # None /\ tx[v].order = o
          /\ tx[v].pc \in {"readTombstone", "writeOrder"} \cup Totals
      BY <3>1 DEF PastTombstone, InOrder, Totals
    <3>3. v \in Overtakes(w)
      BY <1>6, <3>2, NoneUnderCancel
    <3> QED
      BY <3>3, OvertakesShared
  <2>2. orders[o] # None /\ orders' = [orders EXCEPT ![o].status = "cancelled"]
    BY <1>1, <1>6, Committed DEF Committing, Commit, Seen, InOrder, WorkerInv, Serial
  <2>3. \/ UNCHANGED raced
        \/ o \in Shared /\ o \notin tombs /\ raced' = raced \cup {o}
    BY <1>3, <1>4, <2>1
  <2> QED
    BY <1>2, <2>2, <2>3 DEF LedgerImpl!Cancel
<1> QED
  BY <1>2, <1>5, <1>6 DEF Committing

LEMMA LedgerStep == IInv /\ [Next]_vars => [LedgerImpl!Next]_(LedgerImpl!vars)
<1>1. ASSUME IInv, NEW w \in Worker, Committing(w) PROVE LedgerImpl!Next
  BY <1>1, UpsertCommits, CancelCommits, Committed DEF LedgerImpl!Next
<1>2. ASSUME IInv, [Next]_vars PROVE [LedgerImpl!Next]_(LedgerImpl!vars)
  <2>1. (\E w \in Worker : Committing(w)) \/ UNCHANGED <<orders, tombs, raced>>
    BY <1>2, Commits
  <2> QED
    BY <1>1, <1>2, <2>1 DEF LedgerImpl!vars
<1> QED
  BY <1>2

(* The ledger is serializable up to two races: whatever the interleaving of  *)
(* handlers and sync pages, of deadlocks and aborts, the committed orders    *)
(* and tombstones change as if every webhook took effect at once.  Only an   *)
(* upsert whose cancellation raced it misses a tombstone, and only where the *)
(* payloads of an order disagree on its customer does an upsert go by an     *)
(* older row (upsertOrder, cancelOrder).                                     *)
THEOREM ImplementsLedger == Spec => LedgerSpec
<1>1. Init => LedgerImpl!Init
  BY DEF Init, LedgerImpl!Init
<1>2. ASSUME IInv, [Next]_vars PROVE [LedgerImpl!Next]_(LedgerImpl!vars)
  BY <1>2, LedgerStep
<1> QED
  BY <1>1, <1>2, Invariant, PTL DEF Spec, LedgerSpec, LedgerImpl!Spec

(* The race of a create and its cancellation costs one write: whatever       *)
(* writes a row with a tombstone next, an update of any age or the repeated  *)
(* cancellation, cancels it (upsertOrder, cancelOrder), but for an upsert    *)
(* that was overtaken itself.                                                *)
THEOREM RaceIsRepaired == Spec => RaceEndsWithNextWrite
<1> DEFINE Ends(o) == orders[o] # None /\ orders'[o] # orders[o]
                         => Cancelled(o)' \/ ByOvertaken(o)
<1>1. ASSUME IInv, [Next]_vars, NEW o \in tombs, orders[o] # None, orders'[o] # orders[o]
      PROVE  Cancelled(o)' \/ ByOvertaken(o)
  <2>1. o \in Order /\ orders \in [Order -> OrderRow \cup {None}]
    BY <1>1 DEF IInv, RowsType
  <2>2. orders'[o] # None
    BY <1>1, <2>1, RowsSucceed
  <2>3. PICK w \in Worker : Committing(w)
    BY <1>1, Commits
  <2>4. /\ o = tx[w].order /\ tx[w].wroteOrder # None /\ orders'[o] = tx[w].wroteOrder
        /\ WorkerInv(w)
    BY <1>1, <2>1, <2>3, Committed
  <2>5. CASE w \in overtaken
    BY <1>1, <2>3, <2>4, <2>5, Ended DEF ByOvertaken, InOrder
  <2>6. CASE w \notin overtaken
    <3>1. tx[w].payload = None \/ tx[w].tombstone
      BY <1>1, <2>4, <2>6 DEF WorkerInv, Shape, Grounds
    <3>2. tx[w].wroteOrder.status = "cancelled"
      BY <2>4, <3>1 DEF WorkerInv, Aware
    <3> QED
      BY <2>2, <2>4, <3>2 DEF Cancelled
  <2> QED
    BY <2>5, <2>6
<1>2. IInv /\ [Next]_vars => [\A o \in tombs : Ends(o)]_vars
  BY <1>1
<1> QED
  BY <1>2, Invariant, PTL DEF Spec, RaceEndsWithNextWrite
=============================================================================
