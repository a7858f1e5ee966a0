------------------------- MODULE CheckoutLinkProofs -------------------------
(* What holds of orders and their checkouts for any numbers of orders,       *)
(* checkouts and concurrent transactions, and for any payloads.              *)
EXTENDS CheckoutLink, TLAPS

----------------------------------------------------------------------------
(* Types.  A transaction has the order and the checkout it works on.         *)

OnOrder == {"lookup", "claim", "seize", "note"}
OnCart == {"claim", "checkout", "list", "pending", "seize", "note"}

TxTyped(t) ==
    /\ t \in Tx
    /\ t.at \in OnOrder => t.order \in Order
    /\ t.at \in OnCart => t.cart \in Cart
    /\ t.at = "note" => t.reason \in Reason

TablesTyped ==
    /\ order \in [Order -> OrderRow]
    /\ tombstones \subseteq Order
    /\ cart \in [Cart -> CartRow]
    /\ case \in [Order -> CaseRow]

LocksTyped ==
    /\ rowLock \in [Order -> Worker \cup {None}]
    /\ cartLock \in [Cart -> Worker \cup {None}]
    /\ faults \in 0..MaxFaults

WorkersTyped == tx \in [Worker -> Tx] /\ \A w \in Worker : TxTyped(tx[w])

Typed == TablesTyped /\ LocksTyped /\ WorkersTyped

LEMMA TypedIsTypeOK == Typed => TypeOK
  BY DEF Typed, TypeOK, TablesTyped, LocksTyped, WorkersTyped

LEMMA IdleTyped == TxTyped(Idle) /\ NoOrder \in OrderRow /\ Nothing \in Evidence
  BY DEF TxTyped, Idle, Tx, Step, Nothing, NoOrder, NoCart, OrderRow, CartRow, Evidence,
     Observation, OnOrder, OnCart

LEMMA BecomeTyped ==
    ASSUME WorkersTyped, NEW w \in Worker, NEW t, TxTyped(t), Become(w, t)
    PROVE  WorkersTyped'
  BY DEF WorkersTyped, Become, TxTyped

LEMMA LocksFreed ==
    ASSUME LocksTyped, NEW w \in Worker,
           ReleaseRow(w) \/ UNCHANGED rowLock, ReleaseCart(w) \/ UNCHANGED cartLock,
           faults' \in 0..MaxFaults
    PROVE  LocksTyped'
  BY DEF LocksTyped, ReleaseRow, ReleaseCart

LEMMA CartTaken ==
    ASSUME LocksTyped, NEW w \in Worker, NEW c \in Cart, TakeCart(w, c),
           UNCHANGED <<rowLock, faults>>
    PROVE  LocksTyped'
  BY DEF LocksTyped, TakeCart

LEMMA CaseTyped ==
    ASSUME case \in [Order -> CaseRow], NEW o \in Order,
           \/ UNCHANGED case \/ Resolved(o)
           \/ \E reason \in Reason, preserve \in BOOLEAN : Unresolved(o, reason, preserve)
    PROVE  case' \in [Order -> CaseRow]
<1>1. case[o] \in CaseRow
  OBVIOUS
<1>2. CASE Resolved(o)
  BY <1>1, <1>2 DEF Resolved, CaseRow
<1>3. ASSUME NEW reason \in Reason, NEW preserve \in BOOLEAN, Unresolved(o, reason, preserve)
      PROVE  case' \in [Order -> CaseRow]
  <2>1. PICK s \in {"UNRESOLVED", case[o].status} :
            case' = [case EXCEPT ![o] = [status |-> s, reason |-> reason]]
    BY <1>3 DEF Unresolved
  <2>2. [status |-> s, reason |-> reason] \in CaseRow
    BY <1>1 DEF CaseRow
  <2> QED
    BY <2>1, <2>2
<1> QED
  BY <1>2, <1>3

LEMMA RecoveredTyped ==
    ASSUME cart \in [Cart -> CartRow], NEW c \in Cart \cup {None}, NEW b, Recovered(c, b)
    PROVE  cart' \in [Cart -> CartRow]
  BY NoneAssumption DEF Recovered, CartRow

LEMMA CommitTyped ==
    ASSUME Typed, NEW w \in Worker, tx[w].at \in {"lookup", "claim"},
           NEW link \in Cart \cup {None}, CommitOrder(w, link), case' \in [Order -> CaseRow]
    PROVE  Typed'
<1>1. tx[w].order \in Order /\ tx[w].row \in OrderRow
  BY DEF Typed, WorkersTyped, TxTyped, OnOrder, Tx
<1>2. [tx[w].row EXCEPT !.link = link] \in OrderRow
  BY <1>1 DEF OrderRow
<1>3. order' \in [Order -> OrderRow]
  BY <1>1, <1>2 DEF CommitOrder, Typed, TablesTyped
<1>4. cart' \in [Cart -> CartRow]
  BY RecoveredTyped DEF CommitOrder, Typed, TablesTyped
<1>5. WorkersTyped'
  BY IdleTyped, BecomeTyped DEF CommitOrder, Typed
<1>6. LocksTyped'
  BY LocksFreed DEF CommitOrder, Typed, LocksTyped
<1> QED
  BY <1>3, <1>4, <1>5, <1>6 DEF Typed, TablesTyped, CommitOrder

(* What a transaction of another kind turns into.                            *)
LEMMA TxMoves ==
    ASSUME NEW t, TxTyped(t)
    PROVE  /\ \A c \in Cart : TxTyped([Idle EXCEPT !.at = "list", !.cart = c])
           /\ \A c \in Cart : t.order \in Order =>
                 TxTyped([t EXCEPT !.at = "claim", !.cart = c, !.payload = Nothing])
           /\ \A s \in SUBSET Order : t.cart \in Cart =>
                 TxTyped([t EXCEPT !.at = "pending", !.listed = s])
           /\ \A s \in SUBSET Order : t.at = "pending" => TxTyped([t EXCEPT !.listed = s])
           /\ \A o \in Order, reason \in Reason : t.cart \in Cart =>
                 TxTyped([t EXCEPT !.at = "note", !.order = o, !.reason = reason])
           /\ \A o \in Order, row \in OrderRow : t.cart \in Cart =>
                 TxTyped([t EXCEPT !.at = "seize", !.order = o, !.row = row])
           /\ \A s \in SUBSET Order : t.cart \in Cart =>
                 TxTyped([t EXCEPT !.at = "pending", !.order = None, !.row = NoOrder,
                                   !.reason = None, !.listed = s])
<1> USE DEF TxTyped, Tx, Step, OnOrder, OnCart
<1>1. \A c \in Cart : TxTyped([Idle EXCEPT !.at = "list", !.cart = c])
  BY IdleTyped DEF Idle
<1>2. ASSUME NEW c \in Cart, t.order \in Order
      PROVE  TxTyped([t EXCEPT !.at = "claim", !.cart = c, !.payload = Nothing])
  BY <1>2, IdleTyped
<1>3. ASSUME NEW s \in SUBSET Order, t.cart \in Cart
      PROVE  TxTyped([t EXCEPT !.at = "pending", !.listed = s])
  BY <1>3
<1>4. ASSUME NEW s \in SUBSET Order, t.at = "pending" PROVE TxTyped([t EXCEPT !.listed = s])
  BY <1>4
<1>5. ASSUME NEW o \in Order, NEW reason \in Reason, t.cart \in Cart
      PROVE  TxTyped([t EXCEPT !.at = "note", !.order = o, !.reason = reason])
  BY <1>5
<1>6. ASSUME NEW o \in Order, NEW row \in OrderRow, t.cart \in Cart
      PROVE  TxTyped([t EXCEPT !.at = "seize", !.order = o, !.row = row])
  BY <1>6
<1>7. ASSUME NEW s \in SUBSET Order, t.cart \in Cart
      PROVE  TxTyped([t EXCEPT !.at = "pending", !.order = None, !.row = NoOrder,
                               !.reason = None, !.listed = s])
  BY <1>7, IdleTyped
<1> QED
  BY <1>1, <1>2, <1>3, <1>4, <1>5, <1>6, <1>7

(* What a worker that judges a listed order decides.                         *)
LEMMA Judgement ==
    ASSUME NEW w \in Worker, NEW o \in Order, Judge(w, o)
    PROVE  \/ \E reason \in Reason :
                 Become(w, [tx[w] EXCEPT !.at = "note", !.order = o, !.reason = reason])
           \/ /\ Candidates(order[o].ids) = {tx[w].cart}
              /\ OtherOwners(o, tx[w].cart) = {}
              /\ Become(w, [tx[w] EXCEPT !.at = "seize", !.order = o, !.row = order[o]])
  BY DEF Judge, Reason

LEMMA ContinueTyped ==
    ASSUME Typed, NEW w \in Worker, tx[w].at \in {"note", "seize"}, Continue(w),
           UNCHANGED rowLock, UNCHANGED faults
    PROVE  LocksTyped' /\ WorkersTyped'
<1>1. TxTyped(tx[w]) /\ tx[w].cart \in Cart /\ tx[w].listed \ {tx[w].order} \in SUBSET Order
  BY DEF Typed, WorkersTyped, TxTyped, OnCart, Tx
<1>2. WorkersTyped'
  BY <1>1, TxMoves, BecomeTyped DEF Continue, Typed
<1>3. LocksTyped'
  BY LocksFreed DEF Continue, Typed, LocksTyped
<1> QED
  BY <1>2, <1>3

LEMMA StepTyped == Typed /\ [Next]_vars => Typed'
<1> SUFFICES ASSUME Typed, [Next]_vars PROVE Typed'
  OBVIOUS
<1> USE DEF Typed
<1>1. CASE UNCHANGED vars
  BY <1>1 DEF vars, TablesTyped, LocksTyped, WorkersTyped, TxTyped
<1>2. ASSUME NEW w \in Worker, NEW o \in Order, NEW payload \in Evidence,
             IngestOrder(w, o, payload)
      PROVE  Typed'
  <2> DEFINE old == order[o]
             conflict == old.present /\ Conflicts(old.ids, payload)
             row == [present |-> TRUE,
                     ids |-> IF conflict THEN old.ids ELSE Merged(old.ids, payload),
                     link |-> old.link, cancelled |-> old.cancelled \/ o \in tombstones]
             t == [Idle EXCEPT !.at = "lookup", !.order = o, !.payload = payload,
                               !.conflict = conflict, !.row = row]
  <2>1. payload \in Evidence /\ old \in OrderRow
    BY DEF TablesTyped
  <2>2. Merged(old.ids, payload) \in Evidence
    BY <2>1 DEF Merged, Evidence, OrderRow
  <2>3. row \in OrderRow
    BY <2>1, <2>2 DEF OrderRow
  <2>4. conflict \in BOOLEAN
    BY <2>1 DEF OrderRow, Conflicts
  <2> HIDE DEF row, conflict
  <2>5. TxTyped(t)
    BY <2>1, <2>3, <2>4, IdleTyped DEF TxTyped, Tx, Step, Idle, OnOrder, OnCart
  <2>6. Become(w, t)
    BY <1>2 DEF IngestOrder, row, conflict
  <2> HIDE DEF t
  <2>7. LocksTyped'
    BY <1>2 DEF IngestOrder, LocksTyped
  <2> QED
    BY <1>2, <2>5, <2>6, <2>7, BecomeTyped DEF IngestOrder, tables, TablesTyped
<1>3. ASSUME NEW o \in Order, CancelOrder(o) PROVE Typed'
  <2>1. order' \in [Order -> OrderRow]
    BY <1>3 DEF CancelOrder, TablesTyped, OrderRow
  <2> QED
    BY <1>3, <2>1 DEF CancelOrder, TablesTyped, LocksTyped, WorkersTyped, TxTyped
<1>4. ASSUME NEW w \in Worker, NEW c \in Cart, NEW saw \in Observation, ReadCart(w, c, saw)
      PROVE  Typed'
  <2> DEFINE t == [Idle EXCEPT !.at = "checkout", !.cart = c, !.saw = saw, !.was = cart[c]]
  <2>1. TxTyped(t)
    BY IdleTyped DEF TablesTyped, TxTyped, Tx, Step, Idle, OnOrder, OnCart
  <2>2. Become(w, t)
    BY <1>4 DEF ReadCart
  <2> HIDE DEF t
  <2> QED
    BY <1>4, <2>1, <2>2, BecomeTyped, CartTaken DEF ReadCart, tables, TablesTyped
<1>5. ASSUME NEW w \in Worker, CloseUnmatched(w) PROVE Typed'
  <2>1. tx[w].order \in Order /\ tx[w].row.link \in Cart \cup {None}
    BY <1>5 DEF CloseUnmatched, WorkersTyped, TxTyped, Tx, OnOrder, OrderRow
  <2>2. /\ tx[w].at = "lookup" /\ CommitOrder(w, tx[w].row.link)
        /\ \/ UNCHANGED case
           \/ \E reason \in Reason, preserve \in BOOLEAN :
                 Unresolved(tx[w].order, reason, preserve)
    BY <1>5 DEF CloseUnmatched, Conflict, Reason
  <2>3. case' \in [Order -> CaseRow]
    BY <2>1, <2>2, CaseTyped DEF TablesTyped
  <2> QED
    BY <2>1, <2>2, <2>3, CommitTyped
<1>6. ASSUME NEW w \in Worker, FindCheckout(w) PROVE Typed'
  <2>1. PICK c \in Cart :
            Become(w, [tx[w] EXCEPT !.at = "claim", !.cart = c, !.payload = Nothing])
    BY <1>6 DEF FindCheckout, Candidates, Found
  <2>2. TxTyped(tx[w]) /\ tx[w].order \in Order
    BY <1>6 DEF FindCheckout, WorkersTyped, TxTyped, OnOrder
  <2> QED
    BY <1>6, <2>1, <2>2, TxMoves, BecomeTyped
    DEF FindCheckout, tables, TablesTyped, LocksTyped
<1>7. ASSUME NEW w \in Worker, ClaimCheckout(w) PROVE Typed'
  <2>1. tx[w].order \in Order /\ tx[w].cart \in Cart /\ tx[w].row.link \in Cart \cup {None}
    BY <1>7 DEF ClaimCheckout, WorkersTyped, TxTyped, Tx, OnOrder, OnCart, OrderRow
  <2>2. /\ tx[w].at = "claim"
        /\ \E link \in {tx[w].row.link, tx[w].cart} : CommitOrder(w, link)
        /\ \/ Resolved(tx[w].order)
           \/ \E reason \in Reason, preserve \in BOOLEAN :
                 Unresolved(tx[w].order, reason, preserve)
    BY <1>7 DEF ClaimCheckout, Conflict, Reason
  <2>3. case' \in [Order -> CaseRow]
    BY <2>1, <2>2, CaseTyped DEF TablesTyped
  <2> QED
    BY <2>1, <2>2, <2>3, CommitTyped
<1>8. ASSUME NEW w \in Worker, WriteCart(w) PROVE Typed'
  <2>1. TxTyped(tx[w]) /\ tx[w].cart \in Cart
    BY <1>8 DEF WriteCart, WorkersTyped, TxTyped, OnCart
  <2>2. NextStatus(tx[w].was, tx[w].saw) \in {"pending", "abandoned", "recovered"}
    BY DEF NextStatus
  <2>3. cart' \in [Cart -> CartRow]
    BY <1>8, <2>2 DEF WriteCart, TablesTyped, CartRow
  <2>4. WorkersTyped'
    BY <1>8, <2>1, TxMoves, BecomeTyped DEF WriteCart
  <2>5. LocksTyped'
    BY <1>8, LocksFreed DEF WriteCart, LocksTyped
  <2> QED
    BY <1>8, <2>3, <2>4, <2>5 DEF WriteCart, TablesTyped
<1>9. ASSUME NEW w \in Worker, ListPending(w) PROVE Typed'
  <2>1. TxTyped(tx[w]) /\ tx[w].cart \in Cart
    BY <1>9 DEF ListPending, WorkersTyped, TxTyped, OnCart
  <2>2. PICK s \in SUBSET Order : Become(w, [tx[w] EXCEPT !.at = "pending", !.listed = s])
    BY <1>9 DEF ListPending
  <2> QED
    BY <1>9, <2>1, <2>2, TxMoves, BecomeTyped
    DEF ListPending, tables, TablesTyped, LocksTyped
<1>10. ASSUME NEW w \in Worker, NEW o \in Order, Judge(w, o) PROVE Typed'
  <2>1. TxTyped(tx[w]) /\ tx[w].cart \in Cart
    BY <1>10 DEF Judge, WorkersTyped, TxTyped, OnCart
  <2>2. order[o] \in OrderRow
    BY DEF TablesTyped
  <2>3. WorkersTyped'
    <3>1. CASE \E reason \in Reason :
                  Become(w, [tx[w] EXCEPT !.at = "note", !.order = o, !.reason = reason])
      BY <2>1, <3>1, TxMoves, BecomeTyped
    <3>2. CASE Become(w, [tx[w] EXCEPT !.at = "seize", !.order = o, !.row = order[o]])
      <4>1. TxTyped([tx[w] EXCEPT !.at = "seize", !.order = o, !.row = order[o]])
        BY <2>1, <2>2, TxMoves
      <4> QED
        BY <3>2, <4>1, BecomeTyped
    <3> QED
      BY <1>10, <3>1, <3>2, Judgement
  <2> QED
    BY <1>10, <2>1, <2>3, CartTaken DEF Judge, tables, TablesTyped
<1>11. ASSUME NEW w \in Worker, NEW o \in Order, PassOver(w, o) PROVE Typed'
  <2>1. TxTyped(tx[w]) /\ tx[w].at = "pending" /\ tx[w].listed \ {o} \in SUBSET Order
    BY <1>11 DEF PassOver, WorkersTyped, TxTyped, Tx
  <2> QED
    BY <1>11, <2>1, TxMoves, BecomeTyped DEF PassOver, tables, TablesTyped, LocksTyped
<1>12. ASSUME NEW w \in Worker, NoteCase(w) PROVE Typed'
  <2>1. tx[w].order \in Order /\ tx[w].reason \in Reason
    BY <1>12 DEF NoteCase, WorkersTyped, TxTyped, OnOrder
  <2>2. case' \in [Order -> CaseRow]
    <3>1. (tx[w].reason = "CONFLICTING_IDENTIFIERS") \in BOOLEAN
      OBVIOUS
    <3> QED
      BY <1>12, <2>1, <3>1, CaseTyped DEF NoteCase, TablesTyped
  <2> QED
    BY <1>12, <2>2, ContinueTyped DEF NoteCase, TablesTyped
<1>13. ASSUME NEW w \in Worker, SeizeOrder(w) PROVE Typed'
  <2>1. tx[w].order \in Order /\ tx[w].cart \in Cart
    BY <1>13 DEF SeizeOrder, WorkersTyped, TxTyped, OnOrder, OnCart
  <2>2. case' \in [Order -> CaseRow]
    BY <1>13, <2>1, CaseTyped DEF SeizeOrder, TablesTyped
  <2>3. order' \in [Order -> OrderRow]
    BY <1>13, <2>1 DEF SeizeOrder, TablesTyped, OrderRow
  <2>4. cart' \in [Cart -> CartRow]
    BY <1>13, <2>1, RecoveredTyped DEF SeizeOrder, TablesTyped
  <2> QED
    BY <1>13, <2>2, <2>3, <2>4, ContinueTyped DEF SeizeOrder, TablesTyped
<1>14. ASSUME NEW w \in Worker, FinishCart(w) PROVE Typed'
  BY <1>14, IdleTyped, BecomeTyped DEF FinishCart, tables, TablesTyped, LocksTyped
<1>15. ASSUME NEW w \in Worker, BreakDeadlock(w) \/ Fails(w) PROVE Typed'
  <2>1. faults' \in 0..MaxFaults
    BY <1>15, FaultsAssumption DEF BreakDeadlock, Fails, LocksTyped
  <2> QED
    BY <1>15, <2>1, IdleTyped, BecomeTyped, LocksFreed
    DEF BreakDeadlock, Fails, Rollback, tables, TablesTyped
<1>16. ASSUME NEW o \in Order, Deliver(o) \/ Resync(o)
       PROVE  \E w \in Worker, payload \in Evidence : IngestOrder(w, o, payload)
  BY <1>16, PayloadsAssumption, SyncedAssumption DEF Deliver, Resync
<1> QED
  BY <1>1, <1>2, <1>3, <1>4, <1>5, <1>6, <1>7, <1>8, <1>9, <1>10, <1>11, <1>12, <1>13, <1>14,
     <1>15, <1>16
  DEF Next, Visit, Proceed

LEMMA InitTyped == Init => Typed
<1> SUFFICES ASSUME Init PROVE Typed
  OBVIOUS
<1>1. TablesTyped
  BY IdleTyped DEF Init, TablesTyped, CartRow, NoCart, CaseRow
<1>2. LocksTyped
  BY FaultsAssumption DEF Init, LocksTyped
<1>3. WorkersTyped
  BY IdleTyped DEF Init, WorkersTyped, TxTyped
<1> QED
  BY <1>1, <1>2, <1>3 DEF Typed

(* The model's states are well formed: a transaction has what its step uses. *)
THEOREM TypeCorrect == Spec => []TypeOK
<1>1. Spec => []Typed
  BY InitTyped, StepTyped, PTL DEF Spec
<1> QED
  BY <1>1, TypedIsTypeOK, PTL

----------------------------------------------------------------------------
(* What a transaction relies on until it ends.  The order's row lock keeps   *)
(* the link it will write back; the checkout's lock keeps the checkout as it *)
(* was read and free of other orders.                                        *)

HoldsRow(v) ==
    tx[v].at \in {"lookup", "claim"} =>
        LET o == tx[v].order IN
        /\ rowLock[o] = v
        /\ tx[v].row.present
        /\ tx[v].row.link = order[o].link
        /\ order[o].cancelled => tx[v].row.cancelled

HasFound(v) ==
    /\ tx[v].at \in {"claim", "seize"} => cart[tx[v].cart].present
    /\ tx[v].at = "seize" => order[tx[v].order].present
    /\ \A o \in tx[v].listed : order[o].present

Keeps(v) ==
    tx[v].at = "claim" => tx[v].row.link \in {None, tx[v].cart}

HoldsCart(v) ==
    /\ tx[v].at \in {"checkout", "seize", "note"} => cartLock[tx[v].cart] = v
    /\ tx[v].at = "checkout" => tx[v].was = cart[tx[v].cart]
    /\ tx[v].at = "seize" =>
          /\ \A p \in Order \ {tx[v].order} : order[p].link # tx[v].cart
          /\ tx[v].row.cancelled => order[tx[v].order].cancelled

Mine(v) == HoldsRow(v) /\ HasFound(v) /\ Keeps(v) /\ HoldsCart(v)

\* An order that is not there is not linked, and a linked checkout is there.
LinksExist ==
    \A o \in Order : order[o].link # None => order[o].present /\ cart[order[o].link].present
AbsentNotCancelled == \A o \in Order : order[o].cancelled => order[o].present
CasesLinked == \A o \in Order : case[o].status = "RESOLVED" => order[o].link # None

Sound == LinksExist /\ AbsentNotCancelled /\ CasesLinked /\ OneOwner /\ PurchaseRecovers
Linked == Sound /\ \A v \in Worker : Mine(v)

\* What every step keeps of the tables: orders stay linked where they are.
Forward ==
    /\ \A o \in Order : order[o].link # None => order'[o].link = order[o].link
    /\ \A o \in Order : order[o].cancelled => order'[o].cancelled
    /\ \A o \in Order : order[o].present => order'[o].present
    /\ \A c \in Cart : cart[c].present => cart'[c].present

(* A step of one worker keeps what another relies on if it leaves alone the  *)
(* rows that are locked.                                                     *)
LEMMA OthersKeep ==
    ASSUME Typed, NEW v \in Worker, Mine(v), tx'[v] = tx[v], Forward,
           \A o \in Order : rowLock[o] = v =>
              /\ rowLock'[o] = v /\ order'[o].link = order[o].link
              /\ order'[o].cancelled => order[o].cancelled,
           \A c \in Cart : cartLock[c] = v =>
              /\ cartLock'[c] = v /\ cart'[c] = cart[c]
              /\ \A p \in Order : order'[p].link = c => order[p].link = c
    PROVE  Mine(v)'
<1>0. TxTyped(tx[v])
  BY DEF Typed, WorkersTyped
<1>1. HoldsRow(v)'
  BY <1>0 DEF Mine, HoldsRow, TxTyped, OnOrder
<1>2. HasFound(v)'
  <2>1. tx[v].listed \subseteq Order
    BY <1>0 DEF TxTyped, Tx
  <2> QED
    BY <1>0, <2>1 DEF Mine, HasFound, TxTyped, OnOrder, OnCart, Forward
<1>3. Keeps(v)'
  BY DEF Mine, Keeps
<1>4. HoldsCart(v)'
  BY <1>0 DEF Mine, HoldsCart, TxTyped, OnOrder, OnCart, Forward
<1> QED
  BY <1>1, <1>2, <1>3, <1>4 DEF Mine

(* A step that leaves the tables alone.                                      *)
LEMMA TablesKept ==
    ASSUME Sound, UNCHANGED <<order, cart, case>> PROVE Sound' /\ Forward
  BY DEF Sound, LinksExist, AbsentNotCancelled, CasesLinked, OneOwner, PurchaseRecovers, Forward

\* Locks of others are kept.
RowsKept(w) ==
    \A v \in Worker \ {w}, o \in Order : rowLock[o] = v => rowLock'[o] = v
CartsKept(w) ==
    \A v \in Worker \ {w}, c \in Cart : cartLock[c] = v => cartLock'[c] = v

LEMMA LocksKept ==
    ASSUME Typed, NEW w \in Worker
    PROVE  /\ ReleaseRow(w) \/ UNCHANGED rowLock => RowsKept(w)
           /\ ReleaseCart(w) \/ UNCHANGED cartLock => CartsKept(w)
           /\ \A c \in Cart : TakeCart(w, c) => CartsKept(w) /\ cartLock'[c] = w
           /\ \A o \in Order :
                 rowLock[o] = None /\ rowLock' = [rowLock EXCEPT ![o] = w] => RowsKept(w)
  BY NoneAssumption
  DEF Typed, LocksTyped, ReleaseRow, ReleaseCart, TakeCart, RowsKept, CartsKept

(* A step of w that leaves alone what others have locked.                    *)
LEMMA StepLinked ==
    ASSUME Typed, Linked, NEW w \in Worker, RowsKept(w), CartsKept(w),
           \A v \in Worker \ {w} : tx'[v] = tx[v], Mine(w)', Sound', Forward,
           \A o \in Order : rowLock[o] \in Worker \ {w} =>
              /\ order'[o].link = order[o].link
              /\ order'[o].cancelled => order[o].cancelled,
           \A c \in Cart : cartLock[c] \in Worker \ {w} =>
              /\ cart'[c] = cart[c]
              /\ \A p \in Order : order'[p].link = c => order[p].link = c
    PROVE  Linked'
<1>1. ASSUME NEW v \in Worker \ {w} PROVE Mine(v)'
  BY <1>1, OthersKeep DEF Linked, RowsKept, CartsKept
<1> QED
  BY <1>1 DEF Linked

(* A step of w that leaves the tables alone and does for w what it needs.    *)
LEMMA QuietStep ==
    ASSUME Typed, Linked, NEW w \in Worker, UNCHANGED <<order, cart, case>>,
           RowsKept(w), CartsKept(w), \A v \in Worker \ {w} : tx'[v] = tx[v], Mine(w)'
    PROVE  Linked' /\ Forward
<1>1. Sound' /\ Forward
  BY TablesKept DEF Linked
<1> QED
  BY <1>1, StepLinked

LEMMA Becomes ==
    ASSUME Typed, NEW w \in Worker, NEW t, Become(w, t)
    PROVE  tx'[w] = t /\ \A v \in Worker \ {w} : tx'[v] = tx[v]
  BY DEF Become, Typed, WorkersTyped

LEMMA IdleMine == ASSUME NEW w \in Worker, tx'[w] = Idle PROVE Mine(w)'
  BY DEF Idle, Mine, HoldsRow, HasFound, Keeps, HoldsCart

LEMMA FoundPresent ==
    ASSUME NEW ids, NEW c, Candidates(ids) = {c} PROVE c \in Cart /\ cart[c].present
<1>1. c \in Candidates(ids)
  OBVIOUS
<1> QED
  BY <1>1 DEF Candidates, Found

(* An order's row is committed with the link c, which it had, or which no    *)
(* other order has and whose lock is free.                                   *)
LEMMA CommitLinked ==
    ASSUME Typed, Linked, NEW w \in Worker, tx[w].at \in {"lookup", "claim"},
           NEW link \in Cart \cup {None}, CommitOrder(w, link),
           \/ link = tx[w].row.link
           \/ /\ tx[w].row.link \in {None, link} /\ link # None /\ cart[link].present
              /\ cartLock[link] = None /\ OtherOwners(tx[w].order, link) = {},
           \A o \in Order : case'[o].status = "RESOLVED" =>
                               \/ case[o].status = "RESOLVED"
                               \/ o = tx[w].order /\ link # None
    PROVE  Linked' /\ Forward
<1> DEFINE o == tx[w].order
           row == [tx[w].row EXCEPT !.link = link]
<1>1. /\ o \in Order /\ tx[w].row \in OrderRow
      /\ order' = [order EXCEPT ![o] = row]
  BY DEF Typed, WorkersTyped, TxTyped, OnOrder, Tx, CommitOrder
<1>2. row.link = link /\ row.cancelled = tx[w].row.cancelled /\ row.present = tx[w].row.present
  BY <1>1 DEF OrderRow
<1>3. /\ rowLock[o] = w /\ tx[w].row.link = order[o].link /\ tx[w].row.present
      /\ order[o].cancelled => tx[w].row.cancelled
  BY DEF Linked, Mine, HoldsRow
<1>4. order'[o] = row /\ \A p \in Order \ {o} : order'[p] = order[p]
  BY <1>1 DEF Typed, TablesTyped
<1> HIDE DEF row, o
<1>5. \/ link = order[o].link
      \/ /\ link # None /\ cartLock[link] = None
         /\ order[o].link \in {None, link} /\ cart[link].present
         /\ \A p \in Order \ {o} : order[p].link # link
  <2>0. tx[w].row.link = order[o].link
    BY <1>3 DEF o
  <2>1. CASE link = tx[w].row.link
    BY <2>0, <2>1
  <2>2. CASE /\ tx[w].row.link \in {None, link} /\ link # None /\ cart[link].present
             /\ cartLock[link] = None /\ OtherOwners(tx[w].order, link) = {}
    <3>1. \A p \in Order \ {o} : order[p].link # link
      BY <2>2 DEF o, OtherOwners
    <3> QED
      BY <2>0, <2>2, <3>1
  <2> QED
    BY <2>1, <2>2
<1>6. /\ \A d \in Cart : cart'[d].present = cart[d].present
      /\ \A d \in Cart : cart[d].status = "recovered" => cart'[d].status = "recovered"
      /\ \A d \in Cart \ {link} : cart'[d] = cart[d]
      /\ link # None /\ ~row.cancelled => cart'[link].status = "recovered"
  BY <1>2 DEF CommitOrder, Recovered, Typed, TablesTyped, CartRow
<1>7. link = order[o].link => \A d \in Cart : cart'[d] = cart[d]
  <2> SUFFICES ASSUME link = order[o].link, link # None, ~row.cancelled
               PROVE  cart'[link] = cart[link]
    BY <1>2, <1>6 DEF CommitOrder, Recovered
  <2>1. cart[link].status = "recovered"
    BY <1>1, <1>2, <1>3 DEF Linked, Sound, PurchaseRecovers, o
  <2>2. cart[link] \in CartRow /\ cart'[link] = [cart[link] EXCEPT !.status = "recovered"]
    BY <1>2 DEF CommitOrder, Recovered, Typed, TablesTyped
  <2> QED
    BY <2>1, <2>2 DEF CartRow
<1>8. order'[o].link = link /\ order'[o].present
      /\ (order'[o].cancelled => tx[w].row.cancelled)
      /\ (tx[w].row.cancelled => order'[o].cancelled)
  BY <1>2, <1>3, <1>4
<1>9. o \in Order
  BY <1>1
<1>10. LinksExist'
  <2>1. ASSUME NEW p \in Order, order'[p].link # None
        PROVE  order'[p].present /\ cart'[order'[p].link].present
    <3>1. CASE p = o
      <4>1. link \in Cart /\ cart[link].present
        BY <1>5, <1>8, <1>9, <2>1, <3>1 DEF Linked, Sound, LinksExist
      <4> QED
        BY <1>6, <1>8, <3>1, <4>1
    <3>2. CASE p # o
      <4>1. order'[p] = order[p] /\ order[p].link \in Cart
        BY <1>4, <2>1, <3>2 DEF Typed, TablesTyped, OrderRow
      <4> QED
        BY <1>6, <2>1, <4>1 DEF Linked, Sound, LinksExist
    <3> QED
      BY <3>1, <3>2
  <2> QED
    BY <2>1 DEF LinksExist
<1>11. AbsentNotCancelled'
  BY <1>4, <1>8 DEF Linked, Sound, AbsentNotCancelled
<1>12. \A p \in Order : order[p].link # None => order'[p].link = order[p].link
  BY <1>4, <1>5, <1>8
<1>13. CasesLinked'
  BY <1>8, <1>12 DEF Linked, Sound, CasesLinked, o
<1>14. OneOwner'
  BY <1>4, <1>5, <1>8, <1>9 DEF Linked, Sound, OneOwner
<1>15. PurchaseRecovers'
  <2>1. ASSUME NEW p \in Order, order'[p].link # None, ~order'[p].cancelled
        PROVE  cart'[order'[p].link].status = "recovered"
    <3>1. CASE p = o
      BY <1>2, <1>6, <1>8, <2>1, <3>1
    <3>2. CASE p # o
      <4>1. order'[p] = order[p] /\ order[p].link \in Cart
        BY <1>4, <2>1, <3>2 DEF Typed, TablesTyped, OrderRow
      <4> QED
        BY <1>6, <2>1, <4>1 DEF Linked, Sound, PurchaseRecovers
    <3> QED
      BY <3>1, <3>2
  <2> QED
    BY <2>1 DEF PurchaseRecovers
<1>16. Sound'
  BY <1>10, <1>11, <1>13, <1>14, <1>15 DEF Sound
<1>17. Forward
  BY <1>3, <1>4, <1>6, <1>8, <1>12 DEF Forward
<1>18. RowsKept(w) /\ CartsKept(w)
  BY LocksKept DEF CommitOrder
<1>19. Mine(w)' /\ \A v \in Worker \ {w} : tx'[v] = tx[v]
  BY Becomes, IdleMine DEF CommitOrder
<1>20. \A p \in Order : rowLock[p] \in Worker \ {w} => order'[p] = order[p]
  BY <1>3, <1>4
<1>21. ASSUME NEW c \in Cart, cartLock[c] \in Worker \ {w}
       PROVE  /\ cart'[c] = cart[c]
              /\ \A p \in Order : order'[p].link = c => order[p].link = c
  BY <1>4, <1>5, <1>6, <1>7, <1>8, <1>21, NoneAssumption
<1> QED
  BY <1>16, <1>17, <1>18, <1>19, <1>20, <1>21, StepLinked

LEMMA NeverResolves ==
    ASSUME case \in [Order -> CaseRow], NEW o \in Order, NEW reason, NEW preserve,
           Unresolved(o, reason, preserve)
    PROVE  \A p \in Order : case'[p].status = "RESOLVED" => case[p].status = "RESOLVED"
<1>1. PICK s \in {"UNRESOLVED", case[o].status} :
          case' = [case EXCEPT ![o] = [status |-> s, reason |-> reason]]
  BY DEF Unresolved
<1> QED
  BY <1>1

LEMMA StepSound ==
    ASSUME Typed, Typed', Linked, Next PROVE Linked' /\ Forward
<1>1. ASSUME NEW o \in Order, CancelOrder(o) PROVE Linked' /\ Forward
  <2>1. /\ \A p \in Order : /\ order'[p].link = order[p].link
                            /\ order'[p].present = order[p].present
        /\ \A p \in Order \ {o} : order'[p] = order[p]
        /\ order'[o].cancelled = order[o].present
    BY <1>1 DEF CancelOrder, Typed, TablesTyped, OrderRow
  <2>2. UNCHANGED <<cart, case, rowLock, cartLock, tx>>
    BY <1>1 DEF CancelOrder
  <2>3. \A p \in Order : order[p].cancelled => order'[p].cancelled
    BY <2>1 DEF Linked, Sound, AbsentNotCancelled
  <2>4. Forward
    BY <2>1, <2>2, <2>3 DEF Forward
  <2>5. Sound'
    BY <2>1, <2>2, <2>3
    DEF Linked, Sound, LinksExist, AbsentNotCancelled, CasesLinked, OneOwner, PurchaseRecovers
  <2>6. ASSUME NEW v \in Worker PROVE Mine(v)'
    <3>1. \A p \in Order : rowLock[p] = v => (order'[p].cancelled => order[p].cancelled)
      BY <1>1, <2>1, NoneAssumption DEF CancelOrder
    <3> QED
      BY <2>1, <2>2, <2>4, <3>1, OthersKeep DEF Linked
  <2> QED
    BY <2>4, <2>5, <2>6 DEF Linked
<1>2. ASSUME NEW w \in Worker, NEW o \in Order, NEW payload \in Evidence,
             IngestOrder(w, o, payload)
      PROVE  Linked' /\ Forward
  <2> DEFINE t == tx'[w]
  <2>1. /\ t.at = "lookup" /\ t.order = o /\ t.listed = {}
        /\ t.row.present /\ t.row.link = order[o].link
        /\ (order[o].cancelled => t.row.cancelled)
        /\ \A v \in Worker \ {w} : tx'[v] = tx[v]
    BY <1>2 DEF IngestOrder, Become, Idle, Typed, WorkersTyped
  <2>2. rowLock'[o] = w /\ RowsKept(w) /\ CartsKept(w)
    BY <1>2, LocksKept DEF IngestOrder, Typed, LocksTyped
  <2>3. UNCHANGED <<order, cart, case>>
    BY <1>2 DEF IngestOrder, tables
  <2>4. Mine(w)'
    BY <2>1, <2>2, <2>3 DEF Mine, HoldsRow, HasFound, Keeps, HoldsCart
  <2> QED
    BY <2>1, <2>2, <2>3, <2>4, QuietStep
<1>3. ASSUME NEW c \in Cart, NEW w \in Worker, NEW saw \in Observation, ReadCart(w, c, saw)
      PROVE  Linked' /\ Forward
  <2> DEFINE t == tx'[w]
  <2>1. /\ t.at = "checkout" /\ t.cart = c /\ t.was = cart[c] /\ t.listed = {}
        /\ \A v \in Worker \ {w} : tx'[v] = tx[v]
    BY <1>3 DEF ReadCart, Become, Idle, Typed, WorkersTyped
  <2>2. cartLock'[c] = w /\ RowsKept(w) /\ CartsKept(w)
    BY <1>3, LocksKept DEF ReadCart
  <2>3. UNCHANGED <<order, cart, case>>
    BY <1>3 DEF ReadCart, tables
  <2>4. Mine(w)'
    BY <2>1, <2>2, <2>3 DEF Mine, HoldsRow, HasFound, Keeps, HoldsCart
  <2> QED
    BY <2>1, <2>2, <2>3, <2>4, QuietStep
<1>4. ASSUME NEW w \in Worker, CloseUnmatched(w) PROVE Linked' /\ Forward
  <2>1. tx[w].order \in Order /\ tx[w].row.link \in Cart \cup {None}
    BY <1>4 DEF CloseUnmatched, Typed, WorkersTyped, TxTyped, Tx, OnOrder, OrderRow
  <2>2. \A o \in Order : case'[o].status = "RESOLVED" => case[o].status = "RESOLVED"
    <3>1. \/ UNCHANGED case
          \/ \E reason \in Reason, preserve \in BOOLEAN :
                Unresolved(tx[w].order, reason, preserve)
      BY <1>4 DEF CloseUnmatched, Conflict, Reason
    <3> QED
      BY <2>1, <3>1, NeverResolves DEF Typed, TablesTyped
  <2> QED
    BY <1>4, <2>1, <2>2, CommitLinked DEF CloseUnmatched
<1>5. ASSUME NEW w \in Worker, FindCheckout(w) PROVE Linked' /\ Forward
  <2>1. PICK c : /\ Candidates(tx[w].payload) = {c} /\ tx[w].row.link \in {None, c}
                 /\ Become(w, [tx[w] EXCEPT !.at = "claim", !.cart = c, !.payload = Nothing])
    BY <1>5 DEF FindCheckout
  <2>2. c \in Cart /\ cart[c].present
    BY <2>1, FoundPresent
  <2> DEFINE t == tx'[w]
  <2>3. /\ t.at = "claim" /\ t.cart = c /\ t.order = tx[w].order /\ t.row = tx[w].row
        /\ t.listed = tx[w].listed
        /\ \A v \in Worker \ {w} : tx'[v] = tx[v]
    BY <2>1 DEF Become, Typed, WorkersTyped, Tx
  <2>4. UNCHANGED <<order, cart, case, rowLock, cartLock>>
    BY <1>5 DEF FindCheckout, tables
  <2>5. tx[w].at = "lookup" /\ HoldsRow(w) /\ HasFound(w)
    BY <1>5 DEF FindCheckout, Linked, Mine
  <2>6. Mine(w)'
    BY <2>1, <2>2, <2>3, <2>4, <2>5 DEF Mine, HoldsRow, HasFound, Keeps, HoldsCart
  <2> QED
    BY <2>3, <2>4, <2>6, LocksKept, QuietStep
<1>6. ASSUME NEW w \in Worker, ClaimCheckout(w) PROVE Linked' /\ Forward
  <2>1. /\ tx[w].at = "claim" /\ tx[w].order \in Order /\ tx[w].cart \in Cart
        /\ tx[w].row.link \in Cart \cup {None}
    BY <1>6 DEF ClaimCheckout, Typed, WorkersTyped, TxTyped, Tx, OnOrder, OnCart, OrderRow
  <2>2. cart[tx[w].cart].present /\ tx[w].row.link \in {None, tx[w].cart}
    BY <2>1 DEF Linked, Mine, HasFound, Keeps
  <2>3. CASE Conflict(tx[w].order) /\ CommitOrder(w, tx[w].row.link)
    <3>1. \A o \in Order : case'[o].status = "RESOLVED" => case[o].status = "RESOLVED"
      BY <2>1, <2>3, NeverResolves DEF Conflict, Typed, TablesTyped
    <3> QED
      BY <2>1, <2>3, <3>1, CommitLinked
  <2>4. CASE /\ OtherOwners(tx[w].order, tx[w].cart) = {} /\ cartLock[tx[w].cart] = None
             /\ Resolved(tx[w].order) /\ CommitOrder(w, tx[w].cart)
    <3>1. \A o \in Order : case'[o].status = "RESOLVED" =>
                              case[o].status = "RESOLVED" \/ o = tx[w].order
      BY <2>1, <2>4 DEF Resolved, Typed, TablesTyped
    <3> QED
      BY <2>1, <2>2, <2>4, <3>1, CommitLinked, NoneAssumption
  <2> QED
    BY <1>6, <2>3, <2>4 DEF ClaimCheckout
<1>7. ASSUME NEW w \in Worker, WriteCart(w) PROVE Linked' /\ Forward
  <2> DEFINE c == tx[w].cart
  <2>1. c \in Cart /\ cartLock[c] = w /\ tx[w].was = cart[c]
    BY <1>7 DEF WriteCart, Typed, WorkersTyped, TxTyped, OnCart, Linked, Mine, HoldsCart
  <2>2. /\ \A d \in Cart \ {c} : cart'[d] = cart[d]
        /\ cart[c].present => cart'[c].present
        /\ cart[c].present /\ cart[c].status = "recovered" => cart'[c].status = "recovered"
    BY <1>7, <2>1 DEF WriteCart, NextStatus, Typed, TablesTyped
  <2>3. UNCHANGED <<order, case, rowLock>>
    BY <1>7 DEF WriteCart
  <2>4. Forward
    BY <2>2, <2>3 DEF Forward
  <2>5. ASSUME NEW o \in Order, order[o].link # None
        PROVE  /\ order[o].link \in Cart /\ cart'[order[o].link].present
               /\ ~order[o].cancelled => cart'[order[o].link].status = "recovered"
    <3>1. order[o].link \in Cart /\ cart[order[o].link].present
      BY <2>5 DEF Linked, Sound, LinksExist, Typed, TablesTyped, OrderRow
    <3>2. ~order[o].cancelled => cart[order[o].link].status = "recovered"
      BY <2>5 DEF Linked, Sound, PurchaseRecovers
    <3> QED
      BY <2>2, <3>1, <3>2
  <2>6. Sound'
    BY <2>3, <2>5
    DEF Linked, Sound, LinksExist, AbsentNotCancelled, CasesLinked, OneOwner, PurchaseRecovers
  <2>7. CartsKept(w) /\ RowsKept(w)
    BY <1>7, <2>3, LocksKept DEF WriteCart
  <2>8. /\ tx'[w].at = "list" /\ tx'[w].listed = {}
        /\ \A v \in Worker \ {w} : tx'[v] = tx[v]
    BY <1>7 DEF WriteCart, Become, Idle, Typed, WorkersTyped
  <2>9. Mine(w)'
    BY <2>8 DEF Mine, HoldsRow, HasFound, Keeps, HoldsCart
  <2> QED
    BY <2>1, <2>2, <2>3, <2>4, <2>6, <2>7, <2>8, <2>9, StepLinked
<1>8. ASSUME NEW w \in Worker, ListPending(w) PROVE Linked' /\ Forward
  <2>1. /\ tx'[w].at = "pending" /\ \A o \in tx'[w].listed : o \in Order /\ order[o].present
        /\ \A v \in Worker \ {w} : tx'[v] = tx[v]
    BY <1>8 DEF ListPending, Become, Typed, WorkersTyped, Tx
  <2>2. UNCHANGED <<order, cart, case, rowLock, cartLock>>
    BY <1>8 DEF ListPending, tables
  <2>3. Mine(w)'
    BY <2>1, <2>2 DEF Mine, HoldsRow, HasFound, Keeps, HoldsCart
  <2> QED
    BY <2>1, <2>2, <2>3, LocksKept, QuietStep
<1>9. ASSUME NEW w \in Worker, NEW o \in Order, Judge(w, o) PROVE Linked' /\ Forward
  <2> DEFINE c == tx[w].cart
  <2>1. /\ c \in Cart /\ tx[w].at = "pending" /\ o \in tx[w].listed
        /\ TakeCart(w, c) /\ UNCHANGED <<order, cart, case, rowLock>>
    BY <1>9 DEF Judge, tables, Typed, WorkersTyped, TxTyped, OnCart
  <2>2. cartLock'[c] = w /\ CartsKept(w) /\ RowsKept(w)
    BY <2>1, LocksKept
  <2>3. HasFound(w) /\ order[o].present
    BY <2>1 DEF Linked, Mine, HasFound
  <2>4. \A v \in Worker \ {w} : tx'[v] = tx[v]
    BY <1>9, Judgement DEF Become, Typed, WorkersTyped
  <2>5. CASE \E reason \in Reason :
                Become(w, [tx[w] EXCEPT !.at = "note", !.order = o, !.reason = reason])
    <3>1. tx'[w].at = "note" /\ tx'[w].cart = c /\ tx'[w].listed = tx[w].listed
      BY <2>5 DEF Become, Typed, WorkersTyped, Tx
    <3>2. Mine(w)'
      BY <2>1, <2>2, <2>3, <3>1 DEF Mine, HoldsRow, HasFound, Keeps, HoldsCart
    <3> QED
      BY <2>1, <2>2, <2>4, <3>2, QuietStep
  <2>6. CASE /\ Candidates(order[o].ids) = {c} /\ OtherOwners(o, c) = {}
             /\ Become(w, [tx[w] EXCEPT !.at = "seize", !.order = o, !.row = order[o]])
    <3>1. /\ tx'[w].at = "seize" /\ tx'[w].cart = c /\ tx'[w].listed = tx[w].listed
          /\ tx'[w].order = o /\ tx'[w].row = order[o]
      BY <2>6 DEF Become, Typed, WorkersTyped, Tx
    <3>2. cart[c].present
      BY <2>6, FoundPresent
    <3>3. \A p \in Order \ {o} : order[p].link # c
      BY <2>6 DEF OtherOwners
    <3>4. Mine(w)'
      BY <2>1, <2>2, <2>3, <3>1, <3>2, <3>3 DEF Mine, HoldsRow, HasFound, Keeps, HoldsCart
    <3> QED
      BY <2>1, <2>2, <2>4, <3>4, QuietStep
  <2> QED
    BY <1>9, <2>5, <2>6, Judgement
<1>10. ASSUME NEW w \in Worker, NEW o \in Order, PassOver(w, o) PROVE Linked' /\ Forward
  <2>1. /\ tx'[w].at = "pending" /\ tx'[w].listed \subseteq tx[w].listed
        /\ \A v \in Worker \ {w} : tx'[v] = tx[v]
    BY <1>10 DEF PassOver, Become, Typed, WorkersTyped, Tx
  <2>2. UNCHANGED <<order, cart, case, rowLock, cartLock>>
    BY <1>10 DEF PassOver, tables
  <2>3. HasFound(w)
    BY DEF Linked, Mine
  <2>4. Mine(w)'
    BY <2>1, <2>2, <2>3 DEF Mine, HoldsRow, HasFound, Keeps, HoldsCart
  <2> QED
    BY <2>1, <2>2, <2>4, LocksKept, QuietStep
<1>11. ASSUME NEW w \in Worker, tx[w].at \in {"note", "seize"}, Continue(w), UNCHANGED rowLock,
              Forward
       PROVE  /\ Mine(w)' /\ RowsKept(w) /\ CartsKept(w)
              /\ \A v \in Worker \ {w} : tx'[v] = tx[v]
  <2>1. /\ tx'[w].at = "pending" /\ tx'[w].listed \subseteq tx[w].listed
        /\ tx[w].listed \subseteq Order
        /\ \A v \in Worker \ {w} : tx'[v] = tx[v]
    BY <1>11 DEF Continue, Become, Typed, WorkersTyped, Tx
  <2>2. HasFound(w)
    BY DEF Linked, Mine
  <2>3. Mine(w)'
    BY <1>11, <2>1, <2>2 DEF Mine, HoldsRow, HasFound, Keeps, HoldsCart, Forward
  <2> QED
    BY <1>11, <2>1, <2>3, LocksKept DEF Continue
<1>12. ASSUME NEW w \in Worker, NoteCase(w) PROVE Linked' /\ Forward
  <2>1. UNCHANGED <<order, cart, rowLock>> /\ tx[w].at = "note" /\ Continue(w)
    BY <1>12 DEF NoteCase
  <2>2. \A o \in Order : case'[o].status = "RESOLVED" => case[o].status = "RESOLVED"
    <3>1. tx[w].order \in Order
      BY <2>1 DEF Typed, WorkersTyped, TxTyped, OnOrder
    <3> QED
      BY <1>12, <3>1, NeverResolves DEF NoteCase, Typed, TablesTyped
  <2>3. Forward
    BY <2>1 DEF Forward
  <2>4. Sound'
    BY <2>1, <2>2
    DEF Linked, Sound, LinksExist, AbsentNotCancelled, CasesLinked, OneOwner, PurchaseRecovers
  <2> QED
    BY <1>11, <2>1, <2>3, <2>4, StepLinked
<1>13. ASSUME NEW w \in Worker, SeizeOrder(w) PROVE Linked' /\ Forward
  <2> DEFINE o == tx[w].order
             c == tx[w].cart
  <2>1. /\ tx[w].at = "seize" /\ o \in Order /\ c \in Cart
        /\ rowLock[o] = None /\ UNCHANGED rowLock /\ Continue(w)
    BY <1>13 DEF SeizeOrder, Typed, WorkersTyped, TxTyped, OnOrder, OnCart
  <2>2. /\ cartLock[c] = w /\ cart[c].present /\ order[o].present
        /\ \A p \in Order \ {o} : order[p].link # c
        /\ tx[w].row.cancelled => order[o].cancelled
    BY <2>1 DEF Linked, Mine, HasFound, HoldsCart
  <2>3. CASE UNCHANGED <<order, case, cart>>
    <3>1. Sound' /\ Forward
      BY <2>3, TablesKept DEF Linked
    <3> QED
      BY <1>11, <2>1, <2>3, <3>1, StepLinked
  <2>4. CASE /\ order[o].link = None
             /\ order' = [order EXCEPT ![o].link = c]
             /\ Resolved(o) /\ Recovered(c, tx[w].row.cancelled)
    <3>1. /\ order'[o].link = c /\ order'[o].present = order[o].present
          /\ order'[o].cancelled = order[o].cancelled
          /\ \A p \in Order \ {o} : order'[p] = order[p]
      BY <2>1, <2>4 DEF Typed, TablesTyped, OrderRow
    <3>2. /\ \A d \in Cart : cart'[d].present = cart[d].present
          /\ \A d \in Cart : cart[d].status = "recovered" => cart'[d].status = "recovered"
          /\ \A d \in Cart \ {c} : cart'[d] = cart[d]
      BY <2>1, <2>4 DEF Recovered, Typed, TablesTyped, CartRow
    <3>3. ~tx[w].row.cancelled => cart'[c].status = "recovered"
      BY <2>1, <2>4, NoneAssumption DEF Recovered, Typed, TablesTyped, CartRow
    <3>4. Forward
      BY <2>4, <3>1, <3>2 DEF Forward
    <3>5. \A p \in Order : case'[p].status = "RESOLVED" =>
                              case[p].status = "RESOLVED" \/ p = o
      BY <2>1, <2>4 DEF Resolved, Typed, TablesTyped
    <3>6. ASSUME NEW p \in Order \ {o}, order[p].link # None
          PROVE  order[p].link \in Cart /\ order[p].present /\ cart[order[p].link].present
      BY <3>6 DEF Linked, Sound, LinksExist, Typed, TablesTyped, OrderRow
    <3>7. LinksExist'
      BY <2>1, <2>2, <3>1, <3>2, <3>6 DEF LinksExist
    <3>8. AbsentNotCancelled'
      BY <3>1 DEF Linked, Sound, AbsentNotCancelled
    <3>9. CasesLinked'
      BY <2>1, <3>1, <3>5, NoneAssumption DEF Linked, Sound, CasesLinked
    <3>10. OneOwner'
      BY <2>2, <3>1 DEF Linked, Sound, OneOwner
    <3>11. PurchaseRecovers'
      BY <2>2, <3>1, <3>2, <3>3, <3>6 DEF Linked, Sound, PurchaseRecovers
    <3>12. Sound'
      BY <3>7, <3>8, <3>9, <3>10, <3>11 DEF Sound
    <3>13. \A p \in Order : rowLock[p] \in Worker \ {w} => order'[p] = order[p]
      BY <2>1, <3>1, NoneAssumption
    <3>14. \A d \in Cart : cartLock[d] \in Worker \ {w} =>
              /\ cart'[d] = cart[d]
              /\ \A p \in Order : order'[p].link = d => order[p].link = d
      BY <2>2, <3>1, <3>2
    <3> QED
      BY <1>11, <2>1, <3>4, <3>12, <3>13, <3>14, StepLinked
  <2> QED
    BY <1>13, <2>3, <2>4 DEF SeizeOrder, Unclaimed
<1>14. ASSUME NEW w \in Worker, FinishCart(w) \/ BreakDeadlock(w) \/ Fails(w)
       PROVE  Linked' /\ Forward
  <2>1. /\ Become(w, Idle) /\ UNCHANGED <<order, cart, case>>
        /\ ReleaseRow(w) \/ UNCHANGED rowLock
        /\ ReleaseCart(w) \/ UNCHANGED cartLock
    BY <1>14 DEF FinishCart, BreakDeadlock, Fails, Rollback, tables
  <2>2. Mine(w)' /\ \A v \in Worker \ {w} : tx'[v] = tx[v]
    BY <2>1, Becomes, IdleMine
  <2> QED
    BY <2>1, <2>2, LocksKept, QuietStep
<1>16. ASSUME NEW o \in Order, Deliver(o) \/ Resync(o)
       PROVE  \E w \in Worker, payload \in Evidence : IngestOrder(w, o, payload)
  BY <1>16, PayloadsAssumption, SyncedAssumption DEF Deliver, Resync
<1> QED
  BY <1>1, <1>2, <1>3, <1>4, <1>5, <1>6, <1>7, <1>8, <1>9, <1>10, <1>12, <1>13, <1>14, <1>16
  DEF Next, Visit, Proceed

LEMMA StepLinks == Typed /\ Linked /\ [Next]_vars => Linked' /\ Forward
<1>1. CASE Next
  BY <1>1, StepTyped, StepSound
<1>2. CASE UNCHANGED vars
  BY <1>2
  DEF vars, Linked, Sound, LinksExist, AbsentNotCancelled, CasesLinked, OneOwner,
      PurchaseRecovers, Mine, HoldsRow, HasFound, Keeps, HoldsCart, Forward
<1> QED
  BY <1>1, <1>2

LEMMA InitLinked == Init => Linked
<1> SUFFICES ASSUME Init PROVE Linked
  OBVIOUS
<1>1. Sound
  BY DEF Init, Sound, LinksExist, AbsentNotCancelled, CasesLinked, OneOwner, PurchaseRecovers,
     NoOrder
<1>2. \A v \in Worker : Mine(v)
  BY DEF Init, Idle, Mine, HoldsRow, HasFound, Keeps, HoldsCart
<1> QED
  BY <1>1, <1>2 DEF Linked

LEMMA AlwaysLinked == Spec => [](Typed /\ Linked)
<1>1. Typed /\ Linked /\ [Next]_vars => (Typed /\ Linked)'
  BY StepTyped, StepLinks
<1> QED
  BY <1>1, InitTyped, InitLinked, PTL DEF Spec

(* No checkout belongs to two orders, although no constraint of the schema   *)
(* says so: the claim under the checkout's lock is enough.                   *)
THEOREM CheckoutsHaveOneOwner == Spec => []OneOwner
<1>1. Linked => OneOwner
  BY DEF Linked, Sound
<1> QED
  BY <1>1, AlwaysLinked, PTL

(* A standing purchase has its checkout marked recovered, whatever else      *)
(* updates the checkout.                                                     *)
THEOREM PurchasesRecover == Spec => []PurchaseRecovers
<1>1. Linked => PurchaseRecovers
  BY DEF Linked, Sound
<1> QED
  BY <1>1, AlwaysLinked, PTL

(* A linked order keeps its checkout.                                        *)
THEOREM LinksStay == Spec => LinkIsFinal
<1> DEFINE Stays == \A o \in Order : order[o].link # None => order'[o].link = order[o].link
<1>1. Typed /\ Linked /\ [Next]_vars => [Stays]_vars
  BY StepLinks DEF Forward
<1> QED
  BY <1>1, AlwaysLinked, PTL DEF Spec, LinkIsFinal

----------------------------------------------------------------------------
(* Cases.                                                                    *)

Reopened(o) == case[o].status = "RESOLVED" /\ case'[o].status = "UNRESOLVED"
ByConflict == \A o \in Order : Reopened(o) => case'[o].reason = "CONFLICTING_IDENTIFIERS"

LEMMA UnresolvedReopens ==
    ASSUME case \in [Order -> CaseRow], NEW o \in Order, NEW reason, NEW preserve \in BOOLEAN,
           preserve => reason = "CONFLICTING_IDENTIFIERS", Unresolved(o, reason, preserve)
    PROVE  ByConflict
<1>1. CASE preserve
  BY <1>1 DEF Unresolved, ByConflict, Reopened
<1>2. CASE ~preserve
  <2>1. case[o].status = "RESOLVED" => case'[o].status = "RESOLVED"
    BY <1>2 DEF Unresolved
  <2>2. \A p \in Order \ {o} : case'[p] = case[p]
    BY DEF Unresolved
  <2> QED
    BY <2>1, <2>2 DEF ByConflict, Reopened
<1> QED
  BY <1>1, <1>2

LEMMA ResolvedReopensNothing ==
    ASSUME case \in [Order -> CaseRow], NEW o \in Order, Resolved(o)
    PROVE  ByConflict
<1>1. case'[o] = case[o] \/ case'[o] = [case[o] EXCEPT !.status = "RESOLVED"]
  BY DEF Resolved
<1>2. \A p \in Order \ {o} : case'[p] = case[p]
  BY DEF Resolved
<1>3. case[o] \in CaseRow
  OBVIOUS
<1> QED
  BY <1>1, <1>2, <1>3 DEF ByConflict, Reopened, CaseRow

LEMMA StepReopens == Typed /\ [Next]_vars => ByConflict
<1> SUFFICES ASSUME Typed, [Next]_vars PROVE ByConflict
  OBVIOUS
<1>0. case \in [Order -> CaseRow]
  BY DEF Typed, TablesTyped
<1>1. CASE UNCHANGED case
  BY <1>1 DEF ByConflict, Reopened
<1>2. ASSUME NEW w \in Worker, CloseUnmatched(w) PROVE ByConflict
  <2>1. tx[w].order \in Order
    BY <1>2 DEF CloseUnmatched, Typed, WorkersTyped, TxTyped, OnOrder
  <2>2. \/ UNCHANGED case
        \/ Unresolved(tx[w].order, "CONFLICTING_IDENTIFIERS", TRUE)
        \/ \E reason \in Reason : Unresolved(tx[w].order, reason, FALSE)
    BY <1>2 DEF CloseUnmatched, Conflict, Reason
  <2> QED
    BY <1>0, <1>1, <2>1, <2>2, UnresolvedReopens
<1>3. ASSUME NEW w \in Worker, ClaimCheckout(w) PROVE ByConflict
  <2>1. tx[w].order \in Order
    BY <1>3 DEF ClaimCheckout, Typed, WorkersTyped, TxTyped, OnOrder
  <2>2. \/ Unresolved(tx[w].order, "CONFLICTING_IDENTIFIERS", TRUE)
        \/ Resolved(tx[w].order)
    BY <1>3 DEF ClaimCheckout, Conflict
  <2> QED
    BY <1>0, <2>1, <2>2, UnresolvedReopens, ResolvedReopensNothing
<1>4. ASSUME NEW w \in Worker, NoteCase(w) PROVE ByConflict
  <2>1. tx[w].order \in Order
    BY <1>4 DEF NoteCase, Typed, WorkersTyped, TxTyped, OnOrder
  <2> DEFINE preserve == tx[w].reason = "CONFLICTING_IDENTIFIERS"
  <2>2. Unresolved(tx[w].order, tx[w].reason, preserve) /\ preserve \in BOOLEAN
    BY <1>4 DEF NoteCase
  <2> QED
    BY <1>0, <2>1, <2>2, UnresolvedReopens
<1>5. ASSUME NEW w \in Worker, SeizeOrder(w) PROVE ByConflict
  <2>1. tx[w].order \in Order
    BY <1>5 DEF SeizeOrder, Typed, WorkersTyped, TxTyped, OnOrder
  <2> QED
    BY <1>0, <1>1, <1>5, <2>1, ResolvedReopensNothing DEF SeizeOrder
<1>6. ASSUME NEW w \in Worker,
             \/ FindCheckout(w) \/ WriteCart(w) \/ ListPending(w) \/ FinishCart(w)
             \/ BreakDeadlock(w) \/ Fails(w)
             \/ \E o \in Order : Judge(w, o) \/ PassOver(w, o)
      PROVE  ByConflict
  BY <1>1, <1>6
  DEF FindCheckout, WriteCart, ListPending, FinishCart, BreakDeadlock, Fails, Rollback, Judge,
      PassOver, tables
<1>7. CASE \/ \E o \in Order : Deliver(o) \/ Resync(o) \/ CancelOrder(o)
           \/ \E c \in Cart : Visit(c)
  BY <1>1, <1>7 DEF Deliver, Resync, Visit, IngestOrder, ReadCart, CancelOrder, tables
<1> QED
  BY <1>1, <1>2, <1>3, <1>4, <1>5, <1>6, <1>7 DEF Next, Proceed, vars

(* A case is closed only with a link, and reopened only by a contradiction.  *)
THEOREM CasesStayHonest == Spec => CasesAreHonest
<1> DEFINE Honest ==
        \A o \in Order :
          /\ case'[o].status = "RESOLVED" => order'[o].link # None
          /\ case[o].status = "RESOLVED" /\ case'[o].status = "UNRESOLVED"
                => case'[o].reason = "CONFLICTING_IDENTIFIERS"
<1>1. Typed /\ Linked /\ [Next]_vars => [Honest]_vars
  <2> SUFFICES ASSUME Typed, Linked, [Next]_vars PROVE Honest
    OBVIOUS
  <2>1. Linked'
    BY StepLinks
  <2>2. ByConflict
    BY StepReopens
  <2> QED
    BY <2>1, <2>2 DEF Linked, Sound, CasesLinked, ByConflict, Reopened
<1> QED
  BY <1>1, AlwaysLinked, PTL DEF Spec, CasesAreHonest
=============================================================================
