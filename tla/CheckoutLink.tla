---------------------------- MODULE CheckoutLink ----------------------------
(***************************************************************************)
(* Orders and the checkouts they complete: the matching part of            *)
(* upsertOrder, upsertAbandonedCart, reconcileOrdersOnCheckoutArrival,     *)
(* recordOrderReconciliationCase and cancelOrder                           *)
(* (commerceWebhookService.js), for one store.                             *)
(*                                                                         *)
(* Orders and checkouts arrive in any order and may arrive again: webhooks *)
(* are repeated, and every store sync reads the orders that stand.  Each   *)
(* write is a PostgreSQL transaction at READ COMMITTED that sees what is committed    *)
(* and holds two kinds of locks to its end: the order's row, which the     *)
(* upsert writes first, and the advisory lock of a checkout.               *)
(***************************************************************************)
EXTENDS Naturals, FiniteSets

CONSTANTS Order, Cart, Worker,
          Ident,        \* values of Shopify identifiers
          cartIds,      \* what identifies each checkout
          payloads,     \* per order: the identifiers its payloads may carry
          synced,       \* and those a store sync reads: tokens, no checkout id
          MaxFaults,    \* bound on failed transactions and crashes
          None

Type == {"checkout_id", "checkout_token", "cart_token"}
Strong == {"checkout_id", "checkout_token"}
Evidence == [Type -> Ident \cup {None}]

ASSUME CartIdsAssumption == cartIds \in [Cart -> [typed : Evidence, external : Ident]]
ASSUME PayloadsAssumption == payloads \in [Order -> SUBSET Evidence]
ASSUME SyncedAssumption ==
    synced \in [Order -> Evidence] /\ \A o \in Order : synced[o]["checkout_id"] = None
ASSUME FaultsAssumption == MaxFaults \in Nat
ASSUME NoneAssumption == None \notin Cart \cup Order \cup Worker \cup Ident

VARIABLES order,        \* orders: evidence, abandoned_cart_id, cancellation
          tombstones,   \* order_cancellation_tombstones
          cart,         \* abandoned_carts: existence and lifecycle
          case,         \* order_checkout_reconciliation_cases, one per order
          rowLock,      \* the transaction that has written an order's row
          cartLock,     \* the transaction that holds a checkout's advisory lock
          tx,           \* per worker: where its transaction stands and what it has read
          faults

vars == <<order, tombstones, cart, case, rowLock, cartLock, tx, faults>>
tables == <<order, tombstones, cart, case>>

OrderRow == [present : BOOLEAN, ids : Evidence, link : Cart \cup {None}, cancelled : BOOLEAN]
CartRow == [present : BOOLEAN, status : {"pending", "abandoned", "recovered"}]
Reason == {"CHECKOUT_NOT_FOUND", "MISSING_AUTHORITATIVE_IDENTIFIER", "AMBIGUOUS_CANDIDATES",
           "CONFLICTING_IDENTIFIERS"}
CaseRow == [status : {"none", "UNRESOLVED", "RESOLVED"}, reason : Reason \cup {None}]
Observation == {"active", "abandoned", "completed", "stale"}
Step == {"idle", "lookup", "claim", "checkout", "list", "pending", "seize", "note"}
Tx == [at : Step, order : Order \cup {None}, cart : Cart \cup {None}, payload : Evidence,
       row : OrderRow, conflict : BOOLEAN, saw : Observation, was : CartRow,
       listed : SUBSET Order, reason : Reason \cup {None}]

Nothing == [t \in Type |-> None]
NoOrder == [present |-> FALSE, ids |-> Nothing, link |-> None, cancelled |-> FALSE]
NoCart == [present |-> FALSE, status |-> "pending"]
Idle == [at |-> "idle", order |-> None, cart |-> None, payload |-> Nothing, row |-> NoOrder,
         conflict |-> FALSE, saw |-> "active", was |-> NoCart, listed |-> {}, reason |-> None]

TypeOK ==
    /\ order \in [Order -> OrderRow]
    /\ tombstones \subseteq Order
    /\ cart \in [Cart -> CartRow]
    /\ case \in [Order -> CaseRow]
    /\ rowLock \in [Order -> Worker \cup {None}]
    /\ cartLock \in [Cart -> Worker \cup {None}]
    /\ tx \in [Worker -> Tx]
    /\ faults \in 0..MaxFaults

Init ==
    /\ order = [o \in Order |-> NoOrder]
    /\ tombstones = {}
    /\ cart = [c \in Cart |-> NoCart]
    /\ case = [o \in Order |-> [status |-> "none", reason |-> None]]
    /\ rowLock = [o \in Order |-> None]
    /\ cartLock = [c \in Cart |-> None]
    /\ tx = [w \in Worker |-> Idle]
    /\ faults = 0

----------------------------------------------------------------------------
(* Matching.  A checkout from before the typed columns is known by its      *)
(* external id only.                                                        *)

Legacy(c) == cartIds[c].typed = Nothing
\* Faulty variant: only the id a checkout was first stored under counts.
Found_ByExternal(t, ids) ==
    IF ids[t] = None THEN {}
    ELSE {c \in Cart : cart[c].present /\ cartIds[c].external = ids[t]}
Found(t, ids) ==
    IF ids[t] = None THEN {}
    ELSE {c \in Cart : /\ cart[c].present
                       /\ \/ cartIds[c].typed[t] = ids[t]
                          \/ Legacy(c) /\ cartIds[c].external = ids[t]}

Given(types, ids) == {t \in types : ids[t] # None}
\* A cart token counts only where there is nothing stronger.
Evaluated(ids) == IF Given(Strong, ids) # {} THEN Given(Strong, ids) ELSE Given(Type, ids)
Candidates(ids) == UNION {Found(t, ids) : t \in Evaluated(ids)}
Duplicate(ids) == \E t \in Evaluated(ids) : Cardinality(Found(t, ids)) > 1
\* two strong identifiers that name one checkout each, and not the same
Contradictory(ids) ==
    Cardinality(UNION {Found(t, ids) : t \in {s \in Strong : Cardinality(Found(s, ids)) = 1}}) > 1

\* mergeSourceEvidence: fill what is missing, refuse what differs
Conflicts(old, new) == \E t \in Type : old[t] # None /\ new[t] # None /\ old[t] # new[t]
Merged(old, new) == [t \in Type |-> IF old[t] = None THEN new[t] ELSE old[t]]

\* Faulty variant: the order's own compare-and-set is trusted to keep claims apart.
OtherOwners_None(o, c) == {}
OtherOwners(o, c) == {p \in Order \ {o} : order[p].link = c}

----------------------------------------------------------------------------
(* Reconciliation cases: recordOrderReconciliationCase. *)

\* Faulty variant: every observation reopens the case.
Unresolved_Reopens(o, reason, preserveConflict) ==
    case' = [case EXCEPT ![o] = [status |-> "UNRESOLVED", reason |-> reason]]
\* status of an existing case is kept unless a conflict reopens it
Unresolved(o, reason, preserveConflict) ==
    case' = [case EXCEPT ![o] =
               [status |-> IF @.status = "none" \/ preserveConflict THEN "UNRESOLVED"
                           ELSE @.status,
                reason |-> reason]]
Conflict(o) == Unresolved(o, "CONFLICTING_IDENTIFIERS", TRUE)

Resolved(o) ==
    case' = [case EXCEPT ![o] = IF @.status = "UNRESOLVED" THEN [@ EXCEPT !.status = "RESOLVED"]
                                ELSE @]

\* A purchase that stands completes its checkout.
Recovered(c, cancelled) ==
    cart' = IF c # None /\ ~cancelled THEN [cart EXCEPT ![c].status = "recovered"] ELSE cart

\* Faulty variant: updates of a checkout and claims on it lock different keys.
TakeCart_OtherKey(w, c) == UNCHANGED cartLock
TakeCart(w, c) == cartLock[c] = None /\ cartLock' = [cartLock EXCEPT ![c] = w]

ReleaseRow(w) == rowLock' = [o \in Order |-> IF rowLock[o] = w THEN None ELSE rowLock[o]]
ReleaseCart(w) == cartLock' = [c \in Cart |-> IF cartLock[c] = w THEN None ELSE cartLock[c]]

Become(w, state) == tx' = [tx EXCEPT ![w] = state]

----------------------------------------------------------------------------
(* upsertOrder *)

\* The row is written before anything is looked up; what it will hold when the
\* transaction commits is kept with the transaction.
IngestOrder(w, o, payload) ==
    LET old == order[o]
        conflict == old.present /\ Conflicts(old.ids, payload)
    IN /\ tx[w].at = "idle"
       /\ rowLock[o] = None
       /\ rowLock' = [rowLock EXCEPT ![o] = w]
       /\ Become(w, [Idle EXCEPT !.at = "lookup", !.order = o, !.payload = payload,
                                 !.conflict = conflict,
                                 !.row = [present |-> TRUE,
                                          ids |-> IF conflict THEN old.ids
                                                  ELSE Merged(old.ids, payload),
                                          link |-> old.link,
                                          cancelled |-> old.cancelled \/ o \in tombstones]])
       /\ UNCHANGED <<tables, cartLock, faults>>

CommitOrder(w, link) ==
    LET o == tx[w].order IN
    /\ order' = [order EXCEPT ![o] = [tx[w].row EXCEPT !.link = link]]
    /\ ReleaseRow(w)
    /\ Become(w, Idle)
    /\ Recovered(link, tx[w].row.cancelled)
    /\ UNCHANGED <<tombstones, cartLock, faults>>

\* No single checkout is named, or another one than the order is linked to.
CloseUnmatched(w) ==
    LET o == tx[w].order
        ids == tx[w].payload
        link == tx[w].row.link
        conflict == tx[w].conflict \/ Contradictory(ids)
        single == ~Duplicate(ids) /\ Cardinality(Candidates(ids)) = 1
        elsewhere == single /\ link # None /\ link \notin Candidates(ids)
        reason == IF Duplicate(ids) \/ Cardinality(Candidates(ids)) > 1
                  THEN "AMBIGUOUS_CANDIDATES"
                  ELSE IF Evaluated(ids) = {} THEN "MISSING_AUTHORITATIVE_IDENTIFIER"
                  ELSE "CHECKOUT_NOT_FOUND"
    IN /\ tx[w].at = "lookup"
       /\ conflict \/ ~single \/ elsewhere
       /\ IF conflict \/ elsewhere THEN Conflict(o)
          ELSE IF link = None THEN Unresolved(o, reason, FALSE)
          ELSE UNCHANGED case
       /\ CommitOrder(w, link)

FindCheckout(w) ==
    LET ids == tx[w].payload
        link == tx[w].row.link
    IN /\ tx[w].at = "lookup"
       /\ ~tx[w].conflict /\ ~Contradictory(ids) /\ ~Duplicate(ids)
       /\ \E c \in Candidates(ids) :
             /\ Candidates(ids) = {c}
             /\ link \in {None, c}
             /\ Become(w, [tx[w] EXCEPT !.at = "claim", !.cart = c, !.payload = Nothing])
       /\ UNCHANGED <<tables, rowLock, cartLock, faults>>

\* With the checkout's lock, which nobody can need before the commit.
ClaimCheckout(w) ==
    LET o == tx[w].order
        c == tx[w].cart
    IN /\ tx[w].at = "claim"
       /\ cartLock[c] = None
       /\ IF OtherOwners(o, c) # {}
          THEN Conflict(o) /\ CommitOrder(w, tx[w].row.link)
          ELSE Resolved(o) /\ CommitOrder(w, c)

\* cancelOrder: the tombstone, and the row if it is committed
CancelOrder(o) ==
    /\ order[o].present => rowLock[o] = None /\ ~order[o].cancelled
    /\ ~order[o].present => o \notin tombstones
    /\ tombstones' = tombstones \cup {o}
    /\ order' = [order EXCEPT ![o].cancelled = order[o].present]
    /\ UNCHANGED <<cart, case, rowLock, cartLock, tx, faults>>

----------------------------------------------------------------------------
(* upsertAbandonedCart *)

\* nextCheckoutStatus: a completed checkout stays so
NextStatus(was, saw) ==
    IF saw = "completed" \/ (was.present /\ was.status = "recovered") THEN "recovered"
    ELSE IF saw = "abandoned" THEN "abandoned"
    ELSE "pending"

\* The locks are held before the row is read.
ReadCart(w, c, saw) ==
    /\ tx[w].at = "idle"
    /\ saw = "stale" => cart[c].present
    /\ TakeCart(w, c)
    /\ Become(w, [Idle EXCEPT !.at = "checkout", !.cart = c, !.saw = saw, !.was = cart[c]])
    /\ UNCHANGED <<tables, rowLock, faults>>

\* An observation older than the row changes nothing; reconciliation follows.
WriteCart(w) ==
    LET c == tx[w].cart IN
    /\ tx[w].at = "checkout"
    /\ cart' = IF tx[w].saw = "stale" THEN cart
               ELSE [cart EXCEPT ![c] = [present |-> TRUE,
                                         status |-> NextStatus(tx[w].was, tx[w].saw)]]
    /\ ReleaseCart(w)
    /\ Become(w, [Idle EXCEPT !.at = "list", !.cart = c])
    /\ UNCHANGED <<order, tombstones, case, rowLock, faults>>

----------------------------------------------------------------------------
(* reconcileOrdersOnCheckoutArrival: a list outside any transaction, then a *)
(* transaction for each order on it.                                        *)

ListPending(w) ==
    LET mine == cartIds[tx[w].cart].typed IN
    /\ tx[w].at = "list"
    /\ Become(w, [tx[w] EXCEPT !.at = "pending",
                 !.listed = {o \in Order :
                               /\ order[o].present /\ order[o].link = None
                               /\ \E t \in Type : mine[t] # None /\ order[o].ids[t] = mine[t]}])
    /\ UNCHANGED <<tables, rowLock, cartLock, faults>>

\* Only the order's own strongest evidence decides whether it is this checkout's.
Judge(w, o) ==
    LET c == tx[w].cart
        ids == order[o].ids
        noted(reason) == Become(w, [tx[w] EXCEPT !.at = "note", !.order = o, !.reason = reason])
    IN /\ tx[w].at = "pending" /\ o \in tx[w].listed
       /\ order[o].link = None
       /\ TakeCart(w, c)
       /\ CASE Duplicate(ids) -> noted("AMBIGUOUS_CANDIDATES")
            [] \/ ~Duplicate(ids) /\ Cardinality(Candidates(ids)) > 1
               \/ Candidates(ids) = {c} /\ OtherOwners(o, c) # {}
                  -> noted("CONFLICTING_IDENTIFIERS")
            [] Candidates(ids) = {c} /\ OtherOwners(o, c) = {} ->
                  Become(w, [tx[w] EXCEPT !.at = "seize", !.order = o, !.row = order[o]])
            [] OTHER -> noted("CHECKOUT_NOT_FOUND")
       /\ UNCHANGED <<tables, rowLock, faults>>

\* linked since it was listed
PassOver(w, o) ==
    /\ tx[w].at = "pending" /\ o \in tx[w].listed
    /\ order[o].link # None
    /\ cartLock[tx[w].cart] = None
    /\ Become(w, [tx[w] EXCEPT !.listed = @ \ {o}])
    /\ UNCHANGED <<tables, rowLock, cartLock, faults>>

Continue(w) ==
    /\ ReleaseCart(w)
    /\ Become(w, [tx[w] EXCEPT !.at = "pending", !.order = None, !.row = NoOrder,
                              !.reason = None, !.listed = @ \ {tx[w].order}])

\* The order was found unlinked when the transaction began; it may be linked by
\* now, to a checkout whose lock this transaction does not hold.
NoteCase(w) ==
    /\ tx[w].at = "note"
    /\ Unresolved(tx[w].order, tx[w].reason, tx[w].reason = "CONFLICTING_IDENTIFIERS")
    /\ Continue(w)
    /\ UNCHANGED <<order, tombstones, cart, rowLock, faults>>

\* Faulty variant: the update is by id alone.
Unclaimed_Ignored(o) == TRUE
Unclaimed(o) == order[o].link = None

\* waits for the row, then looks again; the cancellation is the one read before
SeizeOrder(w) ==
    LET o == tx[w].order
        c == tx[w].cart
    IN /\ tx[w].at = "seize"
       /\ rowLock[o] = None
       /\ IF Unclaimed(o)
          THEN /\ order' = [order EXCEPT ![o].link = c]
               /\ Resolved(o)
               /\ Recovered(c, tx[w].row.cancelled)
          ELSE UNCHANGED <<order, case, cart>>
       /\ Continue(w)
       /\ UNCHANGED <<tombstones, rowLock, faults>>

FinishCart(w) ==
    /\ tx[w].at = "pending" /\ tx[w].listed = {}
    /\ Become(w, Idle)
    /\ UNCHANGED <<tables, rowLock, cartLock, faults>>

----------------------------------------------------------------------------
(* Failures. *)

Rollback(w) ==
    /\ ReleaseRow(w) /\ ReleaseCart(w)
    /\ Become(w, Idle)
    /\ UNCHANGED tables

Fails(w) ==
    /\ tx[w].at # "idle"
    /\ faults < MaxFaults /\ faults' = faults + 1
    /\ Rollback(w)

WaitsFor(w, v) ==
    \/ tx[w].at = "claim" /\ cartLock[tx[w].cart] = v
    \/ tx[w].at = "seize" /\ rowLock[tx[w].order] = v

\* PostgreSQL ends one of the transactions that wait for each other.
Deadlocked(w) ==
    \E circle \in SUBSET Worker :
        w \in circle /\ \A v \in circle : \E u \in circle : WaitsFor(v, u)

BreakDeadlock(w) ==
    /\ Deadlocked(w)
    /\ Rollback(w)
    /\ UNCHANGED faults

----------------------------------------------------------------------------

Proceed(w) ==
    \/ CloseUnmatched(w) \/ FindCheckout(w) \/ ClaimCheckout(w)
    \/ WriteCart(w) \/ ListPending(w)
    \/ \E o \in Order : Judge(w, o) \/ PassOver(w, o)
    \/ NoteCase(w) \/ SeizeOrder(w) \/ FinishCart(w)

Deliver(o) == \E w \in Worker, payload \in payloads[o] : IngestOrder(w, o, payload)

\* syncOrders: an order that has been cancelled goes to cancelOrder instead
Resync(o) ==
    /\ o \notin tombstones
    /\ \E w \in Worker : IngestOrder(w, o, synced[o])
Visit(c) == \E w \in Worker, saw \in Observation : ReadCart(w, c, saw)

Next ==
    \/ \E o \in Order : Deliver(o) \/ Resync(o) \/ CancelOrder(o)
    \/ \E c \in Cart : Visit(c)
    \/ \E w \in Worker : Proceed(w) \/ BreakDeadlock(w) \/ Fails(w)

Spec == Init /\ [][Next]_vars

\* Every store sync delivers each order that has not been cancelled again; of a
\* checkout nothing more need arrive.  PostgreSQL grants a lock in the order of
\* the requests, and looks for deadlocks.
Fairness ==
    /\ \A o \in Order : SF_vars(Resync(o))
    /\ \A w \in Worker : /\ WF_vars(Proceed(w)) /\ WF_vars(BreakDeadlock(w))
                        /\ SF_vars(ClaimCheckout(w)) /\ SF_vars(SeizeOrder(w))
                        /\ SF_vars(\E o \in Order : Judge(w, o) \/ PassOver(w, o))

FairSpec == Spec /\ Fairness

----------------------------------------------------------------------------
(* Properties. *)

\* A checkout belongs to at most one order, although two orders that name it may
\* be ingested and reconciled at once and nothing in the schema forbids it
\* (TASK-027).
OneOwner == \A o, p \in Order : order[o].link = order[p].link /\ order[o].link # None => o = p

\* The checkout of an order is decided once (TASK-024): later payloads that name
\* another, and a reconciliation that saw the order unlinked, do not move it.
LinkIsFinal ==
    [][\A o \in Order : order[o].link # None => order'[o].link = order[o].link]_vars

\* The checkout of a purchase that stands is completed, whatever update of the
\* checkout was under way when the order claimed it (TASK-029, TASK-030): it is
\* this status that keeps recovery messages from being sent to a buyer.
PurchaseRecovers ==
    \A o \in Order : order[o].link # None /\ ~order[o].cancelled
                        => cart[order[o].link].status = "recovered"

\* A case is closed only for an order that is linked, and reopened only by
\* contradictory evidence, not by a late observation that found nothing
\* (recordOrderReconciliationCase).
CasesAreHonest ==
    [][\A o \in Order :
          /\ case'[o].status = "RESOLVED" => order'[o].link # None
          /\ case[o].status = "RESOLVED" /\ case'[o].status = "UNRESOLVED"
                => case'[o].reason = "CONFLICTING_IDENTIFIERS"]_vars

\* An order all of whose payloads name one checkout and no other; what the sync
\* reads of it names it too
Matches(o, c) ==
    /\ Evaluated(synced[o]) # {}
    /\ \A ids \in payloads[o] \cup {synced[o]} :
        \A t \in Evaluated(ids) :
            /\ cartIds[c].typed[t] = ids[t]
            /\ \A d \in Cart \ {c} : cartIds[d].typed[t] # ids[t] /\ ~Legacy(d)

\* An order and its checkout that arrive at the same time miss each other: each
\* looks before the other is committed.  The next sync links them, unless another
\* order has the checkout or the order has been cancelled, although nothing of the
\* checkout need ever arrive again.
EveryMatchLinks ==
    \A o \in Order, c \in Cart :
        Matches(o, c) =>
            order[o].present /\ cart[c].present
                ~> o \in tombstones \/ \E p \in Order : order[p].link = c
=============================================================================
