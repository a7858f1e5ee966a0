-------------------------- MODULE WebhookDelivery --------------------------
(***************************************************************************)
(* The commerce webhook ledger: commerceWebhookController.receive with     *)
(* claimDelivery and markDelivery (commerceWebhookService.js) and the      *)
(* sweep of webhookDeliveryRecovery.js.                                    *)
(*                                                                         *)
(* The provider sends an event until it gets a 2xx and may send it twice   *)
(* at once; each request is served by a worker (an HTTP handler of one     *)
(* Node process) that claims the row of the event's delivery id, processes *)
(* the event and marks the row.  Every database statement is a step of its *)
(* own, since none of them runs in a transaction.                          *)
(*                                                                         *)
(* The id is the header the code reads.  x-shopify-webhook-id names one    *)
(* event; x-wc-webhook-id names the WooCommerce webhook, and so every      *)
(* event it ever sends: deliveryId need not be injective.  Events of one   *)
(* id have the same store and topic, so a row fails the identity test only *)
(* when it is gone (shop/redact deletes the rows of its store).            *)
(***************************************************************************)
EXTENDS Naturals

CONSTANTS Event,        \* the events the provider sends
          Delivery,     \* delivery ids
          deliveryId,   \* the id each event's requests carry
          Worker,       \* request handlers
          None,         \* "no event"
          MaxFaults     \* bound on errors, crashes, purges and slow claims

ASSUME FaultsAssumption == MaxFaults \in Nat
ASSUME NoneAssumption == None \notin Event
ASSUME IdAssumption == deliveryId \in [Event -> Delivery]

VARIABLES row,          \* webhook_deliveries by delivery id
          pc,           \* where each worker stands
          req,          \* the event each worker serves
          claim,        \* primary key of the row each worker claimed
          sweep,        \* candidate rows, with their keys, the sweep has read
          purges,       \* erasures so far; a row inserted after one has a new key
          acked,        \* events the provider got a 2xx for
          done,         \* history: events that were processed
          unsure,       \* history: workers whose own mark took effect unanswered
          swept,        \* history: deliveries the sweep has ever failed
          faults

vars == <<row, pc, req, claim, sweep, purges, acked, done, unsure, swept, faults>>

\* `old` is "received_at lies before the sweep's cutoff".
Row == [status : {"absent", "received", "processed", "failed"},
        id     : 0..MaxFaults,
        old    : BOOLEAN,
        error  : {"none", "abandoned", "processing_error"}]
Absent == [status |-> "absent", id |-> 0, old |-> FALSE, error |-> "none"]
Inserted == [status |-> "received", id |-> purges, old |-> FALSE, error |-> "none"]

Location == {"idle", "create", "lookup", "reclaim", "verify", "latest",
             "process", "markProcessed", "markFailed"}

TypeOK ==
    /\ row \in [Delivery -> Row]
    /\ pc \in [Worker -> Location]
    /\ req \in [Worker -> Event \cup {None}]
    /\ claim \in [Worker -> 0..MaxFaults]
    /\ sweep \subseteq Delivery \X (0..MaxFaults)
    /\ purges \in 0..MaxFaults
    /\ acked \subseteq Event /\ done \subseteq Event
    /\ unsure \subseteq Worker /\ swept \subseteq Delivery
    /\ faults \in 0..MaxFaults

Init ==
    /\ row = [d \in Delivery |-> Absent]
    /\ pc = [w \in Worker |-> "idle"]
    /\ req = [w \in Worker |-> None]
    /\ claim = [w \in Worker |-> 0]
    /\ sweep = {} /\ acked = {} /\ done = {} /\ unsure = {} /\ swept = {}
    /\ purges = 0 /\ faults = 0

\* the row a request is about
Id(w) == deliveryId[req[w]]
Serves(w, d) == req[w] # None /\ Id(w) = d

Goto(w, location) == pc' = [pc EXCEPT ![w] = location] /\ UNCHANGED <<req, unsure>>
StartWork(w, id) == Goto(w, "process") /\ claim' = [claim EXCEPT ![w] = id]
Return(w) ==
    /\ pc' = [pc EXCEPT ![w] = "idle"]
    /\ req' = [req EXCEPT ![w] = None]
    /\ claim' = [claim EXCEPT ![w] = 0]
    /\ unsure' = unsure \ {w}
Respond200(w) == Return(w) /\ acked' = acked \cup {req[w]}
RespondError(w) == Return(w) /\ UNCHANGED acked
SetRow(w, r) == row' = [row EXCEPT ![Id(w)] = r]
Processed(r) == [r EXCEPT !.status = "processed", !.error = "none"]
Retried(r) == [r EXCEPT !.status = "received", !.old = FALSE, !.error = "none"]
\* update by primary key finds the row this worker claimed
KeyFound(w) == row[Id(w)].status # "absent" /\ row[Id(w)].id = claim[w]
Fault == faults < MaxFaults /\ faults' = faults + 1

----------------------------------------------------------------------------
(* The provider. *)

Deliver(w, e) ==
    /\ pc[w] = "idle"
    /\ pc' = [pc EXCEPT ![w] = "create"]
    /\ req' = [req EXCEPT ![w] = e]
    /\ UNCHANGED <<row, claim, sweep, purges, acked, done, unsure, swept, faults>>

Redeliver(e) == e \notin acked /\ \E w \in Worker : Deliver(w, e)

----------------------------------------------------------------------------
(* claimDelivery *)

Create(w) ==
    /\ pc[w] = "create"
    /\ IF row[Id(w)].status = "absent"
       THEN SetRow(w, Inserted) /\ StartWork(w, purges)
       ELSE Goto(w, "lookup") /\ UNCHANGED <<row, claim>>   \* P2002
    /\ UNCHANGED <<sweep, purges, acked, done, swept, faults>>

\* Faulty variant: a row in flight counts as a duplicate already handled.
Lookup_AckInFlight(w) ==
    /\ pc[w] = "lookup"
    /\ CASE row[Id(w)].status = "absent"    -> RespondError(w)
         [] row[Id(w)].status \in {"processed", "received"} -> Respond200(w)
         [] row[Id(w)].status = "failed"    -> Goto(w, "reclaim") /\ UNCHANGED <<claim, acked>>
    /\ UNCHANGED <<row, sweep, purges, done, swept, faults>>


\* findUnique: identity mismatch, duplicate, retry, or still in flight
Lookup(w) ==
    /\ pc[w] = "lookup"
    /\ CASE row[Id(w)].status = "absent"    -> RespondError(w)
         [] row[Id(w)].status = "processed" -> Respond200(w)
         [] row[Id(w)].status = "failed"    -> Goto(w, "reclaim") /\ UNCHANGED <<claim, acked>>
         [] row[Id(w)].status = "received"  -> RespondError(w)
    /\ UNCHANGED <<row, sweep, purges, done, swept, faults>>

\* Faulty variant: the retry no longer requires the failed status.
Reclaim_AnyStatus(w) ==
    /\ pc[w] = "reclaim"
    /\ IF row[Id(w)].status # "absent"
       THEN SetRow(w, Retried(row[Id(w)])) /\ Goto(w, "verify")
       ELSE Goto(w, "latest") /\ UNCHANGED row
    /\ UNCHANGED <<claim, sweep, purges, acked, done, swept, faults>>

\* the conditional updateMany failed -> received
Reclaim(w) ==
    /\ pc[w] = "reclaim"
    /\ IF row[Id(w)].status = "failed"
       THEN SetRow(w, Retried(row[Id(w)])) /\ Goto(w, "verify")
       ELSE Goto(w, "latest") /\ UNCHANGED row
    /\ UNCHANGED <<claim, sweep, purges, acked, done, swept, faults>>

Verify(w) ==
    /\ pc[w] = "verify"
    /\ IF row[Id(w)].status = "received"
       THEN StartWork(w, row[Id(w)].id) /\ UNCHANGED acked
       ELSE RespondError(w)                             \* CLAIM_UNVERIFIED
    /\ UNCHANGED <<row, sweep, purges, done, swept, faults>>

Latest(w) ==
    /\ pc[w] = "latest"
    /\ IF row[Id(w)].status = "processed" THEN Respond200(w) ELSE RespondError(w)
    /\ UNCHANGED <<row, sweep, purges, done, swept, faults>>

----------------------------------------------------------------------------
(* Processing and markDelivery *)

Process(w) ==
    /\ pc[w] = "process"
    /\ done' = done \cup {req[w]}
    /\ Goto(w, "markProcessed")
    /\ UNCHANGED <<row, claim, sweep, purges, acked, swept, faults>>

\* processCommerceWebhook throws, before or after its writes
ProcessFails(w) ==
    /\ pc[w] = "process"
    /\ Fault
    /\ done' \in {done, done \cup {req[w]}}
    /\ Goto(w, "markFailed")
    /\ UNCHANGED <<row, claim, sweep, purges, acked, swept>>

\* markDelivery.  An update by primary key: it throws (P2025) when the row is gone, and it
\* never looks at the status it overwrites.
MarkProcessed(w) ==
    /\ pc[w] = "markProcessed"
    /\ IF KeyFound(w)
       THEN SetRow(w, Processed(row[Id(w)])) /\ Respond200(w)
       ELSE Goto(w, "markFailed") /\ UNCHANGED <<row, claim, acked>>
    /\ UNCHANGED <<sweep, purges, done, swept, faults>>

\* the update took effect and its answer is lost: the catch block follows
MarkUnanswered(w) ==
    /\ pc[w] = "markProcessed" /\ KeyFound(w)
    /\ Fault
    /\ SetRow(w, Processed(row[Id(w)]))
    /\ pc' = [pc EXCEPT ![w] = "markFailed"]
    /\ unsure' = unsure \cup {w}
    /\ UNCHANGED <<req, claim, sweep, purges, acked, done, swept>>

\* the catch block; an error of this update too is only logged
MarkFailed(w) ==
    /\ pc[w] = "markFailed"
    /\ IF KeyFound(w)
       THEN SetRow(w, [row[Id(w)] EXCEPT !.status = "failed", !.error = "processing_error"])
       ELSE UNCHANGED row
    /\ RespondError(w)
    /\ UNCHANGED <<sweep, purges, done, swept, faults>>

\* A database error in any of the statements above.  One that took effect all the
\* same leaves what a crash behind it leaves, but for the mark (MarkUnanswered).
StatementFails(w) ==
    /\ pc[w] \notin {"idle", "process"}
    /\ Fault
    /\ IF pc[w] = "markProcessed"
       THEN Goto(w, "markFailed") /\ UNCHANGED <<claim, acked>>
       ELSE RespondError(w)
    /\ UNCHANGED <<row, sweep, purges, done, swept>>

----------------------------------------------------------------------------
(* recoverStuckDeliveries: read the candidates, then update by id. *)

SweepRead ==
    /\ sweep = {}
    /\ sweep' = {<<d, row[d].id>> : d \in {e \in Delivery : row[e].status = "received"
                                                            /\ row[e].old}}
    /\ UNCHANGED <<row, pc, req, claim, purges, acked, done, unsure, swept, faults>>

SweptNow(Statuses) == {d \in Delivery : <<d, row[d].id>> \in sweep /\ row[d].status \in Statuses}

Fail(D) ==
    /\ sweep # {}
    /\ row' = [d \in Delivery |->
                 IF d \in D THEN [row[d] EXCEPT !.status = "failed", !.error = "abandoned"]
                 ELSE row[d]]
    /\ swept' = swept \cup {d \in D : row[d].status = "received"}
    /\ sweep' = {}
    /\ UNCHANGED <<pc, req, claim, purges, acked, done, unsure, faults>>

\* Faulty variant: the update takes the rows read whatever became of them.
SweepUpdate_AnyStatus == Fail(SweptNow({"received", "processed", "failed"}))

SweepUpdate == Fail(SweptNow({"received"}))

----------------------------------------------------------------------------
(* Time, crashes and the erasure of a store. *)

Holds(w, d) == Serves(w, d) /\ pc[w] \in {"verify", "process", "markProcessed", "markFailed"}

\* A claim nobody works on any more passes the cutoff.
Age(d) ==
    /\ row[d].status = "received" /\ ~row[d].old
    /\ \A w \in Worker : ~Holds(w, d)
    /\ row' = [row EXCEPT ![d].old = TRUE]
    /\ UNCHANGED <<pc, req, claim, sweep, purges, acked, done, unsure, swept, faults>>

\* A worker is slower than the cutoff.
AgeUnderWorker(d) ==
    /\ row[d].status = "received" /\ ~row[d].old
    /\ \E w \in Worker : Holds(w, d)
    /\ Fault
    /\ row' = [row EXCEPT ![d].old = TRUE]
    /\ UNCHANGED <<pc, req, claim, sweep, purges, acked, done, unsure, swept>>

Crash(w) ==
    /\ pc[w] # "idle"
    /\ Fault
    /\ Return(w)
    /\ UNCHANGED <<row, sweep, purges, acked, done, swept>>

\* shop/redact deletes the webhook_deliveries of its store
Purge ==
    /\ Fault
    /\ row' = [d \in Delivery |-> Absent]
    /\ purges' = purges + 1
    /\ UNCHANGED <<pc, req, claim, sweep, acked, done, unsure, swept>>

----------------------------------------------------------------------------

Serve(w) ==
    \/ Create(w) \/ Lookup(w) \/ Reclaim(w) \/ Verify(w) \/ Latest(w)
    \/ Process(w) \/ MarkProcessed(w) \/ MarkFailed(w)

Next ==
    \/ \E w \in Worker :
          \/ \E e \in Event : Deliver(w, e)
          \/ Serve(w)
          \/ ProcessFails(w) \/ MarkUnanswered(w) \/ StatementFails(w) \/ Crash(w)
    \/ SweepRead \/ SweepUpdate
    \/ \E d \in Delivery : Age(d) \/ AgeUnderWorker(d)
    \/ Purge

Spec == Init /\ [][Next]_vars

\* The provider redelivers each event until it gets a 2xx, whatever else it sends
\* meanwhile (strong: the handlers here may be busy, the service takes any number);
\* a handler that is not down runs on, the sweep's timer keeps firing, time passes.
Fairness ==
    /\ \A e \in Event : SF_vars(Redeliver(e))
    /\ \A d \in Delivery : WF_vars(Age(d))
    /\ \A w \in Worker : WF_vars(Serve(w))
    /\ WF_vars(SweepRead) /\ WF_vars(SweepUpdate)

FairSpec == Spec /\ Fairness

----------------------------------------------------------------------------
(* Properties. *)

\* A 2xx says that the event, or another one of the same id, was processed:
\* "Returning 2xx here can lose an event after a crash, so request a later retry
\* instead" (claimDelivery).  An event whose id names no other is never lost.
NoEventLost ==
    \A e \in acked : \E f \in done : deliveryId[f] = deliveryId[e]

\* Without that proviso: an event whose delivery id is that of an earlier one is
\* answered as its duplicate, "Provider delivery IDs ... are idempotent"
\* (API_CONTRACTS.md).  Refuted by two events of one WooCommerce webhook.
AckedWasProcessed == acked \subseteq done

\* One worker at a time works on a row, whatever duplicates, retries and events of
\* the same id arrive, unless the sweep gave the row away or the store was erased
\* under it (claimDelivery's insert and conditional update).
Working(w) == pc[w] \in {"process", "markProcessed", "markFailed"}
OneWorkerPerRow ==
    \A v, w \in Worker :
        Working(v) /\ Working(w) /\ Id(v) = Id(w) /\ claim[v] = claim[w]
            /\ Id(v) \notin swept /\ purges = 0
                => v = w

\* The ledger does not forget a processed event by itself: the status processed
\* is overwritten only after a sweep or an erasure took the row from its worker, or
\* by the worker that wrote it and never got the answer, whose catch block marks
\* the delivery failed (receive, markDelivery, recoverStuckDeliveries).
ProcessedIsFinal ==
    [][\A d \in Delivery \ swept :
          row[d].status = "processed" /\ purges' = 0
             => \/ row'[d].status = "processed"
                \/ \E w \in unsure : Holds(w, d) /\ ~Holds(w, d)']_vars


\* "A delivery younger than the threshold is untouched, so in-flight work is
\* never disrupted" (header of webhookDeliveryRecovery.js).  Refuted: a retry may
\* renew the claim between the sweep's read and its update.
YoungClaimUntouched ==
    [][\A d \in Delivery :
          row[d].status = "received" /\ row'[d].error = "abandoned" => row[d].old]_vars
=============================================================================
