--------------------------- MODULE StoreLifecycle ---------------------------
(***************************************************************************)
(* One Shopify store from its connection to its erasure: the sync runs of  *)
(* shopifySync.js under their Redis lease, the uninstall webhook, and the  *)
(* shop/redact requests of privacyWebhookService.js, which meet in the     *)
(* store's status and in the rows they write and delete.                   *)
(*                                                                         *)
(* claimDelivery is one step here; its statements are the module           *)
(* WebhookDelivery.  The thirty deleteMany steps of handleShopRedact are   *)
(* three: `orders` and the tables listed like it, `webhook_deliveries`,    *)
(* and `customers`, which the foreign key of orders may refuse.  The store *)
(* is kept, and so is every row of the tables that list leaves out:        *)
(* order_transactions, order_refunds, order_fulfillments, store_profiles,  *)
(* store_domains, locations, inventory_items and inventory_levels.         *)
(***************************************************************************)
EXTENDS Naturals, FiniteSets

CONSTANTS Run,        \* invocations of syncShopifyStore
          Handler,    \* requests that deliver a shop/redact notice
          NoRun,      \* the value of a free lock
          MaxCycles,  \* bound on uninstalls, each of which owes one erasure
          MaxWrites,  \* bound on writes of rows that were not there
          MaxFaults   \* bound on crashes, failed statements and slow holders

ASSUME NoRunAssumption == NoRun \notin Run
ASSUME BoundsAssumption == MaxCycles \in Nat \ {0} /\ MaxWrites \in Nat /\ MaxFaults \in Nat

VARIABLES status,     \* stores.status
          token,      \* whether stores.access_token is set
          old,        \* stores.updated_at is past the sync deadlines
          lock,       \* the run shopify:setup:lock names
          sync,       \* by run: where it stands, whether its store had a token
          lapsed,     \* history: working runs whose lease ran out
          rows,       \* kinds of rows the store has
          cycles,     \* uninstalls so far
          notice,     \* by uninstall: the provider's shop/redact notice
          delivery,   \* by uninstall: the notice's webhook_deliveries status
          request,    \* the privacy_requests row of shop/redact
          redact,     \* by handler: an erasure in progress
          owed,       \* history, by uninstall: rows there at its notice and not deleted since
          writes, faults

storeVars == <<status, token, old>>
syncVars == <<lock, sync, lapsed>>
eraseVars == <<cycles, notice, delivery, request, redact, owed>>
vars == <<storeVars, syncVars, rows, eraseVars, writes, faults>>

Cycle == 1..MaxCycles
\* the tables the steps of handleShopRedact list, and the others
Listed == {"customer", "order"}
Kind == Listed \cup {"unlisted"}
SyncAt == {"idle", "mark", "read", "end", "failed", "release"}
EraseAt == {"idle", "find", "create", "restart", "orders", "deliveries", "customers",
            "close", "complete", "fail", "processed", "unprocessed"}

\* `mine`: the delivery row is still the one this handler claimed; `older`: rows
\* that were there when the erasure began and have not been deleted since.
Erasure == [at : EraseAt, cycle : 0..MaxCycles, mine : BOOLEAN, older : SUBSET Kind]
Resting == [at |-> "idle", cycle |-> 0, mine |-> FALSE, older |-> {}]

TypeOK ==
    /\ status \in {"active", "syncing", "inactive", "redacted"}
    /\ token \in BOOLEAN /\ old \in BOOLEAN
    /\ lock \in Run \cup {NoRun}
    /\ sync \in [Run -> [at : SyncAt, key : BOOLEAN]]
    /\ lapsed \subseteq Run
    /\ rows \subseteq Kind
    /\ cycles \in 0..MaxCycles
    /\ notice \in [Cycle -> {"none", "due", "sent", "acked"}]
    /\ delivery \in [Cycle -> {"absent", "received", "processed", "failed"}]
    /\ request \in {"absent", "processing", "completed", "failed"}
    /\ redact \in [Handler -> Erasure]
    /\ owed \in [Cycle -> SUBSET Kind]
    /\ writes \in 0..MaxWrites /\ faults \in 0..MaxFaults

\* A connected store whose first synchronization got no further than its profile.
Init ==
    /\ status = "active" /\ token = TRUE /\ old = FALSE
    /\ lock = NoRun /\ lapsed = {}
    /\ sync = [r \in Run |-> [at |-> "idle", key |-> FALSE]]
    /\ rows = {"unlisted"} /\ cycles = 0 /\ request = "absent"
    /\ owed = [c \in Cycle |-> {}]
    /\ notice = [c \in Cycle |-> "none"]
    /\ delivery = [c \in Cycle |-> "absent"]
    /\ redact = [h \in Handler |-> Resting]
    /\ writes = 0 /\ faults = 0

Fault == faults < MaxFaults /\ faults' = faults + 1
SetStatus(s) == status' = s /\ old' = FALSE

----------------------------------------------------------------------------
(* Rows.  An order is upserted with its customer in one transaction.  An     *)
(* update of what is there already changes nothing of this, and so does what *)
(* syncs and webhooks write to the unlisted tables, which have rows already. *)

Upserted(k) == IF k = "order" THEN Listed ELSE {k}
Write(k) ==
    /\ ~(Upserted(k) \subseteq rows)
    /\ writes < MaxWrites /\ writes' = writes + 1
    /\ rows' = rows \cup Upserted(k)

\* A commerce webhook; findStore turns away deleted stores only.
Ingest ==
    /\ \E k \in Listed : Write(k)
    /\ UNCHANGED <<storeVars, syncVars, eraseVars, faults>>

----------------------------------------------------------------------------
(* Synchronization. *)

SyncGoto(r, at) == sync' = [sync EXCEPT ![r].at = at]
SyncLeave(r, at) == sync' = [sync EXCEPT ![r] = [at |-> at, key |-> FALSE]]
SyncReturn(r) ==
    /\ sync' = [sync EXCEPT ![r] = [at |-> "idle", key |-> FALSE]]
    /\ lapsed' = lapsed \ {r}
\* SET NX EX 900: a run that finds the lock taken returns at once
StartSync(r, key) ==
    /\ sync[r].at = "idle"
    /\ IF lock = NoRun
       THEN lock' = r /\ sync' = [sync EXCEPT ![r] = [at |-> "mark", key |-> key]]
       ELSE UNCHANGED <<lock, sync>>

\* Faulty variant: a store left syncing is never due.
Eligible_ActiveOnly == status = "active"
\* storeSyncEligibility: a store whose sync was cut off comes due again
Eligible == status = "active" \/ (status = "syncing" /\ old)

\* The scheduler's pass reads the store ...
Schedule(r) ==
    /\ Eligible
    /\ StartSync(r, token)
    /\ UNCHANGED <<storeVars, lapsed, rows, eraseVars, writes, faults>>

\* ... so does the merchant's retry ...
Retry(r) ==
    /\ token /\ status # "inactive" /\ ~(status = "syncing" /\ ~old)
    /\ StartSync(r, token)
    /\ UNCHANGED <<storeVars, lapsed, rows, eraseVars, writes, faults>>

\* ... and the operator's request, which takes a store of any status.
Request(r) ==
    /\ StartSync(r, token)
    /\ UNCHANGED <<storeVars, lapsed, rows, eraseVars, writes, faults>>

\* The OAuth callback stores a new token and starts a sync.  The provider owes
\* no erasure for an app that is installed again before the notice is sent.
Install(r) ==
    /\ StartSync(r, TRUE)
    /\ token' = TRUE /\ SetStatus("active")
    /\ notice' = [c \in Cycle |-> IF notice[c] = "due" THEN "none" ELSE notice[c]]
    /\ UNCHANGED <<lapsed, rows, cycles, delivery, request, redact, owed, writes, faults>>

Mark(r) ==
    /\ sync[r].at = "mark"
    /\ SetStatus("syncing") /\ SyncGoto(r, "read")
    /\ UNCHANGED <<token, lock, lapsed, rows, eraseVars, writes, faults>>

\* One page of customers or orders, read with the token the run started with.
ReadPage(r) ==
    /\ sync[r].at = "read" /\ sync[r].key
    /\ \E k \in Listed : Write(k)
    /\ UNCHANGED <<storeVars, syncVars, eraseVars, faults>>

LastPage(r) ==
    /\ sync[r].at = "read" /\ sync[r].key
    /\ SyncLeave(r, "end")
    /\ UNCHANGED <<storeVars, lock, lapsed, rows, eraseVars, writes, faults>>

\* A fatal stage throws: the provider, the database, or no token at all.
SyncThrows(r) ==
    /\ sync[r].at \in {"mark", "read", "end"}
    /\ SyncLeave(r, "failed")
    /\ UNCHANGED <<storeVars, lock, lapsed, rows, eraseVars, writes, faults>>

\* Success and the catch block both write `active`, whatever the status is now.
SyncEnds(r) ==
    /\ sync[r].at \in {"end", "failed"}
    /\ SetStatus("active") /\ SyncGoto(r, "release")
    /\ UNCHANGED <<token, lock, lapsed, rows, eraseVars, writes, faults>>

\* The write in the catch block fails as well and is only logged.
SyncEndLost(r) ==
    /\ sync[r].at = "failed" /\ Fault
    /\ SyncGoto(r, "release")
    /\ UNCHANGED <<storeVars, lock, lapsed, rows, eraseVars, writes>>

\* Faulty variant: the release does not compare the owner.
Released_Unchecked(r) == NoRun
Released(r) == IF lock = r THEN NoRun ELSE lock

Release(r) ==
    /\ sync[r].at = "release"
    /\ lock' = Released(r) /\ SyncReturn(r)
    /\ UNCHANGED <<storeVars, rows, eraseVars, writes, faults>>

SyncCrash(r) ==
    /\ sync[r].at # "idle" /\ Fault
    /\ SyncReturn(r)
    /\ UNCHANGED <<storeVars, lock, rows, eraseVars, writes>>

Working(r) == sync[r].at # "idle"

\* The lease runs out, for a run that is still at work or for one that is gone.
Expire ==
    /\ lock # NoRun
    /\ IF Working(lock)
       THEN Fault /\ lapsed' = lapsed \cup {lock}
       ELSE UNCHANGED <<lapsed, faults>>
    /\ lock' = NoRun
    /\ UNCHANGED <<storeVars, sync, rows, eraseVars, writes>>

Age ==
    /\ status = "syncing" /\ ~old
    /\ old' = TRUE
    /\ UNCHANGED <<status, token, syncVars, rows, eraseVars, writes, faults>>

----------------------------------------------------------------------------
(* Uninstall and the provider's notices. *)

Uninstall ==
    /\ token /\ cycles < MaxCycles
    /\ cycles' = cycles + 1
    /\ token' = FALSE /\ SetStatus("inactive")
    /\ notice' = [notice EXCEPT ![cycles + 1] = "due"]
    /\ UNCHANGED <<syncVars, rows, delivery, request, redact, owed, writes, faults>>

\* The notice follows some time later and is repeated until it is acknowledged.
Send(c) ==
    /\ notice[c] = "due"
    /\ notice' = [notice EXCEPT ![c] = "sent"]
    /\ owed' = [owed EXCEPT ![c] = rows]
    /\ UNCHANGED <<storeVars, syncVars, rows, cycles, delivery, request, redact,
                   writes, faults>>

----------------------------------------------------------------------------
(* shop/redact *)

Goto(h, at) == redact' = [redact EXCEPT ![h].at = at]
Acknowledge(c) == notice' = [notice EXCEPT ![c] = "acked"]

Served(c) == \E h \in Handler : redact[h].cycle = c

\* claimDelivery; a row in flight is refused.  The provider repeats a notice that
\* is still being served only when it has timed out on it.
Receive(h, c) ==
    /\ redact[h].at = "idle" /\ notice[c] = "sent"
    /\ IF Served(c) THEN Fault ELSE UNCHANGED faults
    /\ \/ /\ delivery[c] \in {"absent", "failed"}
          /\ delivery' = [delivery EXCEPT ![c] = "received"]
          /\ redact' = [redact EXCEPT ![h] =
                            [at |-> "find", cycle |-> c, mine |-> TRUE, older |-> {}]]
          /\ UNCHANGED notice
       \/ /\ delivery[c] = "processed"
          /\ Acknowledge(c)
          /\ UNCHANGED <<delivery, redact>>
    /\ UNCHANGED <<storeVars, syncVars, rows, cycles, request, owed, writes>>

\* Faulty variant: a request that exists is answered like a completed one.
Resume_AnyIsDone == IF request = "absent" THEN "create" ELSE "processed"
\* Faulty variant: a request in progress is left to whoever began it.
Resume_InFlight ==
    CASE request = "absent"     -> "create"
      [] request = "completed"  -> "processed"
      [] request = "processing" -> "unprocessed"
      [] request = "failed"     -> "restart"
\* beginRequest: a request is found under its topic, shop id and shop domain,
\* which are the same for every uninstall of the shop
Resume ==
    CASE request = "absent"    -> "create"
      [] request = "completed" -> "processed"
      [] OTHER                 -> "restart"

Find(h) ==
    /\ redact[h].at = "find"
    /\ Goto(h, Resume)
    /\ UNCHANGED <<storeVars, syncVars, rows, cycles, notice, delivery, request, owed,
                   writes, faults>>

Begin(h) ==
    /\ request' = "processing"
    /\ redact' = [redact EXCEPT ![h] = [@ EXCEPT !.at = "orders", !.older = rows]]

Create(h) ==
    /\ redact[h].at = "create"
    /\ IF request = "absent"
       THEN Begin(h)
       ELSE Goto(h, "unprocessed") /\ UNCHANGED request     \* P2002: still in flight
    /\ UNCHANGED <<storeVars, syncVars, rows, cycles, notice, delivery, owed,
                   writes, faults>>

Restart(h) ==
    /\ redact[h].at = "restart"
    /\ Begin(h)
    /\ UNCHANGED <<storeVars, syncVars, rows, cycles, notice, delivery, owed,
                   writes, faults>>

\* deleteMany: the rows stop being old for every erasure and every notice
Delete(kinds, h, at) ==
    /\ rows' = rows \ kinds
    /\ owed' = [c \in Cycle |-> owed[c] \ kinds]
    /\ redact' = [g \in Handler |->
                    [redact[g] EXCEPT !.older = @ \ kinds, !.at = IF g = h THEN at ELSE @]]

DeleteOrders(h) ==
    /\ redact[h].at = "orders"
    /\ Delete({"order"}, h, "deliveries")
    /\ UNCHANGED <<storeVars, syncVars, cycles, notice, delivery, request, writes, faults>>

\* The erasure deletes the row of the delivery that runs it.
DeleteDeliveries(h) ==
    /\ redact[h].at = "deliveries"
    /\ delivery' = [c \in Cycle |-> "absent"]
    /\ redact' = [g \in Handler |->
                    [redact[g] EXCEPT !.mine = FALSE, !.at = IF g = h THEN "customers" ELSE @]]
    /\ UNCHANGED <<storeVars, syncVars, rows, cycles, notice, request, owed,
                   writes, faults>>

\* Faulty variant: a step the database refuses is skipped.
DeleteCustomers_Skipped(h) ==
    /\ redact[h].at = "customers"
    /\ IF "order" \in rows
       THEN Goto(h, "close") /\ UNCHANGED <<rows, owed>>
       ELSE Delete({"customer"}, h, "close")
    /\ UNCHANGED <<storeVars, syncVars, cycles, notice, delivery, request, writes, faults>>

\* An order written since the first step keeps its customer: the step fails.
DeleteCustomers(h) ==
    /\ redact[h].at = "customers"
    /\ IF "order" \in rows
       THEN Goto(h, "fail") /\ UNCHANGED <<rows, owed>>
       ELSE Delete({"customer"}, h, "close")
    /\ UNCHANGED <<storeVars, syncVars, cycles, notice, delivery, request, writes, faults>>

Close(h) ==
    /\ redact[h].at = "close"
    /\ SetStatus("redacted") /\ token' = FALSE
    /\ Goto(h, "complete")
    /\ UNCHANGED <<syncVars, rows, cycles, notice, delivery, request, owed, writes, faults>>

\* A statement of the erasure fails for a reason of its own.
EraseThrows(h) ==
    /\ redact[h].at \in {"orders", "deliveries", "customers", "close", "complete"}
    /\ Fault
    /\ Goto(h, "fail")
    /\ UNCHANGED <<storeVars, syncVars, rows, cycles, notice, delivery, request, owed, writes>>

\* finishRequest, by id: nothing of the row's status is asked
Complete(h) ==
    /\ redact[h].at = "complete"
    /\ request' = "completed"
    /\ Goto(h, "processed")
    /\ UNCHANGED <<storeVars, syncVars, rows, cycles, notice, delivery, owed, writes, faults>>

Fail(h) ==
    /\ redact[h].at = "fail"
    /\ request' = "failed"
    /\ Goto(h, "unprocessed")
    /\ UNCHANGED <<storeVars, syncVars, rows, cycles, notice, delivery, owed, writes, faults>>

\* markDelivery, by id: it throws once the row is gone, and the provider gets an error
Finish(h) ==
    /\ redact[h].at \in {"processed", "unprocessed"}
    /\ LET done == redact[h].at = "processed"
       IN  IF redact[h].mine
           THEN /\ delivery' = [delivery EXCEPT ![redact[h].cycle] =
                                    IF done THEN "processed" ELSE "failed"]
                /\ IF done THEN Acknowledge(redact[h].cycle) ELSE UNCHANGED notice
           ELSE UNCHANGED <<delivery, notice>>
    /\ redact' = [redact EXCEPT ![h] = Resting]
    /\ UNCHANGED <<storeVars, syncVars, rows, cycles, request, owed, writes, faults>>

EraseCrash(h) ==
    /\ redact[h].at # "idle" /\ Fault
    /\ redact' = [redact EXCEPT ![h] = Resting]
    /\ UNCHANGED <<storeVars, syncVars, rows, cycles, notice, delivery, request, owed, writes>>

\* recoverStuckDeliveries: after fifteen minutes, of a dead handler or a slow one
Sweep(c) ==
    /\ delivery[c] = "received"
    /\ IF \E h \in Handler : redact[h].cycle = c /\ redact[h].mine
       THEN Fault
       ELSE UNCHANGED faults
    /\ delivery' = [delivery EXCEPT ![c] = "failed"]
    /\ UNCHANGED <<storeVars, syncVars, rows, cycles, notice, request, redact, owed, writes>>

----------------------------------------------------------------------------
SyncStep(r) ==
    \/ Mark(r) \/ ReadPage(r) \/ LastPage(r) \/ SyncThrows(r)
    \/ SyncEnds(r) \/ SyncEndLost(r) \/ Release(r)

EraseStep(h) ==
    \/ Find(h) \/ Create(h) \/ Restart(h) \/ DeleteOrders(h) \/ DeleteDeliveries(h)
    \/ DeleteCustomers(h) \/ Close(h) \/ EraseThrows(h)
    \/ Complete(h) \/ Fail(h) \/ Finish(h)

Next ==
    \/ Ingest \/ Expire \/ Age \/ Uninstall
    \/ \E r \in Run : \/ Schedule(r) \/ Retry(r) \/ Request(r) \/ Install(r)
                      \/ SyncStep(r) \/ SyncCrash(r)
    \/ \E c \in Cycle : Send(c) \/ Sweep(c)
    \/ \E h \in Handler : \/ EraseStep(h) \/ EraseCrash(h)
                          \/ \E c \in Cycle : Receive(h, c)

Spec == Init /\ [][Next]_vars

\* Started handlers run on, time passes, the sweep and the sync pass come round,
\* and the provider repeats a notice it has no answer to.
FairSpec ==
    /\ Spec
    /\ WF_vars(Age) /\ WF_vars(Expire)
    /\ WF_vars(\E r \in Run : Schedule(r))
    /\ \A r \in Run : WF_vars(SyncStep(r))
    /\ \A h \in Handler : WF_vars(EraseStep(h))
    /\ \A c \in Cycle : WF_vars(Sweep(c))
    /\ \A c \in Cycle : SF_vars(\E h \in Handler : Receive(h, c))

----------------------------------------------------------------------------
(* Properties. *)

\* Two runs synchronize the store at once only if one of them has outlived its
\* lease: the release takes away nothing but the caller's own lock
\* (syncShopifyStore and the script of its finally block).
SyncAlone ==
    \A r, s \in Run :
        Working(r) /\ Working(s) /\ r # s => r \in lapsed \/ s \in lapsed

\* "the final stores.update runs last, after every step is durable": an erasure
\* that gets as far as closing the store has left nothing of what the tables it
\* lists held when it began, however many erasures, syncs and webhooks ran
\* meanwhile.
CompletionSweeps ==
    \A h \in Handler :
        redact[h].at \in {"close", "complete"} => redact[h].older \cap Listed = {}

\* "a privacy obligation must never be silently acknowledged as processed": when
\* the first notice is acknowledged, nothing is left of what the listed tables
\* held when it came.
AckedMeansErased == notice[1] = "acked" => owed[1] \cap Listed = {}

\* A store does not stay `syncing` when its run dies: the lease runs out, the
\* row goes stale and the scheduler's pass takes it again.
SyncSettles == status = "syncing" ~> status # "syncing"

\* "Retry converges": a notice that was sent is acknowledged in the end, though
\* the erasure deletes the delivery that runs it and its first 200 is lost.
NoticeAnswered == \A c \in Cycle : notice[c] = "sent" ~> notice[c] = "acked"

\* The same for every notice.  Not so: the second uninstall of a shop finds the
\* request of the first one completed, and its notice is acknowledged with the
\* store's rows in place.
EveryRedactErases == \A c \in Cycle : notice[c] = "acked" => owed[c] \cap Listed = {}

\* "shop/redact - erase ALL store data 48h after uninstall"
\* (privacyWebhookService.js).  Refuted for the first notice already: no step
\* deletes the tables the list leaves out.
ErasesAllStoreData == \A c \in Cycle : notice[c] = "acked" => owed[c] = {}
=============================================================================
