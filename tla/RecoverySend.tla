---------------------------- MODULE RecoverySend ----------------------------
(***************************************************************************)
(* The recovery messages of abandoned carts: runRecoveryActions and        *)
(* processRecoverySend (recoveryActionService.js), the provider's outcome  *)
(* events (messageWebhookService.js) and what shoppers and merchants do    *)
(* meanwhile.                                                              *)
(*                                                                         *)
(* Passes of several processes may overlap: their lock is the one of       *)
(* FeatureJobs, which excludes nobody when Redis is away or its lease ran  *)
(* out.  No statement below runs in a transaction with another; the two    *)
(* rows of the final write are one.  The provider takes a message, refuses *)
(* it with 429 or 5xx, or cannot be reached; it reports what became of a   *)
(* message in events that it repeats until it gets a 2xx.                  *)
(***************************************************************************)
EXTENDS Naturals, FiniteSets

CONSTANTS Send,         \* sequence_sends rows
          Cart,
          cartOf,       \* metadata.abandoned_cart_id
          Worker,       \* Node processes that run the pass
          MaxTries,     \* attempts per message: 3
          MaxFaults,    \* bound on errors, crashes and slow workers
          MaxChanges,   \* bound on what shoppers and merchants do
          None

ASSUME CartAssumption == cartOf \in [Send -> Cart]
ASSUME BoundAssumption ==
    MaxTries \in Nat \ {0} /\ MaxFaults \in Nat /\ MaxChanges \in Nat
ASSUME NoneAssumption == None \notin Send

VARIABLES send,         \* the rows
          cart,         \* abandoned_carts: lifecycle and inactivity
          permitted,    \* store policy and the customer's consent
          pc,           \* where each worker stands
          task,         \* per worker: the row it claimed, the attempts it had read
          listed,       \* per worker: candidates read and not yet tried, with attempts
          mails,        \* messages the provider accepted for each send
          emitted,      \* events the provider has to report
          recorded,     \* sequence_events
          handler,      \* the event a webhook request is handling, and where
          acked,        \* events answered with a 2xx
          faults, changes,
          unwilling,    \* history: sends whose consent has been off since they were claimed
          unfit         \* history: sends whose cart has not been abandoned since then

vars == <<send, cart, permitted, pc, task, listed, mails, emitted, recorded, handler,
          acked, faults, changes, unwilling, unfit>>
shopVars == <<cart, permitted, changes>>
eventVars == <<emitted, recorded, handler, acked>>
pastVars == <<unwilling, unfit>>
workVars == <<pc, task, listed>>

\* `ready` is "available_at has come", `old` is "ten minutes in processing".
SendRow == [status : {"absent", "queued", "processing", "sent", "delivered", "failed",
                      "cancelled"},
            attempts : 0..MaxTries, ready : BOOLEAN, old : BOOLEAN]
\* `quiet` is "no checkout activity for fifteen minutes".
CartRow == [status : {"pending", "abandoned", "recovered"}, quiet : BOOLEAN]
Kind == {"delivered", "failed", "unsubscribed"}
Event == [send : Send, kind : Kind]
Idle == [event |-> None, at |-> "idle"]
NoTask == [send |-> None, attempts |-> 0]

TypeOK ==
    /\ send \in [Send -> SendRow]
    /\ cart \in [Cart -> CartRow]
    /\ permitted \in BOOLEAN
    /\ pc \in [Worker -> {"off", "promoting", "sweeping", "listing", "choosing", "policy",
                          "cart", "discount", "mailing", "recording", "failing"}]
    /\ task \in [Worker -> [send : Send \cup {None}, attempts : 0..MaxTries]]
    /\ listed \in [Worker -> SUBSET (Send \X (0..MaxTries))]
    /\ mails \in [Send -> Nat]
    /\ emitted \subseteq Event /\ recorded \subseteq emitted
    /\ acked \subseteq recorded
    /\ handler \in [event : Event, at : {"insert", "update", "consent"}] \cup {Idle}
    /\ faults \in 0..MaxFaults /\ changes \in 0..MaxChanges
    /\ unwilling \subseteq Send /\ unfit \subseteq Send

Init ==
    /\ send = [s \in Send |-> [status |-> "absent", attempts |-> 0, ready |-> TRUE,
                               old |-> FALSE]]
    /\ cart = [c \in Cart |-> [status |-> "pending", quiet |-> FALSE]]
    /\ permitted = TRUE
    /\ pc = [w \in Worker |-> "off"]
    /\ task = [w \in Worker |-> NoTask]
    /\ listed = [w \in Worker |-> {}]
    /\ mails = [s \in Send |-> 0]
    /\ emitted = {} /\ recorded = {} /\ acked = {}
    /\ handler = Idle
    /\ faults = 0 /\ changes = 0
    /\ unwilling = {} /\ unfit = {}

Goto(w, location) == pc' = [pc EXCEPT ![w] = location]
Fault == faults < MaxFaults /\ faults' = faults + 1
Change == changes < MaxChanges /\ changes' = changes + 1
Contactable(c) == cart[c].status = "abandoned" /\ cart[c].quiet
Sending(w, s) == task[w].send = s

----------------------------------------------------------------------------
(* The shop: enqueueing (FeatureJobs) and the life of a checkout. *)

\* enqueueRecoveryAction checked policy and cart before it inserts
Enqueue(s) ==
    /\ send[s].status = "absent"
    /\ cart[cartOf[s]].status # "pending"
    /\ send' = [send EXCEPT ![s] = [@ EXCEPT !.status = "queued", !.ready = FALSE]]
    /\ UNCHANGED <<shopVars, workVars, mails, eventVars, faults, pastVars>>

\* sends whose grounds are checked against cart c
About(c) == {s \in Send : cartOf[s] = c}

\* nextCheckoutStatus on an update of the checkout: purchased for good, seen in
\* Shopify's abandoned checkouts, or active again.  The update carries the time
\* of the activity, which may be long past.
Observe(c, status, quiet) ==
    /\ cart[c].status # "recovered"
    /\ Change
    /\ cart' = [cart EXCEPT ![c] = [status |-> status, quiet |-> quiet]]
    /\ unfit' = IF status = "abandoned" /\ quiet THEN unfit \ About(c) ELSE unfit
    /\ UNCHANGED <<permitted, send, workVars, mails, eventVars, faults, unwilling>>

\* Fifteen minutes without activity; an abandoned cart may now be contacted.
Quieten(c) ==
    /\ ~cart[c].quiet
    /\ cart' = [cart EXCEPT ![c].quiet = TRUE]
    /\ unfit' = IF cart[c].status = "abandoned"
                THEN unfit \ About(c) ELSE unfit
    /\ UNCHANGED <<permitted, changes, send, workVars, mails, eventVars, faults, unwilling>>

\* the policy, a kill switch or the customer's own choice
SetPermission(allowed) ==
    /\ Change
    /\ permitted' = allowed
    /\ unwilling' = IF allowed THEN {} ELSE unwilling
    /\ UNCHANGED <<cart, send, workVars, mails, eventVars, faults, unfit>>

----------------------------------------------------------------------------
(* A pass: promote, sweep, list, and one message after the other. *)

StartPass(w) ==
    /\ pc[w] = "off"
    /\ Goto(w, "promoting")
    /\ UNCHANGED <<send, shopVars, task, listed, mails, eventVars, faults, pastVars>>

Promotable == {c \in Cart : cart[c].status = "pending" /\ cart[c].quiet}

Promote(w) ==
    /\ pc[w] = "promoting"
    /\ cart' = [c \in Cart |-> IF c \in Promotable THEN [cart[c] EXCEPT !.status = "abandoned"]
                               ELSE cart[c]]
    /\ unfit' = unfit \ {s \in Send : cartOf[s] \in Promotable}
    /\ Goto(w, "sweeping")
    /\ UNCHANGED <<send, permitted, changes, task, listed, mails, eventVars, faults, unwilling>>

\* Faulty variant: the sweep misses sends that were claimed and not finished.
Stuck_Queued(s) == send[s].status = "queued" /\ send[s].old
Stuck(s) == send[s].status = "processing" /\ send[s].old

Sweep(w) ==
    /\ pc[w] = "sweeping"
    /\ send' = [s \in Send |->
                  IF Stuck(s)
                  THEN [send[s] EXCEPT !.status = "failed", !.old = FALSE]
                  ELSE send[s]]
    /\ Goto(w, "listing")
    /\ UNCHANGED <<shopVars, task, listed, mails, eventVars, faults, pastVars>>

\* findMany of the queued rows; their metadata is used until the pass ends
List(w) ==
    /\ pc[w] = "listing"
    /\ listed' = [listed EXCEPT ![w] = {<<s, send[s].attempts>> :
                                          s \in {t \in Send : send[t].status = "queued"}}]
    /\ Goto(w, "choosing")
    /\ UNCHANGED <<send, shopVars, task, mails, eventVars, faults, pastVars>>

Claimable(s) == send[s].status = "queued"

\* An entry is tried when the available_at it was read with has come, which is
\* earlier than the row's own if the row was retried since.  A claim that finds
\* the row taken, and an entry not yet available, are passed over.
Try(w, entry) ==
    LET s == entry[1] IN
    /\ pc[w] = "choosing" /\ entry \in listed[w]
    /\ listed' = [listed EXCEPT ![w] = @ \ {entry}]
    /\ \/ /\ Claimable(s)
          /\ send[s].ready \/ send[s].attempts # entry[2]
          /\ send' = [send EXCEPT ![s] = [@ EXCEPT !.status = "processing", !.old = FALSE]]
          /\ task' = [task EXCEPT ![w] = [send |-> s, attempts |-> entry[2]]]
          /\ unwilling' = IF permitted THEN unwilling \ {s} ELSE unwilling \cup {s}
          /\ unfit' = IF Contactable(cartOf[s]) THEN unfit \ {s} ELSE unfit \cup {s}
          /\ Goto(w, "policy")
       \/ /\ ~Claimable(s) \/ ~send[s].ready
          /\ UNCHANGED <<send, task, pastVars, pc>>
    /\ UNCHANGED <<shopVars, mails, eventVars, faults>>

EndPass(w) ==
    /\ pc[w] = "choosing" /\ listed[w] = {}
    /\ Goto(w, "off")
    /\ UNCHANGED <<send, shopVars, task, listed, mails, eventVars, faults, pastVars>>

----------------------------------------------------------------------------
(* processRecoverySend *)

\* back to the loop over the candidates; the row is written by id alone
Finish(w, row) ==
    /\ send' = [send EXCEPT ![task[w].send] = row]
    /\ task' = [task EXCEPT ![w] = NoTask]
    /\ Goto(w, "choosing")

Cancel(w) == Finish(w, [send[task[w].send] EXCEPT !.status = "cancelled", !.old = FALSE])

Step(w, from, to) ==
    /\ pc[w] = from
    /\ Goto(w, to)
    /\ UNCHANGED <<send, task>>

\* Faulty variant: the checks made when the message was queued are relied on.
CheckPolicy_AtEnqueue(w) ==
    /\ Step(w, "policy", "cart")
    /\ UNCHANGED <<shopVars, listed, mails, eventVars, faults, pastVars>>

\* store, policy and customer are read; a refusal cancels the message
CheckPolicy(w) ==
    /\ pc[w] = "policy"
    /\ IF permitted THEN Step(w, "policy", "cart") ELSE Cancel(w)
    /\ UNCHANGED <<shopVars, listed, mails, eventVars, faults, pastVars>>

CheckCart(w) ==
    /\ pc[w] = "cart"
    /\ IF Contactable(cartOf[task[w].send]) THEN Step(w, "cart", "discount") ELSE Cancel(w)
    /\ UNCHANGED <<shopVars, listed, mails, eventVars, faults, pastVars>>

\* The code exists already after an earlier attempt; that is not an error.
CreateDiscount(w) ==
    /\ Step(w, "discount", "mailing")
    /\ UNCHANGED <<shopVars, listed, mails, eventVars, faults, pastVars>>

SendMail(w) ==
    /\ Step(w, "mailing", "recording")
    /\ mails' = [mails EXCEPT ![task[w].send] = @ + 1]
    /\ UNCHANGED <<shopVars, listed, eventVars, faults, pastVars>>

\* status and audit row in one transaction
RecordSent(w) ==
    /\ pc[w] = "recording"
    /\ Finish(w, [send[task[w].send] EXCEPT !.status = "sent", !.old = FALSE])
    /\ UNCHANGED <<shopVars, listed, mails, eventVars, faults, pastVars>>

\* Faulty variant: any error is worth another attempt.
RetryableAt_Always(location) == TRUE
\* Only a 429 or 5xx carries a number; errors of Shopify and of the database
\* carry names, so that after the mail has gone nothing is tried again.
RetryableAt(location) == location = "mailing"

\* The catch block, with the attempts the pass had read before its claim.
Caught(w, retryable) ==
    LET s == task[w].send
        tries == task[w].attempts + 1
        again == retryable /\ tries < MaxTries
    IN Finish(w, [status |-> IF again THEN "queued" ELSE "failed", attempts |-> tries,
                  ready |-> ~again, old |-> FALSE])

\* A statement or a provider fails.  A connection to the provider that breaks
\* may have delivered the message, and its error carries no number.
Throws(w) ==
    /\ pc[w] \in {"policy", "cart", "discount", "mailing", "recording"}
    /\ Fault
    /\ \/ Caught(w, RetryableAt(pc[w])) /\ UNCHANGED mails
       \/ /\ pc[w] = "mailing"
          /\ Caught(w, FALSE)
          /\ mails' \in {mails, [mails EXCEPT ![task[w].send] = @ + 1]}
    /\ UNCHANGED <<shopVars, listed, eventVars, pastVars>>

Crash(w) ==
    /\ pc[w] # "off"
    /\ Fault
    /\ Goto(w, "off")
    /\ task' = [task EXCEPT ![w] = NoTask]
    /\ listed' = [listed EXCEPT ![w] = {}]
    /\ UNCHANGED <<send, shopVars, mails, eventVars, pastVars>>

----------------------------------------------------------------------------
(* Time. *)

Available(s) ==
    /\ ~send[s].ready
    /\ send' = [send EXCEPT ![s].ready = TRUE]
    /\ UNCHANGED <<shopVars, workVars, mails, eventVars, faults, pastVars>>

Age(s) ==
    /\ send[s].status = "processing" /\ ~send[s].old
    /\ \A w \in Worker : ~Sending(w, s)
    /\ send' = [send EXCEPT ![s].old = TRUE]
    /\ UNCHANGED <<shopVars, workVars, mails, eventVars, faults, pastVars>>

AgeUnderWorker(s) ==
    /\ send[s].status = "processing" /\ ~send[s].old
    /\ \E w \in Worker : Sending(w, s)
    /\ Fault
    /\ send' = [send EXCEPT ![s].old = TRUE]
    /\ UNCHANGED <<shopVars, workVars, mails, eventVars, pastVars>>

----------------------------------------------------------------------------
(* The provider's events: recordMessageEvent. *)

Emit(s, kind) ==
    /\ mails[s] > 0
    /\ [send |-> s, kind |-> kind] \notin emitted
    /\ Change
    /\ emitted' = emitted \cup {[send |-> s, kind |-> kind]}
    /\ UNCHANGED <<cart, permitted, send, workVars, mails, recorded, handler, acked, faults,
                   pastVars>>

Receive(e) ==
    /\ handler = Idle /\ e \in emitted \ acked
    /\ handler' = [event |-> e, at |-> "insert"]
    /\ UNCHANGED <<send, shopVars, workVars, mails, emitted, recorded, acked, faults, pastVars>>

Acknowledge == handler' = Idle /\ acked' = acked \cup {handler.event}

\* unique (sequence_send_id, external_event_id): P2002 is a duplicate, a 2xx
InsertEvent ==
    /\ handler.at = "insert"
    /\ IF handler.event \in recorded
       THEN Acknowledge /\ UNCHANGED recorded
       ELSE /\ recorded' = recorded \cup {handler.event}
            /\ handler' = [handler EXCEPT !.at = "update"]
            /\ UNCHANGED acked
    /\ UNCHANGED <<send, shopVars, workVars, mails, emitted, faults, pastVars>>

ApplyStatus ==
    LET e == handler.event IN
    /\ handler.at = "update"
    /\ send' = IF e.kind = "unsubscribed" THEN send
               ELSE [send EXCEPT ![e.send] = [@ EXCEPT !.status = e.kind, !.old = FALSE]]
    /\ IF e.kind = "unsubscribed"
       THEN handler' = [handler EXCEPT !.at = "consent"] /\ UNCHANGED acked
       ELSE Acknowledge
    /\ UNCHANGED <<shopVars, workVars, mails, emitted, recorded, faults, pastVars>>

RevokeConsent ==
    /\ handler.at = "consent"
    /\ permitted' = FALSE
    /\ Acknowledge
    /\ UNCHANGED <<send, cart, changes, workVars, mails, emitted, recorded, faults, pastVars>>

\* The request fails between two of its statements; the provider repeats it.
HandlerFails ==
    /\ handler # Idle
    /\ Fault
    /\ handler' = Idle
    /\ UNCHANGED <<send, shopVars, workVars, mails, emitted, recorded, acked, pastVars>>

----------------------------------------------------------------------------

Work(w) ==
    \/ Promote(w) \/ Sweep(w) \/ List(w)
    \/ \E entry \in listed[w] : Try(w, entry)
    \/ EndPass(w)
    \/ CheckPolicy(w) \/ CheckCart(w) \/ CreateDiscount(w) \/ SendMail(w) \/ RecordSent(w)

Handle == InsertEvent \/ ApplyStatus \/ RevokeConsent

Next ==
    \/ \E s \in Send : Enqueue(s) \/ Available(s) \/ Age(s) \/ AgeUnderWorker(s)
    \/ \E c \in Cart :
          \/ Quieten(c)
          \/ \E status \in {"pending", "abandoned", "recovered"}, quiet \in BOOLEAN :
                Observe(c, status, quiet)
    \/ \E allowed \in BOOLEAN : SetPermission(allowed)
    \/ \E w \in Worker : StartPass(w) \/ Work(w) \/ Throws(w) \/ Crash(w)
    \/ \E s \in Send, kind \in Kind : Emit(s, kind)
    \/ \E e \in emitted : Receive(e)
    \/ Handle \/ HandlerFails

Spec == Init /\ [][Next]_vars

\* Timers fire and a worker that is not down runs on; time passes; the provider
\* repeats what it got no 2xx for.
Fairness ==
    /\ \A w \in Worker : WF_vars(StartPass(w)) /\ WF_vars(Work(w))
    /\ \A s \in Send : WF_vars(Available(s)) /\ WF_vars(Age(s))
    /\ WF_vars(Handle) /\ \A e \in Event : SF_vars(Receive(e))

FairSpec == Spec /\ Fairness

----------------------------------------------------------------------------
(* Properties. *)

\* No send is mailed twice, whatever overlaps, crashes and retries: a message
\* is put back only where the provider refused it, and given up where nobody
\* knows (runRecoveryActions).
MailedOnce == \A s \in Send : mails[s] <= 1

\* A mail leaves only if consent and policy allowed it, and the cart was
\* abandoned and quiet, at some time after the send was claimed: checks made
\* when it was queued, up to a day before, do not count (processRecoverySend).
MailHasGrounds ==
    [][\A s \in Send : mails'[s] > mails[s] => s \notin unwilling \cup unfit]_vars

\* A queued message comes to an end, through crashes, slow workers and refusals,
\* although passes that overlap write attempt counts over each other.
EverySendSettles ==
    \A s \in Send :
        send[s].status = "queued"
            ~> send[s].status \in {"sent", "delivered", "failed", "cancelled"}

\* "Unsubscribe events revoke email consent" (API_CONTRACTS.md).  Refuted: an
\* event recorded by a request that then failed is a duplicate when it is repeated.
UnsubscribeRevokes ==
    \A s \in Send :
        LET e == [send |-> s, kind |-> "unsubscribed"]
        IN e \in recorded ~> ~permitted
=============================================================================
