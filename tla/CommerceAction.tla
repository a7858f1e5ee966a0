--------------------------- MODULE CommerceAction ---------------------------
(***************************************************************************)
(* Merchant-approved product updates: commerceActionService.js with        *)
(* shopifyProductAction.js, commerceActionPolicy.js and the retries of     *)
(* shopifyGraphql.js, for one product.                                     *)
(*                                                                         *)
(* A request may be served by any process at the same time as others.      *)
(* Calls to Shopify are made outside of transactions; a status moves by an *)
(* update on the status the request had read.  Shopify is external: it     *)
(* applies an update, rejects it, or the answer is lost, before or after   *)
(* the update took effect, or while it is still on its way.  Merchants     *)
(* edit the product in Shopify too.                                        *)
(***************************************************************************)
EXTENDS Naturals, FiniteSets

CONSTANTS Action,       \* commerce_action_requests rows, one per idempotency key
          Request,      \* requests under way at one time
          Text,         \* product descriptions
          desired,      \* input_json.description of each action
          MaxAttempts,  \* calls per mutation: MAX_ATTEMPTS = 3
          MaxFaults,    \* bound on lost answers, crashes and slow requests
          MaxEdits,     \* bound on edits in Shopify
          None

ASSUME DesiredAssumption == desired \in [Action -> Text]
ASSUME BoundAssumption == MaxAttempts \in Nat \ {0} /\ MaxFaults \in Nat /\ MaxEdits \in Nat
ASSUME NoneAssumption == None \notin Action \cup Text

VARIABLES product,      \* the description in Shopify
          status,       \* of each action
          original,     \* rollback_json.description
          expired,      \* actions whose confirmation_expires_at has passed
          stale,        \* actions not updated for STALE_EXECUTION_MS
          req,          \* the requests
          flying,       \* texts of mutations that Shopify has not answered nor applied
          faults, edits,
          starts,       \* history: executions claimed per action
          undoing,      \* history: actions of which a rollback was claimed
          seen,         \* history: texts of the product since the execution of an action
                        \* was claimed, or its first rollback
          disturbed     \* history: requests under which someone else changed the product

vars == <<product, status, original, expired, stale, req, flying, faults, edits, starts,
          undoing, seen, disturbed>>
rowVars == <<status, original, expired, stale>>
shopVars == <<product, flying, edits, undoing, seen, disturbed>>

Status == {"none", "awaiting_confirmation", "executing", "executed", "failed",
           "execution_uncertain", "rolling_back", "rolled_back", "rollback_failed",
           "rollback_uncertain"}
InProgress == {"executing", "rolling_back"}
Uncertain == {"execution_uncertain", "rollback_uncertain"}

\* `from` is the status the request read, `to` the one it will write.
Idle == [at |-> "idle", action |-> None, from |-> "none", to |-> "none", tries |-> 0,
         applied |-> FALSE]
ReqRecord == [at : {"check", "claim", "send", "settle", "look", "resolve"}, action : Action,
              from : Status, to : Status, tries : 0..MaxAttempts, applied : BOOLEAN]

TypeOK ==
    /\ product \in Text
    /\ status \in [Action -> Status]
    /\ original \in [Action -> Text \cup {None}]
    /\ expired \subseteq Action /\ stale \subseteq Action
    /\ req \in [Request -> ReqRecord \cup {Idle}]
    /\ flying \subseteq Text
    /\ faults \in 0..MaxFaults /\ edits \in 0..MaxEdits
    /\ starts \in [Action -> Nat]
    /\ undoing \subseteq Action
    /\ seen \in [Action -> SUBSET Text]
    /\ disturbed \subseteq Request

Init ==
    /\ product \in Text
    /\ status = [a \in Action |-> "none"]
    /\ original = [a \in Action |-> None]
    /\ expired = {} /\ stale = {}
    /\ req = [r \in Request |-> Idle]
    /\ flying = {}
    /\ faults = 0 /\ edits = 0
    /\ starts = [a \in Action |-> 0]
    /\ undoing = {}
    /\ seen = [a \in Action |-> {}]
    /\ disturbed = {}

Fault == faults < MaxFaults /\ faults' = faults + 1
Move(r, record) == req' = [req EXCEPT ![r] = record]
Active == {r \in Request : req[r] # Idle}

\* The product takes a text; `by` are the requests that did it.
Becomes(text, by) ==
    /\ product' = text
    /\ seen' = [a \in Action |-> IF starts[a] > 0 THEN seen[a] \cup {text} ELSE {}]
    /\ disturbed' = IF text = product THEN disturbed ELSE disturbed \cup (Active \ by)

----------------------------------------------------------------------------
(* createPreview; the unique idempotency key makes a second one return the  *)
(* first.                                                                   *)

Preview(a) ==
    /\ status[a] = "none"
    /\ product # desired[a]
    /\ status' = [status EXCEPT ![a] = "awaiting_confirmation"]
    /\ original' = [original EXCEPT ![a] = product]
    /\ UNCHANGED <<expired, stale, req, shopVars, faults, starts>>

Expire(a) ==
    /\ status[a] = "awaiting_confirmation" /\ a \notin expired
    /\ expired' = expired \cup {a}
    /\ UNCHANGED <<status, original, stale, req, shopVars, faults, starts>>

\* Five minutes without an update, while nobody works on the action, or for a
\* request slower than that.
GrowStale(a) ==
    /\ status[a] \in InProgress /\ a \notin stale
    /\ IF \E r \in Request : req[r].action = a /\ req[r].at \in {"send", "settle"}
       THEN Fault ELSE UNCHANGED faults
    /\ stale' = stale \cup {a}
    /\ UNCHANGED <<status, original, expired, req, shopVars, starts>>

----------------------------------------------------------------------------
(* A request reads the row; what it then relies on is what it has read.     *)

Begin(r, a, at, to) ==
    /\ req[r] = Idle
    /\ Move(r, [Idle EXCEPT !.at = at, !.action = a, !.from = status[a], !.to = to])
    /\ disturbed' = disturbed \ {r}
    /\ UNCHANGED <<rowVars, product, flying, edits, undoing, seen, faults, starts>>

ConfirmAction(r, a) ==
    /\ status[a] = "awaiting_confirmation" /\ a \notin expired
    /\ Begin(r, a, "check", "executing")

RollbackAction(r, a) ==
    /\ status[a] \in {"executed", "rollback_failed"}
    /\ Begin(r, a, "check", "rolling_back")

Reconcilable(a) == status[a] \in Uncertain \/ (status[a] \in InProgress /\ a \in stale)

ReconcileAction(r, a) == Reconcilable(a) /\ Begin(r, a, "look", "none")

Executing(r) == "executing" \in {req[r].from, req[r].to}
Target(r) == IF Executing(r) THEN desired[req[r].action] ELSE original[req[r].action]

\* Faulty variant: the preview is taken to be current.
AssertCurrent_Trust(r) == TRUE
\* assertCurrentDescription: the original before an execution, the executed text
\* before a rollback
AssertCurrent(r) ==
    product = IF Executing(r) THEN original[req[r].action] ELSE desired[req[r].action]

CheckProduct(r) ==
    /\ req[r].at = "check"
    /\ Move(r, IF AssertCurrent(r) THEN [req[r] EXCEPT !.at = "claim"] ELSE Idle)
    /\ UNCHANGED <<rowVars, shopVars, faults, starts>>

----------------------------------------------------------------------------
(* transition: a conditional update of the status, or an error. *)

\* Faulty variant: the update is by id alone.
Claimed_ById(a, from) == TRUE
Claimed(a, from) == status[a] = from

Transition(a, from, to) ==
    IF Claimed(a, from)
    THEN status' = [status EXCEPT ![a] = to] /\ stale' = stale \ {a}
    ELSE UNCHANGED <<status, stale>>

ClaimAction(r) ==
    LET a == req[r].action IN
    /\ req[r].at = "claim"
    /\ Transition(a, req[r].from, req[r].to)
    /\ IF Claimed(a, req[r].from)
       THEN /\ Move(r, [req[r] EXCEPT !.at = "send", !.from = req[r].to])
            /\ starts' = [starts EXCEPT ![a] = IF req[r].to = "executing" THEN @ + 1 ELSE @]
            /\ undoing' = IF req[r].to = "executing" THEN undoing ELSE undoing \cup {a}
            /\ seen' = IF a \in undoing THEN seen ELSE [seen EXCEPT ![a] = {product}]
       ELSE Move(r, Idle) /\ UNCHANGED <<starts, undoing, seen>>
    /\ UNCHANGED <<original, expired, product, flying, edits, disturbed, faults>>

----------------------------------------------------------------------------
(* updateProductDescription through shopifyGraphql. *)

Done(r) == IF Executing(r) THEN "executed" ELSE "rolled_back"
Refused(r) == IF Executing(r) THEN "failed" ELSE "rollback_failed"
\* Faulty variant: an answer that does not say otherwise counts as success.
Unclear_Done(r) == Done(r)
Unclear(r) == IF Executing(r) THEN "execution_uncertain" ELSE "rollback_uncertain"

Answered(r) ==
    /\ req[r].at = "send"
    /\ Becomes(Target(r), {r})
    /\ Move(r, [req[r] EXCEPT !.at = "settle", !.to = Done(r), !.applied = TRUE])
    /\ UNCHANGED <<rowVars, flying, edits, faults, starts, undoing>>

\* userErrors
Rejected(r) ==
    /\ req[r].at = "send"
    /\ Move(r, [req[r] EXCEPT !.at = "settle", !.to = Refused(r)])
    /\ UNCHANGED <<rowVars, shopVars, faults, starts>>

\* The answer is lost.  Timeouts, resets and 5xx are retried up to MaxAttempts,
\* mutation or not; other errors and the last attempt leave it uncertain.
Lost(r) ==
    /\ req[r].at = "send"
    /\ Fault
    /\ \E reached \in {"applied", "nothing", "flying"} :
          LET after == [req[r] EXCEPT !.applied = @ \/ reached = "applied"] IN
          /\ IF reached = "applied" THEN Becomes(Target(r), {r})
             ELSE UNCHANGED <<product, seen, disturbed>>
          /\ flying' = IF reached = "flying" THEN flying \cup {Target(r)} ELSE flying
          /\ \/ req[r].tries + 1 < MaxAttempts /\ Move(r, [after EXCEPT !.tries = @ + 1])
             \/ Move(r, [after EXCEPT !.at = "settle", !.to = Unclear(r)])
    /\ UNCHANGED <<rowVars, edits, starts, undoing>>

\* A mutation that was given up for lost takes effect, or never does.
Land(text) ==
    /\ text \in flying
    /\ flying' = flying \ {text}
    /\ Becomes(text, {}) \/ UNCHANGED <<product, seen, disturbed>>
    /\ UNCHANGED <<rowVars, req, edits, faults, starts, undoing>>

Settle(r) ==
    /\ req[r].at = "settle"
    /\ Transition(req[r].action, req[r].from, req[r].to)
    /\ Move(r, Idle)
    /\ UNCHANGED <<original, expired, shopVars, faults, starts>>

----------------------------------------------------------------------------
(* reconcileAction: the product decides, if it has one of the two texts. *)

Verdict(a, from) ==
    IF product = desired[a] THEN {"executed"}
    ELSE IF product # original[a] THEN {}
    ELSE IF from \in {"execution_uncertain", "executing"} THEN {"failed"}
    ELSE {"rolled_back"}

LookAtProduct(r) ==
    LET verdict == Verdict(req[r].action, req[r].from) IN
    /\ req[r].at = "look"
    /\ IF verdict = {} THEN Move(r, Idle)
       ELSE \E to \in verdict : Move(r, [req[r] EXCEPT !.at = "resolve", !.to = to])
    /\ UNCHANGED <<rowVars, shopVars, faults, starts>>

Resolve(r) ==
    /\ req[r].at = "resolve"
    /\ Transition(req[r].action, req[r].from, req[r].to)
    /\ Move(r, Idle)
    /\ UNCHANGED <<original, expired, shopVars, faults, starts>>

----------------------------------------------------------------------------

Edit(text) ==
    /\ edits < MaxEdits /\ edits' = edits + 1
    /\ text # product
    /\ Becomes(text, {})
    /\ UNCHANGED <<rowVars, req, flying, faults, starts, undoing>>

Crash(r) ==
    /\ req[r] # Idle
    /\ Fault
    /\ Move(r, Idle)
    /\ UNCHANGED <<rowVars, shopVars, starts>>

Send(r) == Answered(r) \/ Rejected(r) \/ Lost(r)
Serve(r) ==
    \/ CheckProduct(r) \/ ClaimAction(r) \/ Send(r) \/ Settle(r)
    \/ LookAtProduct(r) \/ Resolve(r)

Next ==
    \/ \E a \in Action : Preview(a) \/ Expire(a) \/ GrowStale(a)
    \/ \E r \in Request, a \in Action :
          ConfirmAction(r, a) \/ RollbackAction(r, a) \/ ReconcileAction(r, a)
    \/ \E r \in Request : Serve(r) \/ Crash(r)
    \/ \E text \in Text : Land(text) \/ Edit(text)

Spec == Init /\ [][Next]_vars

----------------------------------------------------------------------------
(* Properties. *)

\* A status tells what happened in Shopify: executed if the product had the
\* desired text since the execution was claimed, rolled_back if it had the
\* original one since its first rollback was; whatever answers were lost and whoever
\* recorded the status.
StatusIsHonest ==
    \A a \in Action : /\ status[a] = "executed" => desired[a] \in seen[a]
                      /\ status[a] = "rolled_back" => original[a] \in seen[a]

\* A confirmed preview is executed once, however many requests confirm it and
\* whatever becomes of them.
ExecutesOnce == \A a \in Action : starts[a] <= 1

\* A request replaces a text that is neither the one before nor the one after
\* the action only if someone changed the product while it was under way: what
\* a merchant edited before that is kept.
EarlierEditKept ==
    [][\A r \in Request :
          LET texts == {desired[req[r].action], original[req[r].action]} IN
          Send(r) /\ product' # product /\ product \notin texts => r \in disturbed]_vars

\* "Immediately before rollback, it must equal the executed value. A later merchant
\* edit is never overwritten" (REV-COMMERCE-ACTIONS-001).  Refuted: the text is
\* compared before the rollback is claimed, and an edit that comes after that goes.
LaterEditKept ==
    [][\A r \in Request :
          req[r].from = "rolling_back" /\ Send(r) /\ product' # product
             => product \in {desired[req[r].action], original[req[r].action]}]_vars

\* "Shopify userErrors produce a definite failed state", and there is no
\* "automatic retry of an ambiguous mutation" (REV-COMMERCE-ACTIONS-001).  Refuted:
\* the first call took effect and its answer was lost, and its retry is rejected.
FailedIsDefinite ==
    [][\A r \in Request :
          Settle(r) /\ req[r].to = "failed" => ~req[r].applied]_vars
=============================================================================
