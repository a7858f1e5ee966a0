---------------------------- MODULE FeatureJobs ----------------------------
(***************************************************************************)
(* The queue of pixel feature jobs (featureWorkerService.js) and the       *)
(* recovery message a job may queue at the end of its prediction chain     *)
(* (enqueueRecoveryAction of recoveryActionService.js).                    *)
(*                                                                         *)
(* One worker per Node process runs the pass.  Passes exclude each other   *)
(* by a Redis lock with a TTL; without Redis acquireLock answers with a    *)
(* lock of the process alone.  Jobs are claimed by one SKIP LOCKED         *)
(* statement; everything a job does after that is found, counted and       *)
(* created by statements of their own.                                     *)
(*                                                                         *)
(* The store's Shopify sync runs the same chain for each abandoned         *)
(* checkout it imports (syncAbandonedCheckouts), outside that lock; after  *)
(* 12 seconds it goes on to the next checkout and leaves the chain running *)
(* (evaluateCartWithDeadline), so several of its chains may run at once.   *)
(*                                                                         *)
(* Scores, features and the caller's policy are choices: a chain reaches   *)
(* enqueueRecoveryAction or it does not.                                   *)
(***************************************************************************)
EXTENDS Naturals, FiniteSets

CONSTANTS Job,          \* pixel events; each has one job
          Cart,         \* abandoned carts of one store, one shopper session each
          Customer,
          Worker,       \* Node processes that run the pass
          Chain,        \* chains that syncs may have running at a time
          cartOf,       \* the cart of the session a job's event belongs to
          customerOf,   \* the customer of each cart
          MaxAttempts,  \* MAX_ATTEMPTS
          StoreCap,     \* max_actions_per_store_24h
          CustomerCap,  \* max_messages_per_customer_24h
          MaxDisturbances,  \* bound on errors, crashes, slow jobs, lock outages,
                        \* days that pass and chains of syncs
          None

ASSUME CartAssumption == cartOf \in [Job -> Cart] /\ customerOf \in [Cart -> Customer]
ASSUME WorkerAssumption ==
    /\ IsFiniteSet(Worker) /\ Worker # {}
    /\ IsFiniteSet(Chain) /\ Chain \cap Worker = {}
ASSUME BoundAssumption ==
    /\ MaxAttempts \in Nat \ {0}
    /\ StoreCap \in Nat \ {0} /\ CustomerCap \in Nat \ {0} /\ MaxDisturbances \in Nat
ASSUME NoneAssumption == None \notin Job \cup Worker

Runner == Worker \cup Chain

VARIABLES job,          \* feature_jobs by event
          pc,           \* where each worker stands in its pass, each chain of a sync
          claim,        \* what each works on: a worker, the job its claim returned
          redis,        \* isRedisReady of the deployment
          lock,         \* revluma:scheduler:feature-jobs, by holder
          owns,         \* workers whose lock carries a Redis token
          snapshots,    \* ml_session_features rows of each cart's session
          sequences,    \* active e-mail sequences of the store, oldest first
          sends,        \* sequence_sends by (cart, sequence): the action key
          recent,       \* sends created in the last 24 hours
          disturbances,
          degraded,     \* history: a pass ran without a lock that excludes others
          beside,       \* history: chains that syncs have had running
          overrun,      \* history: jobs claimed while a worker still ran them
          dropped       \* history: jobs whose last attempt ended unrecorded

vars == <<job, pc, claim, redis, lock, owns, snapshots, sequences, sends, recent,
          disturbances, degraded, beside, overrun, dropped>>
lockVars == <<redis, lock, owns, degraded, beside>>
rowVars == <<snapshots, sequences, sends, recent>>
pastVars == <<overrun, dropped>>

\* `ready` is "available_at has come", `stale` "updated_at is 10 minutes old".
JobRow == [status   : {"absent", "pending", "processing", "completed", "failed"},
           attempts : 0..MaxAttempts, ready : BOOLEAN, stale : BOOLEAN]
Location == {"off", "claiming", "computing", "creating", "predicting", "checking",
             "timing", "naming", "inserting", "completing", "failing"}
NoClaim == [job |-> None, cart |-> None, attempts |-> 0, sequence |-> 0]

TypeOK ==
    /\ job \in [Job -> JobRow]
    /\ pc \in [Runner -> Location]
    /\ claim \in [Runner -> [job : Job \cup {None}, cart : Cart \cup {None},
                             attempts : 0..MaxAttempts, sequence : Nat]]
    /\ redis \in BOOLEAN /\ lock \in Worker \cup {None} /\ owns \subseteq Worker
    /\ snapshots \in [Cart -> Nat]
    /\ sequences \in Nat
    /\ sends \subseteq Cart \X Nat /\ recent \subseteq sends
    /\ disturbances \in 0..MaxDisturbances
    /\ degraded \in BOOLEAN /\ beside \subseteq Chain
    /\ overrun \subseteq Job /\ dropped \subseteq Job

Init ==
    /\ job = [j \in Job |-> [status |-> "absent", attempts |-> 0, ready |-> TRUE,
                             stale |-> FALSE]]
    /\ pc = [w \in Runner |-> "off"]
    /\ claim = [w \in Runner |-> NoClaim]
    /\ redis = TRUE /\ lock = None /\ owns = {}
    /\ snapshots = [c \in Cart |-> 0]
    /\ sequences = 0 /\ sends = {} /\ recent = {}
    /\ disturbances = 0 /\ degraded = FALSE /\ beside = {} /\ overrun = {} /\ dropped = {}

Goto(w, location) == pc' = [pc EXCEPT ![w] = location]
Disturb == disturbances < MaxDisturbances /\ disturbances' = disturbances + 1
CartOf(w) == claim[w].cart
Running(w) == pc[w] # "off"
Holds(w, j) == claim[w].job = j

----------------------------------------------------------------------------
(* The pixel, and the pass under its lock. *)

\* the event and its job are created in one transaction
Ingest(j) ==
    /\ job[j].status = "absent"
    /\ job' = [job EXCEPT ![j].status = "pending"]
    /\ UNCHANGED <<pc, claim, lockVars, rowVars, disturbances, pastVars>>

\* Faulty variant: a lock that another process holds does not stop the pass.
StartPass_Unlocked(w) ==
    /\ pc[w] = "off"
    /\ Goto(w, "claiming")
    /\ UNCHANGED <<job, claim, lockVars, rowVars, disturbances, pastVars>>

\* acquireLock: SET NX, or a lock of this process alone when Redis is not ready
StartPass(w) ==
    /\ pc[w] = "off"
    /\ Goto(w, "claiming")
    /\ IF redis
       THEN /\ lock = None
            /\ lock' = w /\ owns' = owns \cup {w}
            /\ UNCHANGED <<redis, degraded>>
       ELSE degraded' = TRUE /\ UNCHANGED <<redis, lock, owns>>
    /\ UNCHANGED <<beside, job, claim, rowVars, disturbances, pastVars>>

\* releaseLock: only the holder of the token, and only while Redis answers
Unlock(w) ==
    /\ lock' = IF w \in owns /\ redis /\ lock = w THEN None ELSE lock
    /\ owns' = owns \ {w}
    /\ UNCHANGED <<redis, degraded, beside>>

\* the loop ends when nothing is claimable or its limit of 25 jobs is reached
EndPass(w) ==
    /\ pc[w] = "claiming"
    /\ Goto(w, "off")
    /\ Unlock(w)
    /\ UNCHANGED <<job, claim, rowVars, disturbances, pastVars>>

----------------------------------------------------------------------------
(* claimFeatureJob *)

\* Faulty variant: a dead worker's job is not taken.
Claimable_PendingOnly(j) ==
    job[j].attempts < MaxAttempts /\ job[j].ready /\ job[j].status = "pending"

Claimable(j) ==
    /\ job[j].attempts < MaxAttempts /\ job[j].ready
    /\ \/ job[j].status = "pending"
       \/ job[j].status = "processing" /\ job[j].stale

ClaimJob(w, j) ==
    /\ pc[w] = "claiming"
    /\ Claimable(j)
    /\ job' = [job EXCEPT ![j] = [@ EXCEPT !.status = "processing", !.stale = FALSE,
                                           !.attempts = job[j].attempts + 1]]
    /\ claim' = [claim EXCEPT ![w] = [job |-> j, cart |-> cartOf[j],
                                      attempts |-> job[j].attempts + 1, sequence |-> 0]]
    /\ overrun' = IF \E v \in Worker : Holds(v, j) THEN overrun \cup {j} ELSE overrun
    /\ Goto(w, "computing")
    /\ UNCHANGED <<lockVars, rowVars, disturbances, dropped>>

----------------------------------------------------------------------------
(* processFeatureJob: the snapshot and the prediction chain. *)

Advance(w, from, to) ==
    /\ pc[w] = from
    /\ Goto(w, to)
    /\ UNCHANGED <<job, claim, lockVars, disturbances, pastVars>>

\* computeFeatures answers; findFirst of the session's snapshot
ComputeFeatures(w) ==
    /\ Advance(w, "computing", IF snapshots[CartOf(w)] = 0 THEN "creating" ELSE "predicting")
    /\ UNCHANGED rowVars

CreateSnapshot(w) ==
    /\ Advance(w, "creating", "predicting")
    /\ snapshots' = [snapshots EXCEPT ![CartOf(w)] = @ + 1]
    /\ UNCHANGED <<sequences, sends, recent>>

\* syncAbandonedCheckouts: a checkout of a customer with a recent snapshot.  The
\* chains of one pass begin one after another, but one past its deadline runs on.
BeginChain(h, c) ==
    /\ pc[h] = "off"
    /\ \E d \in Cart : customerOf[d] = customerOf[c] /\ snapshots[d] > 0
    /\ Disturb
    /\ Goto(h, "predicting")
    /\ claim' = [claim EXCEPT ![h].cart = c]
    /\ beside' = beside \cup {h}
    /\ UNCHANGED <<job, redis, lock, owns, degraded, rowVars, pastVars>>

\* whatever it answered or threw, the sync goes on
EndChain(h) ==
    /\ pc[h] \in {"completing", "failing"}
    /\ Goto(h, "off")
    /\ claim' = [claim EXCEPT ![h] = NoClaim]
    /\ UNCHANGED <<job, lockVars, rowVars, disturbances, pastVars>>

\* The chain ends early, or it finds an abandoned cart and an offer for it and
\* enqueueRecoveryAction finds an active store and a policy that permits it.
Predict(w) ==
    /\ \E next \in {"checking", "completing"} : Advance(w, "predicting", next)
    /\ UNCHANGED rowVars

----------------------------------------------------------------------------
(* enqueueRecoveryAction *)

Of(customer) == {s \in recent : customerOf[s[1]] = customer}

\* Faulty variant: the caps are compared with the wrong relation.
WithinActionLimits_Inclusive(c) ==
    Cardinality(recent) <= StoreCap /\ Cardinality(Of(customerOf[c])) <= CustomerCap

WithinActionLimits(c) ==
    Cardinality(recent) < StoreCap /\ Cardinality(Of(customerOf[c])) < CustomerCap

CheckLimits(w) ==
    /\ Advance(w, "checking", IF WithinActionLimits(CartOf(w)) THEN "timing" ELSE "completing")
    /\ UNCHANGED rowVars

\* predictSendTime declines for the candidate group
TimingFails(w) ==
    /\ Advance(w, "timing", "completing")
    /\ UNCHANGED rowVars

\* findFirst by created_at: the oldest active sequence is the first
FindSequence(w) ==
    /\ pc[w] = "timing"
    /\ IF sequences = 0
       THEN Goto(w, "naming") /\ UNCHANGED claim
       ELSE Goto(w, "inserting") /\ claim' = [claim EXCEPT ![w].sequence = 1]
    /\ UNCHANGED <<job, lockVars, rowVars, disturbances, pastVars>>

CreateSequence(w) ==
    /\ pc[w] = "naming"
    /\ sequences' = sequences + 1
    /\ claim' = [claim EXCEPT ![w].sequence = sequences + 1]
    /\ Goto(w, "inserting")
    /\ UNCHANGED <<job, lockVars, snapshots, sends, recent, disturbances, pastVars>>

\* unique (sequence_id, external_message_id); the audit row follows the insert
InsertSend(w) ==
    LET send == <<CartOf(w), claim[w].sequence>> IN
    /\ Advance(w, "inserting", "completing")
    /\ sends' = sends \cup {send}
    /\ recent' = IF send \in sends THEN recent ELSE recent \cup {send}
    /\ UNCHANGED <<snapshots, sequences>>

----------------------------------------------------------------------------
(* The outcome of a job: updates by id alone. *)

Settle(w, row) ==
    /\ job' = [job EXCEPT ![claim[w].job] = row]
    /\ claim' = [claim EXCEPT ![w] = NoClaim]
    /\ Goto(w, "claiming")

CompleteJob(w) ==
    /\ pc[w] = "completing"
    /\ Settle(w, [job[claim[w].job] EXCEPT !.status = "completed", !.stale = FALSE])
    /\ UNCHANGED <<lockVars, rowVars, disturbances, pastVars>>

\* failFeatureJob decides by the attempt its own claim counted
FailedRow(row, attempts) ==
    IF attempts >= MaxAttempts
    THEN [row EXCEPT !.status = "failed", !.stale = FALSE]
    ELSE [row EXCEPT !.status = "pending", !.ready = FALSE, !.stale = FALSE]

FailJob(w) ==
    /\ pc[w] = "failing"
    /\ Settle(w, FailedRow(job[claim[w].job], claim[w].attempts))
    /\ UNCHANGED <<lockVars, rowVars, disturbances, pastVars>>

InJob(w) == pc[w] \notin {"off", "claiming"}

\* Python or the database fails in the middle: runFeatureJobs or the sync catches.
\* The audit row of a send fails after the send was created.
JobThrows(w) ==
    /\ InJob(w) /\ pc[w] # "failing"
    /\ Disturb
    /\ Goto(w, "failing")
    /\ \/ UNCHANGED rowVars
       \/ /\ pc[w] = "inserting" /\ <<CartOf(w), claim[w].sequence>> \notin sends
          /\ sends' = sends \cup {<<CartOf(w), claim[w].sequence>>}
          /\ recent' = recent \cup {<<CartOf(w), claim[w].sequence>>}
          /\ UNCHANGED <<snapshots, sequences>>
    /\ UNCHANGED <<job, claim, lockVars, pastVars>>

\* The worker is gone, or could not even record the failure; either way its
\* pass is over.
Leave(w) ==
    /\ Goto(w, "off")
    /\ claim' = [claim EXCEPT ![w] = NoClaim]
    /\ dropped' = IF InJob(w) /\ claim[w].attempts >= MaxAttempts
                  THEN dropped \cup {claim[w].job} ELSE dropped
    /\ UNCHANGED <<job, rowVars, overrun>>

FailJobThrows(w) ==
    /\ pc[w] = "failing"
    /\ Disturb
    /\ Leave(w)
    /\ Unlock(w)

Crash(w) ==
    /\ Running(w)
    /\ Disturb
    /\ Leave(w)
    /\ owns' = owns \ {w}
    /\ UNCHANGED <<redis, lock, degraded, beside>>

----------------------------------------------------------------------------
(* Time and Redis. *)

\* the backoff of a failed attempt passes
Available(j) ==
    /\ ~job[j].ready
    /\ job' = [job EXCEPT ![j].ready = TRUE]
    /\ UNCHANGED <<pc, claim, lockVars, rowVars, disturbances, pastVars>>

Age(j) ==
    /\ job[j].status = "processing" /\ ~job[j].stale
    /\ \A w \in Worker : ~Holds(w, j)
    /\ job' = [job EXCEPT ![j].stale = TRUE]
    /\ UNCHANGED <<pc, claim, lockVars, rowVars, disturbances, pastVars>>

\* a worker is slower than ten minutes on one job
AgeUnderWorker(j) ==
    /\ job[j].status = "processing" /\ ~job[j].stale
    /\ \E w \in Worker : Holds(w, j)
    /\ Disturb
    /\ job' = [job EXCEPT ![j].stale = TRUE]
    /\ UNCHANGED <<pc, claim, lockVars, rowVars, pastVars>>

DayPasses ==
    /\ recent # {}
    /\ Disturb
    /\ recent' = {}
    /\ UNCHANGED <<job, pc, claim, lockVars, snapshots, sequences, sends, pastVars>>

\* The lock of a process that is gone runs out.
LockExpires ==
    /\ lock # None /\ lock \notin owns
    /\ lock' = None
    /\ UNCHANGED <<job, pc, claim, redis, owns, degraded, beside, rowVars, disturbances,
                   pastVars>>

\* A pass outlives SCHEDULER_LOCK_TTL_SECONDS: five minutes for 25 jobs.
LockExpiresEarly ==
    /\ lock # None /\ lock \in owns
    /\ Disturb
    /\ lock' = None /\ degraded' = TRUE
    /\ UNCHANGED <<job, pc, claim, redis, owns, beside, rowVars, pastVars>>

RedisGoes ==
    /\ redis /\ Disturb
    /\ redis' = FALSE
    /\ UNCHANGED <<job, pc, claim, lock, owns, degraded, beside, rowVars, pastVars>>

RedisReturns ==
    /\ ~redis
    /\ redis' = TRUE
    /\ UNCHANGED <<job, pc, claim, lock, owns, degraded, beside, rowVars, disturbances,
                   pastVars>>

----------------------------------------------------------------------------

\* runPredictionChain
ChainStep(w) ==
    \/ Predict(w) \/ CheckLimits(w) \/ TimingFails(w)
    \/ FindSequence(w) \/ CreateSequence(w) \/ InsertSend(w)

Work(w) ==
    \/ ComputeFeatures(w) \/ CreateSnapshot(w) \/ ChainStep(w)
    \/ CompleteJob(w) \/ FailJob(w)

Next ==
    \/ \E j \in Job : Ingest(j) \/ Available(j) \/ Age(j) \/ AgeUnderWorker(j)
    \/ \E w \in Worker :
          \/ StartPass(w) \/ EndPass(w)
          \/ \E j \in Job : ClaimJob(w, j)
          \/ Work(w)
          \/ JobThrows(w) \/ FailJobThrows(w) \/ Crash(w)
    \/ \E h \in Chain :
          \/ \E c \in Cart : BeginChain(h, c)
          \/ ChainStep(h) \/ JobThrows(h) \/ EndChain(h)
    \/ DayPasses \/ LockExpires \/ LockExpiresEarly \/ RedisGoes \/ RedisReturns

Spec == Init /\ [][Next]_vars

\* The timers fire, a worker that is not down runs on and claims before it ends
\* its pass, backoffs and lock leases run out, Redis comes back.
EndWhenEmpty(w) == EndPass(w) /\ \A j \in Job : ~Claimable(j)
Fairness ==
    /\ \A w \in Worker : WF_vars(Work(w) \/ EndWhenEmpty(w))
    /\ WF_vars(\E w \in Worker : StartPass(w))
    /\ SF_vars(\E w \in Worker, j \in Job : ClaimJob(w, j))
    /\ \A j \in Job : WF_vars(Available(j) \/ Age(j))
    /\ WF_vars(LockExpires) /\ WF_vars(RedisReturns)

FairSpec == Spec /\ Fairness

----------------------------------------------------------------------------
(* Properties. *)

\* How many workers can be between a check and the write it allows, and how many
\* chains with those that syncs had running beside them.
Width == IF degraded THEN Cardinality(Worker) ELSE 1
ChainWidth == Width + Cardinality(beside)

\* The caps count first and create later, so whoever runs beside a worker exceeds
\* them, by one message each and never by more: each further process of a pass
\* without an exclusive lock, and each chain a sync has running.  They are exact
\* under the lock and without a sync (withinActionLimits, acquireLock,
\* evaluateCartWithDeadline).
CapsOverrunBounded ==
    /\ Cardinality(recent) < StoreCap + ChainWidth
    /\ \A k \in Customer : Cardinality(Of(k)) < CustomerCap + ChainWidth

\* Attempts repeat after crashes and lost replies, and the sync evaluates a cart
\* again each time, yet a cart gets one message, and one more at most for each
\* further process or chain of a sync: the action key is unique only within a
\* sequence, and the sequence itself is found before it is created
\* (findOrCreateEmailSequence).  Under the lock its session has one feature
\* snapshot, whatever syncs do (persistFeatureSnapshot).
CopiesBounded ==
    /\ sequences <= ChainWidth
    /\ \A c \in Cart : snapshots[c] <= Width
    /\ \A c \in Cart : Cardinality({s \in sends : s[1] = c}) <= ChainWidth

\* A completed job is reopened only where two workers had it at once: the
\* outcome of an attempt is written by id (processFeatureJob, failFeatureJob).
CompletedIsFinal ==
    [][\A j \in Job \ overrun :
          job[j].status = "completed" => job'[j].status = "completed"]_vars

\* Every ingested event's job ends completed or failed, through crashes,
\* retries and lost locks, except where the worker of its last attempt was lost.
EveryJobSettles ==
    \A j \in Job :
        job[j].status = "pending"
            ~> job[j].status \in {"completed", "failed"} \/ j \in dropped

\* "Idempotency must prevent a retry from creating a second discount or
\* message" (BACKEND_IMPLEMENTATION_GUIDE.md).  Refuted where CopiesBounded allows
\* two: overlapping passes, or a pass and a sync, that each created a sequence.
OneMessagePerCart == \A c \in Cart : Cardinality({s \in sends : s[1] = c}) <= 1
=============================================================================
