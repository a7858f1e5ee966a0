------------------------------ MODULE JobLock ------------------------------
(***************************************************************************)
(* The Postgres job lock of Backend/src/services/schedulerLocks.js and the *)
(* business-state pass of schedulerService.js that runs under it.  One row *)
(* of automation_job_state is both the lock and the heartbeat operators    *)
(* read.  The findings pass has the same shape without skipped units; the  *)
(* churn pass clears its flag after its release and names its own failures.*)
(*                                                                         *)
(* An invocation is one timer tick of one Node instance running the pass.  *)
(* The claim token is a fresh UUID; since an invocation makes one claim    *)
(* and has returned before it makes another, the invocation itself stands  *)
(* for its token.  Elapsed time is kept as the set `jobFresh` of invoca-   *)
(* tions whose latest claim is younger than ttlSeconds; a pass may take    *)
(* longer.                                                                 *)
(***************************************************************************)
EXTENDS Naturals

CONSTANTS Instance,     \* Node processes of the deployment
          Invocation,   \* timer ticks that may run the pass, on any of them
          host,         \* the process each invocation runs in
          Units,        \* largest number of organizations a pass handles
          NoToken       \* last_result carries no lock_token

ASSUME HostAssumption == host \in [Invocation -> Instance]
ASSUME UnitsAssumption == Units \in Nat
ASSUME NoTokenAssumption == NoToken \notin Invocation

VARIABLES jobRow,       \* the automation_job_state row of the job
          jobPc,        \* where each invocation stands
          flag,         \* per process: the businessStateRunning variable
          jobFresh,     \* claims younger than the TTL
          outcome,      \* per invocation: the counters of its pass
          wiped         \* history: claims whose token a skip record erased

jobVars == <<jobRow, jobPc, flag, jobFresh, outcome, wiped>>

\* A pass either counts its units or dies in its outer try before counting.
NoOutcome == [succeeded |-> 0, skipped |-> 0, failed |-> 0, threw |-> FALSE]
Outcome == [succeeded : 0..Units, skipped : 0..Units, failed : 0..Units, threw : BOOLEAN]

Status == {"absent", "idle", "running", "blocked",
           "completed", "partial", "failed", "skipped"}
Row == [status : Status, token : Invocation \cup {NoToken}, error : BOOLEAN]

JobLocation == {"idle", "ensuring", "claiming", "working", "releasing", "skipping", "blocking"}

JobTypeOK ==
    /\ jobRow \in Row
    /\ jobPc \in [Invocation -> JobLocation]
    /\ flag \in [Instance -> BOOLEAN]
    /\ jobFresh \subseteq Invocation
    /\ outcome \in [Invocation -> Outcome]
    /\ wiped \subseteq Invocation

JobInit ==
    /\ jobRow = [status |-> "absent", token |-> NoToken, error |-> FALSE]
    /\ jobPc = [i \in Invocation |-> "idle"]
    /\ flag = [n \in Instance |-> FALSE]
    /\ jobFresh = {}
    /\ outcome = [i \in Invocation |-> NoOutcome]
    /\ wiped = {}

JobGoto(i, location) == jobPc' = [jobPc EXCEPT ![i] = location]

----------------------------------------------------------------------------
(* The pure helpers of the release. *)

\* deriveJobStatus on the counters a pass reports
DeriveJobStatus(o) ==
    CASE o.failed > 0 /\ o.succeeded = 0 -> "failed"
      [] o.failed > 0 /\ o.succeeded > 0 -> "partial"
      [] OTHER                           -> "completed"

\* resolvePassOutcome picks "skipped" over the derived status, and only when
\* no failure reason was recorded; every failed unit records one.
PassStatus(o) ==
    IF o.failed = 0 /\ o.succeeded = 0 /\ o.skipped > 0
    THEN "skipped" ELSE DeriveJobStatus(o)

\* last_error is stored as null only for these two statuses
HasError(status) == status \notin {"completed", "idle"}

----------------------------------------------------------------------------
(* Claiming. *)

\* The tick fires; a process that is already running the pass returns at once.
Tick(i) ==
    /\ jobPc[i] = "idle"
    /\ ~flag[host[i]]
    /\ JobGoto(i, "ensuring")
    /\ UNCHANGED <<jobRow, flag, jobFresh, outcome, wiped>>

RowEnsured == IF jobRow.status = "absent" THEN [jobRow EXCEPT !.status = "idle"] ELSE jobRow

EnsureJobRow(i) ==
    /\ jobPc[i] = "ensuring"
    /\ jobRow' = RowEnsured
    /\ JobGoto(i, "claiming")
    /\ UNCHANGED <<flag, jobFresh, outcome, wiped>>

\* Faulty variants: the status test is lost; the TTL test is lost.
JobClaimable_Always == jobRow.status # "absent"
JobClaimable_NoTtl == jobRow.status \notin {"absent", "running"}

JobClaimable ==
    /\ jobRow.status # "absent"
    /\ jobRow.status = "running" => jobRow.token \notin jobFresh

\* the conditional UPDATE, when it matches the row
TakeRow(i) ==
    /\ JobClaimable
    /\ jobRow' = [status |-> "running", token |-> i, error |-> FALSE]
    /\ jobFresh' = jobFresh \cup {i}
    /\ wiped' = wiped \ {i}

ClaimJob(i) ==
    /\ jobPc[i] = "claiming"
    /\ TakeRow(i)
    /\ JobGoto(i, "working")
    /\ flag' = [flag EXCEPT ![host[i]] = TRUE]
    /\ UNCHANGED outcome

\* another instance holds a live claim: acquireDbLock returns null
ClaimRefused(i) ==
    /\ jobPc[i] = "claiming"
    /\ ~JobClaimable
    /\ JobGoto(i, "idle")
    /\ UNCHANGED <<jobRow, flag, jobFresh, outcome, wiped>>

\* a database error before the UPDATE took effect: acquireDbLock throws
LockError(i) ==
    /\ jobPc[i] \in {"ensuring", "claiming"}
    /\ JobGoto(i, "skipping")
    /\ UNCHANGED <<jobRow, flag, jobFresh, outcome, wiped>>

\* the UPDATE commits but its reply is lost: acquireDbLock throws all the same
ClaimJobReplyLost(i) ==
    /\ jobPc[i] = "claiming"
    /\ TakeRow(i)
    /\ JobGoto(i, "skipping")
    /\ UNCHANGED <<flag, outcome>>

----------------------------------------------------------------------------
(* recordJobSkip: its upsert, then an update by job_name alone. *)

SkipEnsure(i) ==
    /\ jobPc[i] = "skipping"
    /\ jobRow' = RowEnsured
    /\ JobGoto(i, "blocking")
    /\ UNCHANGED <<flag, jobFresh, outcome, wiped>>

\* last_result is replaced by the error detail, so no lock_token is left in it
RecordSkip(i) ==
    /\ jobPc[i] = "blocking"
    /\ jobRow' = [status |-> "blocked", token |-> NoToken, error |-> TRUE]
    /\ wiped' = wiped \cup ({jobRow.token} \ {NoToken})
    /\ JobGoto(i, "idle")
    /\ UNCHANGED <<flag, jobFresh, outcome>>

\* "Observability must never break the job it observes": errors are swallowed
SkipFails(i) ==
    /\ jobPc[i] \in {"skipping", "blocking"}
    /\ JobGoto(i, "idle")
    /\ UNCHANGED <<jobRow, flag, jobFresh, outcome, wiped>>

----------------------------------------------------------------------------
(* The pass and its release. *)

\* The finally block: the process flag is cleared before the release is sent.
EndPass(i, o) ==
    /\ jobPc[i] = "working"
    /\ outcome' = [outcome EXCEPT ![i] = o]
    /\ flag' = [flag EXCEPT ![host[i]] = FALSE]
    /\ JobGoto(i, "releasing")
    /\ UNCHANGED <<jobRow, jobFresh, wiped>>

\* Every unit counted once; or the outer catch, before any unit was counted.
PassOutcomes ==
    {o \in Outcome : ~o.threw /\ o.succeeded + o.skipped + o.failed <= Units}
        \cup {[NoOutcome EXCEPT !.threw = TRUE]}

Finished(i) ==
    /\ JobGoto(i, "idle")
    /\ outcome' = [outcome EXCEPT ![i] = NoOutcome]

\* Faulty variant: the release does not compare the token.
ReleaseDbLock_Unconditional(i) ==
    /\ jobPc[i] = "releasing"
    /\ jobRow' = [status |-> PassStatus(outcome[i]), token |-> NoToken,
               error  |-> HasError(PassStatus(outcome[i]))]
    /\ Finished(i)
    /\ UNCHANGED <<flag, jobFresh, wiped>>

ReleaseDbLock(i) ==
    /\ jobPc[i] = "releasing"
    /\ jobRow' = IF jobRow.token = i
              THEN [status |-> PassStatus(outcome[i]), token |-> NoToken,
                    error  |-> HasError(PassStatus(outcome[i]))]
              ELSE jobRow
    /\ Finished(i)
    /\ UNCHANGED <<flag, jobFresh, wiped>>

\* the release throws out of the finally block; the TTL will free the row
ReleaseDbLockFails(i) ==
    /\ jobPc[i] = "releasing"
    /\ Finished(i)
    /\ UNCHANGED <<jobRow, flag, jobFresh, wiped>>

----------------------------------------------------------------------------
(* The environment: time and crashes. *)

Age(i) ==
    /\ i \in jobFresh
    /\ jobFresh' = jobFresh \ {i}
    /\ wiped' = wiped \ {i}
    /\ UNCHANGED <<jobRow, jobPc, flag, outcome>>

\* A process dies and restarts: its ticks are gone, its flag is back to false.
ProcessCrash(n) ==
    /\ jobPc' = [i \in Invocation |-> IF host[i] = n THEN "idle" ELSE jobPc[i]]
    /\ outcome' = [i \in Invocation |-> IF host[i] = n THEN NoOutcome ELSE outcome[i]]
    /\ flag' = [flag EXCEPT ![n] = FALSE]
    /\ UNCHANGED <<jobRow, jobFresh, wiped>>

----------------------------------------------------------------------------

\* acquire and release alone, the lock as its header describes it
LockStep ==
    \/ \E i \in Invocation :
          \/ Tick(i) \/ EnsureJobRow(i)
          \/ ClaimJob(i) \/ ClaimRefused(i) \/ LockError(i) \/ ClaimJobReplyLost(i)
          \/ SkipEnsure(i) \/ SkipFails(i)
          \/ \E o \in PassOutcomes : EndPass(i, o)
          \/ ReleaseDbLock(i) \/ ReleaseDbLockFails(i)
          \/ Age(i)
    \/ \E n \in Instance : ProcessCrash(n)

\* the scheduler as written, where a lock error also overwrites the row
JobNext == LockStep \/ \E i \in Invocation : RecordSkip(i)

LockSpec == JobInit /\ [][LockStep]_jobVars
JobSpec == JobInit /\ [][JobNext]_jobVars

\* Time passes for every claim, whatever the processes do.
JobFairSpec == JobSpec /\ \A i \in Invocation : WF_jobVars(Age(i))

----------------------------------------------------------------------------
(* Properties. *)

\* A pass is active from its claim until its release has been sent.
Active(i) == jobPc[i] \in {"working", "releasing"}

\* An active pass whose lease has not run out is the one the row names, so its
\* release is accepted and its outcome reaches the heartbeat, unless a skip
\* record erased its token.  Two passes therefore overlap inside their leases
\* only where recordJobSkip has run (acquireDbLock, releaseDbLock).
LiveClaimRecorded ==
    \A i \in Invocation :
        Active(i) /\ i \in jobFresh \ wiped => jobRow.status = "running" /\ jobRow.token = i

\* The token is there exactly while the row is running, so that a release by
\* token and a claim by status never disagree about who owns the row.
TokenIffRunning == (jobRow.status = "running") <=> (jobRow.token # NoToken)

\* A process that is not running the pass is not told that it is: a flag left
\* set would make every later tick return at once, the silent outage the file's
\* header describes (businessStateRunning).
NoStuckFlag ==
    \A n \in Instance : flag[n] => \E i \in Invocation : host[i] = n /\ jobPc[i] = "working"

\* A claim inside its lease disappears only by its own release or by a skip:
\* "an instance can never release a lock that another instance has since taken
\* over" (header of schedulerLocks.js).
OnlyOwnerReleases ==
    [][\A i \in jobFresh :
          jobRow.token = i /\ jobRow'.token # i
            => (jobPc[i] = "releasing" /\ jobPc'[i] = "idle") \/ i \in wiped']_jobVars

\* "A crashed holder therefore expires instead of wedging the job forever": a
\* running row can be claimed again some day, or stops running.
NeverWedged == (jobRow.status = "running") ~> JobClaimable

\* Two passes never run at once inside their leases: "One statement, so two
\* instances racing cannot both win" (acquireDbLock).  Holds of LockSpec only.
OnePassPerLease ==
    \A i, j \in jobFresh : Active(i) /\ Active(j) => i = j

\* "a failed pass can never be stored as though it were idle or successful"
\* (releaseDbLock): the release of a pass whose work failed, in its units or
\* before them, does not store completed.  Refuted: a pass that threw before its
\* first unit has nothing to tell it from an empty one.
FailedPassNotCompleted ==
    [][\A i \in Invocation :
          jobRow.token = i /\ jobPc[i] = "releasing" /\ jobRow'.status = "completed"
            => ~outcome[i].threw /\ outcome[i].failed = 0]_jobVars

\* Without skip records the row implements an abstract lease: it is taken only
\* while it is free or its holder's TTL has passed, and only the recorded claim
\* frees it (acquireDbLock, releaseDbLock).
JobLeaseImpl == INSTANCE Lease
    WITH Client <- Invocation, NoOne <- NoToken,
         holder <- jobRow.token, fresh <- jobFresh, active <- {i \in Invocation : Active(i)}
JobLeaseSpec == JobLeaseImpl!Spec
=============================================================================
