--------------------------- MODULE SnapshotBuild ---------------------------
(***************************************************************************)
(* Business-state snapshots of one organization                            *)
(* (python/src/intelligence/business_state.py).  A build claims a lease in *)
(* automation_job_state and writes its snapshot by single statements, each *)
(* a transaction of its own: insert it inactive, raise its alerts, retire  *)
(* the current snapshot, promote the new one, verify, prune.  A build that *)
(* fails cleans up after itself, and the lease runs out under a slow one.  *)
(*                                                                         *)
(* A build is one call that claims the lease, asked for by the scheduler   *)
(* or by REV; a refused call changes nothing and is not in the model, nor  *)
(* is one whose claim failed without effect.  The build stands for its     *)
(* lock token, its state_id and its snapshot row; every build is taken to  *)
(* raise an alert.  At most one row is current by the unique partial index *)
(* idx_bstate_org_current, which the code names and its tests create.      *)
(***************************************************************************)
EXTENDS Naturals, FiniteSets

CONSTANTS Build,        \* builds that may run
          First,        \* a snapshot from before the first of them
          None,         \* no token, no build
          Keep,         \* superseded snapshots kept (48 or more in the code)
          MaxFaults     \* bound on faults and on leases that builds outlive

ASSUME NamesAssumption == First \notin Build /\ None \notin Build
ASSUME KeepAssumption == Keep \in Nat
ASSUME FaultsAssumption == MaxFaults \in Nat

Snapshot == Build \cup {First}

VARIABLES lease,        \* the organization's row of automation_job_state
          fresh,        \* claims younger than the lease's TTL
          pc, reply,    \* per build: where it stands, what it answered
          clock, at,    \* the time; generated_at of each snapshot
          snap,         \* the business_states rows
          alerts,       \* builds with alerts in alert_queue
          faults,       \* faults so far
          overran,      \* history: builds that outlived their lease
          served,       \* history: snapshots that have been current
          retirer,      \* history: the last build to retire the current row
          leftover      \* history: builds whose cleanup missed something

row == <<lease, fresh>>
history == <<overran, served, retirer, leftover>>
store == <<clock, at, snap, alerts>>
vars == <<row, pc, reply, store, faults, history>>

Location == {"idle", "start", "insert", "alert", "retire", "promote", "verify",
             "prune", "cleanAlerts", "cleanSnapshot", "release", "done"}

\* "rebuilt" comes with the build's own snapshot; "untouched" is the same
\* outcome with a state no row was written for, when no store was found.
Reply == {"none", "rebuilt", "untouched", "failed"}

Current == {s \in Snapshot : snap[s] = "current"}

\* types, and at most one current row
TypeOK ==
    /\ lease \in [running : BOOLEAN, token : Build \cup {None}]
    /\ fresh \subseteq Build
    /\ pc \in [Build -> Location]
    /\ reply \in [Build -> Reply]
    /\ clock \in Nat
    /\ at \in [Snapshot -> Nat]
    /\ snap \in [Snapshot -> {"absent", "inactive", "current"}]
    /\ \A s, t \in Current : s = t
    /\ alerts \subseteq Build
    /\ faults \in 0..MaxFaults
    /\ overran \subseteq Build
    /\ served \subseteq Snapshot
    /\ retirer \in Build \cup {None}
    /\ leftover \subseteq Build

Init ==
    /\ lease = [running |-> FALSE, token |-> None]
    /\ fresh = {}
    /\ pc = [b \in Build |-> "idle"]
    /\ reply = [b \in Build |-> "none"]
    /\ clock = 0
    /\ at = [s \in Snapshot |-> 0]
    /\ \E row0 \in {"absent", "inactive", "current"} :
          /\ snap = [s \in Snapshot |-> IF s = First THEN row0 ELSE "absent"]
          /\ served = IF row0 = "absent" THEN {} ELSE {First}
    /\ alerts = {}
    /\ faults = 0
    /\ overran = {}
    /\ retirer = None
    /\ leftover = {}

Goto(b, location) == pc' = [pc EXCEPT ![b] = location]
Working(b) == pc[b] \notin {"idle", "done"}
Fault == faults < MaxFaults /\ faults' = faults + 1

----------------------------------------------------------------------------
(* The lease. *)

\* Faulty variants: a lease that is being used can be claimed; the TTL is lost.
Claimable_Always == TRUE
Claimable_NoTtl == ~lease.running

\* a row that is absent counts as not running
Claimable == ~lease.running \/ lease.token \notin fresh

Claim(b) ==
    /\ pc[b] = "idle"
    /\ Claimable
    /\ lease' = [running |-> TRUE, token |-> b]
    /\ fresh' = fresh \cup {b}
    /\ UNCHANGED <<reply, store, history>>

Acquire(b) == Claim(b) /\ Goto(b, "start") /\ UNCHANGED faults

\* The claim took effect but its commit reported an error: the build fails
\* closed and leaves the lease to its TTL.
ClaimReplyLost(b) == Claim(b) /\ Goto(b, "done") /\ Fault

\* Faulty variant: the release goes by the job's name alone.
Owns_ByName(b) == TRUE

Owns(b) == lease.token = b

\* the token-matched UPDATE of the finally clause
Release(b) ==
    /\ pc[b] = "release"
    /\ lease' = IF Owns(b) THEN [running |-> FALSE, token |-> None] ELSE lease
    /\ Goto(b, "done")
    /\ UNCHANGED <<fresh, reply, store, faults, history>>

\* swallowed: the lease runs out by itself
ReleaseFails(b) ==
    /\ pc[b] = "release"
    /\ Goto(b, "done")
    /\ Fault
    /\ UNCHANGED <<row, reply, store, history>>

----------------------------------------------------------------------------
(* The build.  generated_at is taken first, before any source is read. *)

Start(b) ==
    /\ pc[b] = "start"
    /\ clock' = clock + 1
    /\ at' = [at EXCEPT ![b] = clock + 1]
    /\ Goto(b, "insert")
    /\ UNCHANGED <<row, reply, snap, alerts, faults, history>>

\* No store is connected, or they cannot be read: nothing is written, and the
\* answer is the current snapshot, or an empty state that has no row.
NoStores(b) ==
    /\ pc[b] = "insert"
    /\ reply' = [reply EXCEPT ![b] = "untouched"]
    /\ Goto(b, "release")
    /\ Fault
    /\ UNCHANGED <<row, store, history>>

\* The attempt failed; what it left behind is cleaned up next.
GiveUp(b) == Goto(b, "cleanAlerts") /\ reply' = [reply EXCEPT ![b] = "failed"]

\* A statement took effect: the build goes on, or its reply was lost.
Then(b, location) ==
    \/ Goto(b, location) /\ UNCHANGED <<reply, faults>>
    \/ GiveUp(b) /\ Fault

Insert(b) ==
    /\ pc[b] = "insert"
    /\ snap' = [snap EXCEPT ![b] = "inactive"]
    /\ Then(b, "alert")
    /\ UNCHANGED <<row, clock, at, alerts, history>>

Alert(b) ==
    /\ pc[b] = "alert"
    /\ snap[b] # "absent"
    /\ alerts' = alerts \cup {b}
    /\ Then(b, "retire")
    /\ UNCHANGED <<row, clock, at, snap, history>>

Retire(b) ==
    /\ pc[b] = "retire"
    /\ snap' = [s \in Snapshot |-> IF s \in Current THEN "inactive" ELSE snap[s]]
    /\ retirer' = b
    /\ Then(b, "promote")
    /\ UNCHANGED <<row, clock, at, alerts, overran, served, leftover>>

\* one current row per organization
IndexAllows == Current = {}

\* the update by id finds no row if the snapshot has been pruned
Promote(b) ==
    /\ pc[b] = "promote"
    /\ snap[b] = "absent" \/ IndexAllows
    /\ IF snap[b] = "absent"
       THEN UNCHANGED <<snap, served>>
       ELSE snap' = [snap EXCEPT ![b] = "current"] /\ served' = served \cup {b}
    /\ Then(b, "verify")
    /\ UNCHANGED <<row, clock, at, alerts, overran, retirer, leftover>>

\* What the foreign key of alert_queue and the unique index refuse.
Refused(b) ==
    \/ pc[b] = "alert" /\ snap[b] = "absent"
    \/ pc[b] = "promote" /\ snap[b] # "absent" /\ ~IndexAllows

Refuse(b) ==
    /\ Refused(b)
    /\ GiveUp(b)
    /\ UNCHANGED <<row, store, faults, history>>

\* a statement fails without effect
StatementFails(b) ==
    /\ pc[b] \in {"insert", "alert", "retire", "promote", "verify"}
    /\ GiveUp(b)
    /\ Fault
    /\ UNCHANGED <<row, store, history>>

\* Faulty variant: statements that raised nothing are taken for success.
Visible_Always(b) == TRUE

\* the post-condition gate
Visible(b) == snap[b] = "current"

Verify(b) ==
    /\ pc[b] = "verify"
    /\ IF Visible(b)
       THEN Goto(b, "prune") /\ reply' = [reply EXCEPT ![b] = "rebuilt"]
       ELSE GiveUp(b)
    /\ UNCHANGED <<row, store, faults, history>>

----------------------------------------------------------------------------
(* Retention and cleanup. *)

\* Faulty variant: the live snapshot is counted, and deleted, like the others.
Prunable_AnyRow ==
    LET old == {s \in Snapshot : snap[s] # "absent"}
    IN  {s \in old : Cardinality({t \in old : at[t] > at[s]}) >= Keep}

\* superseded rows beyond the newest Keep of them
Prunable ==
    LET old == {s \in Snapshot : snap[s] = "inactive"}
    IN  {s \in old : Cardinality({t \in old : at[t] > at[s]}) >= Keep}

\* A failure is swallowed.
Prune(b) ==
    /\ pc[b] = "prune"
    /\ \/ /\ snap' = [s \in Snapshot |-> IF s \in Prunable THEN "absent" ELSE snap[s]]
          /\ UNCHANGED faults
       \/ Fault /\ UNCHANGED snap
    /\ Goto(b, "release")
    /\ UNCHANGED <<row, reply, clock, at, alerts, history>>

\* Faulty variant: alerts raised by a failed build are left in the queue.
AlertsAfter_Kept(b) == alerts

\* Alerts are found by their state_id, which deleting the snapshot clears.
AlertsAfter(b) == IF snap[b] = "absent" THEN alerts ELSE alerts \ {b}

\* A cleanup that fails is logged, and the next one tried.
CleanAlerts(b) ==
    /\ pc[b] = "cleanAlerts"
    /\ \/ /\ alerts' = AlertsAfter(b)
          /\ leftover' = IF snap[b] = "absent" THEN leftover \cup {b} ELSE leftover
          /\ UNCHANGED faults
       \/ Fault /\ leftover' = leftover \cup {b} /\ UNCHANGED alerts
    /\ Goto(b, "cleanSnapshot")
    /\ UNCHANGED <<row, reply, clock, at, snap, overran, served, retirer>>

\* Faulty variant: the snapshot is deleted even if it became current.
Deletable_Any(b) == TRUE

Deletable(b) == snap[b] # "current"

CleanSnapshot(b) ==
    /\ pc[b] = "cleanSnapshot"
    /\ \/ /\ snap' = IF Deletable(b) THEN [snap EXCEPT ![b] = "absent"] ELSE snap
          /\ UNCHANGED <<faults, leftover>>
       \/ Fault /\ leftover' = leftover \cup {b} /\ UNCHANGED snap
    /\ Goto(b, "release")
    /\ UNCHANGED <<row, reply, clock, at, alerts, overran, served, retirer>>

----------------------------------------------------------------------------
(* Time and crashes. *)

\* The TTL of a claim passes; a build that still works outlives its lease.
Expire(b) ==
    /\ b \in fresh
    /\ fresh' = fresh \ {b}
    /\ IF Working(b)
       THEN Fault /\ overran' = overran \cup {b}
       ELSE UNCHANGED <<faults, overran>>
    /\ UNCHANGED <<lease, pc, reply, store, served, retirer, leftover>>

Crash(b) ==
    /\ Working(b)
    /\ Goto(b, "done")
    /\ Fault
    /\ UNCHANGED <<row, reply, store, history>>

Work(b) ==
    \/ Start(b) \/ Insert(b) \/ Alert(b) \/ Retire(b) \/ Promote(b) \/ Refuse(b)
    \/ Verify(b) \/ Prune(b) \/ CleanAlerts(b) \/ CleanSnapshot(b) \/ Release(b)

Fails(b) ==
    \/ ClaimReplyLost(b) \/ ReleaseFails(b) \/ NoStores(b) \/ StatementFails(b) \/ Crash(b)

Next == \E b \in Build : Acquire(b) \/ Work(b) \/ Fails(b) \/ Expire(b)

Spec == Init /\ [][Next]_vars

\* Builds go on, and the leases of those that are gone run out.  That a build is
\* asked for is not taken for granted: the scheduler serves one organization a
\* pass, those without a snapshot last (H7), and REV builds when a user asks.
FairSpec ==
    /\ Spec
    /\ \A b \in Build : WF_vars(Work(b)) /\ WF_vars(~Working(b) /\ Expire(b))

----------------------------------------------------------------------------
(* Properties. *)

\* The row is a leased lock, held by the builds that work: it is claimed only
\* when free or expired, and only its owner frees it.
LeaseImpl == INSTANCE Lease
    WITH Client <- Build, NoOne <- None, holder <- lease.token,
         active <- {b \in Build : Working(b)}
LeaseSpec == LeaseImpl!Spec

\* Hence two builds work at once only if one of them has outlived its lease
\* (_acquire_business_state_lock).
OneBuildPerLease == \A b, c \in fresh : Working(b) /\ Working(c) => b = c

\* A build that reports a rebuild has been served to readers with its alerts
\* (the post-condition gate), whatever happened to its rows meanwhile.
RebuiltWasServed ==
    \A b \in Build : reply[b] = "rebuilt" => b \in served /\ b \in alerts

\* An organization that had a snapshot is without one only while, or because,
\* the last build to retire it has not promoted its own: a build that reported
\* success never leaves the gap.
GapHasCulprit ==
    Current = {} /\ retirer # None => reply[retirer] # "rebuilt"

\* A build reports a rebuild only when it wrote a snapshot, as the docstring of
\* build_business_state_with_status says of its outcome "rebuilt".  Refuted: one
\* that finds no store writes nothing and reports the same.
RebuiltHasSnapshot ==
    \A b \in Build : reply[b] \in {"rebuilt", "untouched"} => b \in served

\* A failed build leaves no alert, and no row that never was current
\* (_compensate_failed_build), unless its cleanup failed or a prune deleted
\* the row under it, which takes the alerts out of the cleanup's reach.
CleanFailure ==
    \A b \in Build : pc[b] = "release" /\ reply[b] = "failed" /\ b \notin leftover
                      => b \notin alerts /\ (snap[b] = "inactive" => b \in served)

\* The live snapshot is never deleted, by a cleanup or by retention: it goes
\* only by being retired.
CurrentOnlyRetired ==
    [][\A s \in Snapshot : snap[s] = "current" => snap'[s] # "absent"]_vars

\* Readers go back to an older snapshot only if some build outlived its lease.
GoesBack(s) ==
    snap[s] # "current" /\ snap'[s] = "current" /\ \E t \in served : at[t] > at[s]

OnlyOverrunsGoBack ==
    [][(\E s \in Snapshot : GoesBack(s)) => overran # {}]_vars

\* the organization does not wait forever for its turn while it has no snapshot
AskedFor == WF_vars(Current = {} /\ \E b \in Build : Acquire(b))

\* Provided that it is asked for, the window without a snapshot heals: in the end
\* there is one, or every build of the model has been used.  No lease left behind
\* stops the next (_acquire_business_state_lock).
Heals == AskedFor => <>[](Current # {} \/ \A b \in Build : pc[b] = "done")
=============================================================================
