---------------------------- MODULE LeaseProofs ----------------------------
(* What holds of the two leased locks that live in automation_job_state and *)
(* of the work done under them: the snapshot builds of an organization      *)
(* (SnapshotBuild) and the jobs of the scheduler (JobLock).  For any number  *)
(* of builds, faults and leases outlived, any retention, and any number of  *)
(* processes, ticks and units.                                              *)
EXTENDS JobLock, SnapshotBuild, TLAPS

----------------------------------------------------------------------------
(* Snapshot builds. *)

Unwritten == {"idle", "start", "insert"}
BeforeVerify == Unwritten \cup {"alert", "retire", "promote", "verify"}
Alerted == {"retire", "promote", "verify", "prune"}

\* What is known of a build at each of its statements.
Shape(b) ==
    /\ pc[b] \in Unwritten => snap[b] = "absent"
    /\ pc[b] \in BeforeVerify => reply[b] = "none"
    /\ pc[b] \in {"cleanAlerts", "cleanSnapshot"} => reply[b] = "failed"
    /\ pc[b] = "prune" => reply[b] = "rebuilt"
    /\ pc[b] \in Alerted => b \in alerts
    /\ reply[b] = "rebuilt" => /\ pc[b] \in {"prune", "release", "done"}
                               /\ b \in served /\ b \in alerts

\* How far the cleanup of a failed build has come.
Clean(b) ==
    /\ pc[b] = "cleanSnapshot" /\ b \notin leftover => b \notin alerts
    /\ pc[b] = "release" /\ reply[b] = "failed" /\ b \notin leftover
          => b \notin alerts /\ (snap[b] = "inactive" => b \in served)

\* Until a build outlives its lease, whoever works holds the lease, alone.
Leased ==
    /\ lease.running <=> lease.token # None
    /\ overran = {} => \A b \in Build : Working(b) => lease.token = b /\ b \in fresh

\* Until then, its snapshot is also the latest.
Dated ==
    /\ \A s \in Snapshot : at[s] <= clock
    /\ overran = {} => \A b \in Build : Working(b) /\ pc[b] # "start" => at[b] = clock

IInv ==
    /\ TypeOK
    /\ \A b \in Build : Shape(b) /\ Clean(b)
    /\ Leased
    /\ Dated
    /\ Current \subseteq served
    /\ GapHasCulprit

-----------------------------------------------------------------------------
LEMMA InitIInv == Init => IInv
<1> SUFFICES ASSUME Init PROVE IInv
  OBVIOUS
<1> USE NamesAssumption DEF Init
<1>1. PICK row0 \in {"absent", "inactive", "current"} :
         /\ snap = [s \in Snapshot |-> IF s = First THEN row0 ELSE "absent"]
         /\ served = IF row0 = "absent" THEN {} ELSE {First}
  OBVIOUS
<1>2. /\ First \in Snapshot /\ snap[First] = row0
      /\ \A b \in Build : b \in Snapshot /\ snap[b] = "absent"
      /\ Current \subseteq {First} /\ Current \subseteq served /\ served \subseteq {First}
  BY <1>1 DEF Snapshot, Current
<1>3. TypeOK
  BY <1>1, <1>2, FaultsAssumption DEF TypeOK, Location, Reply
<1>4. \A b \in Build : Shape(b) /\ Clean(b)
  BY <1>2 DEF Shape, Clean, Unwritten, BeforeVerify, Alerted
<1>5. Leased /\ Dated /\ GapHasCulprit
  BY DEF Leased, Dated, GapHasCulprit, Working
<1> QED
  BY <1>2, <1>3, <1>4, <1>5 DEF IInv

\* The lease is taken only while no build works, or after one outlived it.
LEMMA ClaimStep ==
    ASSUME IInv, NEW b \in Build, Acquire(b) \/ ClaimReplyLost(b) PROVE IInv'
<1>1. TypeOK'
  <2>1. lease' = [running |-> TRUE, token |-> b]
    BY DEF Acquire, ClaimReplyLost, Claim
  <2>2. lease' \in [running : BOOLEAN, token : Build \cup {None}]
    BY <2>1
  <2>3. pc' \in [Build -> Location] /\ faults' \in 0..MaxFaults /\ fresh' \subseteq Build
    BY FaultsAssumption
    DEF IInv, TypeOK, Location, Acquire, ClaimReplyLost, Claim, Goto, Fault
  <2>4. UNCHANGED <<reply, store, history>>
    BY DEF Acquire, ClaimReplyLost, Claim
  <2> QED
    BY <2>2, <2>3, <2>4 DEF IInv, TypeOK, Current, store, history
<1> USE NamesAssumption DEF IInv, Acquire, ClaimReplyLost, Claim, Fault, Goto, Working,
        row, store, history
<1>2. \A c \in Build : Shape(c)' /\ Clean(c)'
  BY DEF TypeOK, Shape, Clean, Current, Snapshot, Unwritten, BeforeVerify, Alerted
<1>3. Leased' /\ Dated'
  BY DEF TypeOK, Claimable, Leased, Dated, Snapshot
<1>4. (Current \subseteq served /\ GapHasCulprit)'
  BY DEF TypeOK, GapHasCulprit, Current, Snapshot, Shape, Unwritten, BeforeVerify
<1> QED
  BY <1>1, <1>2, <1>3, <1>4

\* Steps that write no snapshot and end the build, or its work.
LEMMA EndStep ==
    ASSUME IInv, NEW b \in Build, Release(b) \/ ReleaseFails(b) \/ NoStores(b) \/ Crash(b)
    PROVE  IInv'
<1> USE NamesAssumption DEF IInv, Goto, Working, row, store, history
<1>1. TypeOK'
  <2>1. CASE Release(b)
    <3>1. lease' = lease \/ lease' = [running |-> FALSE, token |-> None]
      BY <2>1 DEF Release
    <3> QED
      BY <2>1, <3>1 DEF Release, TypeOK, Location, Current
  <2>2. CASE ReleaseFails(b) \/ NoStores(b) \/ Crash(b)
    BY <2>2, FaultsAssumption
    DEF ReleaseFails, NoStores, Crash, Fault, TypeOK, Location, Reply, Current
  <2> QED
    BY <2>1, <2>2
<1> USE DEF Release, Owns, ReleaseFails, NoStores, Crash, Fault
<1>2. \A c \in Build : Shape(c)' /\ Clean(c)'
  BY DEF TypeOK, Shape, Clean, Current, Snapshot, Unwritten, BeforeVerify, Alerted
<1>3. Leased' /\ Dated'
  BY DEF TypeOK, Leased, Dated, Snapshot
<1>4. (Current \subseteq served /\ GapHasCulprit)'
  BY DEF TypeOK, GapHasCulprit, Current, Snapshot, Shape, Unwritten, BeforeVerify
<1> QED
  BY <1>1, <1>2, <1>3, <1>4

\* The build's time stamp.
LEMMA StartStep == ASSUME IInv, NEW b \in Build, Start(b) PROVE IInv'
<1> USE NamesAssumption DEF IInv, Start, Goto, Working, row, store, history
<1>1. TypeOK'
  BY FaultsAssumption DEF TypeOK, Location, Reply, Current, Snapshot
<1>2. \A c \in Build : Shape(c)' /\ Clean(c)'
  BY DEF TypeOK, Shape, Clean, Current, Snapshot, Unwritten, BeforeVerify, Alerted
<1>3. Leased' /\ Dated'
  BY DEF TypeOK, Leased, Dated, Snapshot
<1>4. (Current \subseteq served /\ GapHasCulprit)'
  BY DEF TypeOK, GapHasCulprit, Current, Snapshot, Shape, Unwritten, BeforeVerify
<1> QED
  BY <1>1, <1>2, <1>3, <1>4

\* The rows nobody reads yet.
LEMMA InsertStep == ASSUME IInv, NEW b \in Build, Insert(b) \/ Alert(b) PROVE IInv'
<1> USE NamesAssumption DEF IInv, Insert, Alert, Then, GiveUp, Fault, Goto, Working,
        row, store, history
<1>1. TypeOK'
  BY FaultsAssumption DEF TypeOK, Location, Reply, Current, Snapshot
<1>2. \A c \in Build : Shape(c)' /\ Clean(c)'
  BY DEF TypeOK, Shape, Clean, Current, Snapshot, Unwritten, BeforeVerify, Alerted
<1>3. Leased' /\ Dated'
  BY DEF TypeOK, Leased, Dated, Snapshot
<1>4. (Current \subseteq served /\ GapHasCulprit)'
  BY DEF TypeOK, GapHasCulprit, Current, Snapshot, Shape, Unwritten, BeforeVerify
<1> QED
  BY <1>1, <1>2, <1>3, <1>4

\* The two statements that change what readers see.
LEMMA FlipStep == ASSUME IInv, NEW b \in Build, Retire(b) \/ Promote(b) PROVE IInv'
<1> USE NamesAssumption DEF IInv, Retire, Promote, IndexAllows, Then, GiveUp, Fault, Goto,
        Working, row, store, history
<1>1. TypeOK'
  BY FaultsAssumption DEF TypeOK, Location, Reply, Current, Snapshot
<1>2. \A c \in Build : Shape(c)' /\ Clean(c)'
  BY DEF TypeOK, Shape, Clean, Current, Snapshot, Unwritten, BeforeVerify, Alerted
<1>3. Leased' /\ Dated'
  BY DEF TypeOK, Leased, Dated, Snapshot
<1>4. (Current \subseteq served /\ GapHasCulprit)'
  BY DEF TypeOK, GapHasCulprit, Current, Snapshot, Shape, Unwritten, BeforeVerify
<1> QED
  BY <1>1, <1>2, <1>3, <1>4

\* Statements without effect.
LEMMA FailureStep == ASSUME IInv, NEW b \in Build, StatementFails(b) \/ Refuse(b) PROVE IInv'
<1> USE NamesAssumption DEF IInv, StatementFails, Refuse, Refused, GiveUp, Fault, Goto,
        Working, row, store, history
<1>1. TypeOK'
  BY FaultsAssumption DEF TypeOK, Location, Reply, Current, Snapshot
<1>2. \A c \in Build : Shape(c)' /\ Clean(c)'
  BY DEF TypeOK, Shape, Clean, Current, Snapshot, Unwritten, BeforeVerify, Alerted
<1>3. Leased' /\ Dated'
  BY DEF TypeOK, Leased, Dated, Snapshot
<1>4. (Current \subseteq served /\ GapHasCulprit)'
  BY DEF TypeOK, GapHasCulprit, Current, Snapshot, Shape, Unwritten, BeforeVerify
<1> QED
  BY <1>1, <1>2, <1>3, <1>4

\* The gate: only here does a build come to report success.
LEMMA VerifyStep == ASSUME IInv, NEW b \in Build, Verify(b) PROVE IInv'
<1> USE NamesAssumption DEF IInv, Verify, Visible, GiveUp, Goto, Working, row, store, history
<1>1. TypeOK'
  BY FaultsAssumption DEF TypeOK, Location, Reply, Current, Snapshot
<1>2. \A c \in Build : Shape(c)' /\ Clean(c)'
  BY DEF TypeOK, Shape, Clean, Current, Snapshot, Unwritten, BeforeVerify, Alerted
<1>3. Leased' /\ Dated'
  BY DEF TypeOK, Leased, Dated, Snapshot
<1>4. (Current \subseteq served /\ GapHasCulprit)'
  BY DEF TypeOK, GapHasCulprit, Current, Snapshot, Shape, Unwritten, BeforeVerify
<1> QED
  BY <1>1, <1>2, <1>3, <1>4

\* Cleanup.
LEMMA CleanStep == ASSUME IInv, NEW b \in Build, CleanAlerts(b) \/ CleanSnapshot(b) PROVE IInv'
<1> USE NamesAssumption DEF IInv, CleanAlerts, AlertsAfter, CleanSnapshot, Deletable, Fault,
        Goto, Working, row, store, history
<1>1. TypeOK'
  BY FaultsAssumption DEF TypeOK, Location, Reply, Current, Snapshot
<1>2. \A c \in Build : Shape(c)' /\ Clean(c)'
  BY DEF TypeOK, Shape, Clean, Current, Snapshot, Unwritten, BeforeVerify, Alerted
<1>3. Leased' /\ Dated'
  BY DEF TypeOK, Leased, Dated, Snapshot
<1>4. (Current \subseteq served /\ GapHasCulprit)'
  BY DEF TypeOK, GapHasCulprit, Current, Snapshot, Shape, Unwritten, BeforeVerify
<1> QED
  BY <1>1, <1>2, <1>3, <1>4

\* A lease runs out, perhaps under its build.
LEMMA ExpireStep == ASSUME IInv, NEW b \in Build, Expire(b) PROVE IInv'
<1> USE NamesAssumption DEF IInv, Expire, Fault, Goto, Working, row, store, history
<1>1. TypeOK'
  BY FaultsAssumption DEF TypeOK, Location, Reply, Current, Snapshot
<1>2. \A c \in Build : Shape(c)' /\ Clean(c)'
  BY DEF TypeOK, Shape, Clean, Current, Snapshot, Unwritten, BeforeVerify, Alerted
<1>3. Leased' /\ Dated'
  BY DEF TypeOK, Leased, Dated, Snapshot
<1>4. (Current \subseteq served /\ GapHasCulprit)'
  BY DEF TypeOK, GapHasCulprit, Current, Snapshot, Shape, Unwritten, BeforeVerify
<1> QED
  BY <1>1, <1>2, <1>3, <1>4

\* Pruning is a deletion of rows that are not current.
LEMMA PrunableInactive == \A s \in Prunable : snap[s] = "inactive"
  BY DEF Prunable

LEMMA PruneStep == ASSUME IInv, NEW b \in Build, Prune(b) PROVE IInv'
<1> DEFINE P == Prunable
<1>1. \A s \in P : snap[s] = "inactive"
  BY PrunableInactive
<1>2. \/ snap' = [s \in Snapshot |-> IF s \in P THEN "absent" ELSE snap[s]] /\ UNCHANGED faults
      \/ Fault /\ UNCHANGED snap
  BY DEF Prune
<1> HIDE DEF P
<1>3. /\ pc[b] = "prune" /\ Goto(b, "release")
      /\ UNCHANGED <<row, reply, clock, at, alerts, history>>
  BY DEF Prune
<1>4. \A s \in Snapshot : snap'[s] = snap[s] \/ (snap[s] = "inactive" /\ snap'[s] = "absent")
  BY <1>1, <1>2 DEF IInv, TypeOK
<1>5. snap' \in [Snapshot -> {"absent", "inactive", "current"}] /\ Current' = Current
  BY <1>2, <1>4 DEF IInv, TypeOK, Current
<1> USE DEF IInv, Goto, Working, row, history
<1>6. TypeOK'
  BY <1>2, <1>3, <1>5, FaultsAssumption DEF TypeOK, Location, Fault
<1>7. ASSUME NEW c \in Build PROVE Shape(c)' /\ Clean(c)'
  <2>1. /\ snap[c] = "absent" => snap'[c] = "absent"
        /\ snap'[c] = "inactive" => snap[c] = "inactive"
    BY <1>4 DEF Snapshot
  <2>2. Shape(c)'
    BY <1>3, <2>1 DEF TypeOK, Shape, Unwritten, BeforeVerify, Alerted
  <2>3. Clean(c)'
    BY <1>3, <2>1 DEF TypeOK, Shape, Clean
  <2> QED
    BY <2>2, <2>3
<1>8. Leased' /\ Dated'
  BY <1>3 DEF TypeOK, Leased, Dated, Snapshot
<1>9. (Current \subseteq served /\ GapHasCulprit)'
  BY <1>3, <1>5 DEF GapHasCulprit
<1> QED
  BY <1>6, <1>7, <1>8, <1>9

LEMMA Step == IInv /\ [Next]_vars => IInv'
<1> SUFFICES ASSUME IInv, [Next]_vars PROVE IInv'
  OBVIOUS
<1>1. CASE UNCHANGED vars
  BY <1>1
  DEF vars, row, store, history, IInv, TypeOK, Shape, Clean, Leased, Dated, GapHasCulprit,
      Current, Working
<1>2. ASSUME NEW b \in Build, Acquire(b) \/ Work(b) \/ Fails(b) \/ Expire(b) PROVE IInv'
  BY <1>2, ClaimStep, EndStep, StartStep, InsertStep, FlipStep, FailureStep, VerifyStep,
     CleanStep, PruneStep, ExpireStep
  DEF Work, Fails
<1> QED
  BY <1>1, <1>2 DEF Next

LEMMA Invariant == Spec => []IInv
  BY InitIInv, Step, PTL DEF Spec

-----------------------------------------------------------------------------

(* Types, and at most one current snapshot: the unique index refuses a second *)
(* one, and no statement but the promotion makes a row current.              *)
THEOREM TypeCorrect == Spec => []TypeOK
<1>1. IInv => TypeOK
  BY DEF IInv
<1> QED
  BY <1>1, Invariant, PTL

(* A build that reports a rebuild was served to readers and keeps its alerts, *)
(* however many other builds retired or pruned rows under it.                *)
THEOREM SuccessIsReal == Spec => []RebuiltWasServed
<1>1. IInv => RebuiltWasServed
  BY DEF IInv, RebuiltWasServed, Shape
<1> QED
  BY <1>1, Invariant, PTL

(* An organization without a snapshot owes it to a build that failed, died or *)
(* is still between its two flips, never to one that reported success.       *)
THEOREM GapsHaveCulprits == Spec => []GapHasCulprit
<1>1. IInv => GapHasCulprit
  BY DEF IInv
<1> QED
  BY <1>1, Invariant, PTL

(* The compensation of a failed build leaves neither alerts nor a row that    *)
(* never was current, unless one of its statements failed or missed.         *)
THEOREM FailuresAreClean == Spec => []CleanFailure
<1>1. IInv => CleanFailure
  BY DEF IInv, CleanFailure, Clean
<1> QED
  BY <1>1, Invariant, PTL

(* The live snapshot is never deleted: cleanup and retention look at          *)
(* is_current in the statement that deletes.                                 *)
THEOREM CurrentStays == Spec => CurrentOnlyRetired
<1> DEFINE Kept(s) == snap[s] = "current" => snap'[s] # "absent"
<1>1. ASSUME IInv, NEW b \in Build, Acquire(b) \/ Work(b) \/ Fails(b) \/ Expire(b),
             NEW s \in Snapshot
      PROVE  Kept(s)
  <2> USE DEF store
  <2>0. snap \in [Snapshot -> {"absent", "inactive", "current"}]
    BY <1>1 DEF IInv, TypeOK
  <2>1. CASE Prune(b)
    BY <2>0, <2>1, PrunableInactive DEF Prune
  <2>2. CASE CleanSnapshot(b)
    <3>1. snap' = snap \/ (snap[b] # "current" /\ snap' = [snap EXCEPT ![b] = "absent"])
      BY <2>2 DEF CleanSnapshot, Deletable
    <3> QED
      BY <2>0, <3>1
  <2>3. CASE Insert(b) \/ Retire(b) \/ Promote(b)
    BY <2>0, <2>3 DEF Insert, Retire, Promote
  <2>4. CASE UNCHANGED snap
    BY <2>4
  <2> QED
    BY <1>1, <2>1, <2>2, <2>3, <2>4
    DEF Acquire, Claim, Work, Fails, Expire, Start, Alert, Refuse, Verify, CleanAlerts, Release,
        ClaimReplyLost, ReleaseFails, NoStores, StatementFails, Crash
<1>2. IInv /\ [Next]_vars => [\A s \in Snapshot : Kept(s)]_vars
  BY <1>1 DEF Next
<1> QED
  BY <1>2, Invariant, PTL DEF Spec, CurrentOnlyRetired

(* As long as no build has outlived its lease, readers never go back to an    *)
(* older snapshot: the lease orders the time stamps as well as the flips.    *)
THEOREM NoGoingBack == Spec => OnlyOverrunsGoBack
<1>1. ASSUME IInv, NEW b \in Build, Acquire(b) \/ Work(b) \/ Fails(b) \/ Expire(b),
             NEW s \in Snapshot, GoesBack(s)
      PROVE  overran # {}
  <2> USE DEF GoesBack, store
  <2>0. /\ snap \in [Snapshot -> {"absent", "inactive", "current"}]
        /\ at \in [Snapshot -> Nat] /\ served \subseteq Snapshot /\ Dated
    BY <1>1 DEF IInv, TypeOK
  <2>1. CASE Prune(b)
    BY <1>1, <2>0, <2>1 DEF Prune
  <2>2. CASE CleanSnapshot(b)
    <3>1. snap' = snap \/ snap' = [snap EXCEPT ![b] = "absent"]
      BY <2>2 DEF CleanSnapshot
    <3> QED
      BY <1>1, <2>0, <3>1
  <2>3. CASE Insert(b) \/ Retire(b)
    BY <1>1, <2>0, <2>3 DEF Insert, Retire
  <2>4. CASE Promote(b)
    <3>1. s = b /\ pc[b] = "promote"
      BY <1>1, <2>0, <2>4 DEF Promote
    <3>2. overran = {} => at[b] = clock
      BY <2>0, <3>1 DEF Dated, Working
    <3>3. PICK t \in served : at[t] > at[b]
      BY <1>1, <3>1
    <3>4. at[t] <= clock /\ at[t] \in Nat /\ at[b] \in Nat /\ t \in Snapshot
      BY <2>0 DEF Dated, Snapshot
    <3> QED
      BY <3>2, <3>3, <3>4
  <2>5. CASE UNCHANGED snap
    BY <1>1, <2>5
  <2> QED
    BY <1>1, <2>1, <2>2, <2>3, <2>4, <2>5
    DEF Acquire, Claim, Work, Fails, Expire, Start, Alert, Refuse, Verify, CleanAlerts, Release,
        ClaimReplyLost, ReleaseFails, NoStores, StatementFails, Crash
<1>2. IInv /\ [Next]_vars => [(\E s \in Snapshot : GoesBack(s)) => overran # {}]_vars
  BY <1>1 DEF Next
<1> QED
  BY <1>2, Invariant, PTL DEF Spec, OnlyOverrunsGoBack

(* The row of a build is a leased lock: builds claim it only when it is free  *)
(* or expired, and only the recorded one frees it, whatever fails.           *)
THEOREM ImplementsLease == Spec => LeaseSpec
<1>1. Init => LeaseImpl!Init
  BY DEF Init, LeaseImpl!Init, Working
<1> DEFINE A == {c \in Build : Working(c)}
<1>2. ASSUME IInv, NEW b \in Build, Acquire(b) \/ Work(b) \/ Fails(b) \/ Expire(b)
      PROVE  [LeaseImpl!Next]_(LeaseImpl!vars)
  <2> USE DEF row, store, history
  <2>0. pc \in [Build -> Location] /\ (lease.running <=> lease.token # None)
    BY <1>2 DEF IInv, TypeOK, Leased
  <2>1. CASE Acquire(b) \/ ClaimReplyLost(b)
    <3>1. Claim(b) /\ (Goto(b, "start") \/ Goto(b, "done"))
      BY <2>1 DEF Acquire, ClaimReplyLost
    <3>2. LeaseImpl!Available
      BY <2>0, <3>1 DEF Claim, Claimable, LeaseImpl!Available
    <3>3. A' \in {A, A \cup {b}}
      BY <2>0, <3>1 DEF Claim, Goto, Working
    <3>4. lease'.token = b /\ fresh' = fresh \cup {b}
      BY <3>1 DEF Claim
    <3> QED
      BY <3>2, <3>3, <3>4 DEF LeaseImpl!Next, LeaseImpl!Take
  <2>2. CASE Release(b)
    <3>1. b \in A /\ A' = A \ {b} /\ fresh' = fresh
      BY <2>0, <2>2 DEF Release, Goto, Working
    <3>2. lease'.token = IF lease.token = b THEN None ELSE lease.token
      BY <2>2 DEF Release, Owns
    <3> QED
      BY <3>1, <3>2 DEF LeaseImpl!Next, LeaseImpl!GiveUp
  <2>3. CASE ReleaseFails(b) \/ Crash(b)
    <3>1. A' = A \ {b} /\ UNCHANGED row
      BY <2>0, <2>3 DEF ReleaseFails, Crash, Goto, Working
    <3> QED
      BY <3>1 DEF LeaseImpl!Next, LeaseImpl!Die
  <2>4. CASE Expire(b)
    BY <2>4 DEF Expire, Working, LeaseImpl!Next, LeaseImpl!Expire
  <2>5. CASE NoStores(b) \/ StatementFails(b) \/ (Work(b) /\ ~Release(b))
    <3>1. UNCHANGED row /\ \E l \in Location \ {"idle", "done"} : Working(b) /\ Goto(b, l)
      BY <2>0, <2>5
      DEF NoStores, StatementFails, Work, Start, Insert, Alert, Retire, Promote, Refuse, Refused,
          Verify, Prune, CleanAlerts, CleanSnapshot, Then, GiveUp, Working, Location
    <3>2. A' = A
      BY <2>0, <3>1 DEF Goto, Working
    <3> QED
      BY <3>1, <3>2 DEF LeaseImpl!vars
  <2> QED
    BY <1>2, <2>1, <2>2, <2>3, <2>4, <2>5 DEF Fails
<1>3. IInv /\ [Next]_vars => [LeaseImpl!Next]_(LeaseImpl!vars)
  <2>1. ASSUME UNCHANGED vars PROVE UNCHANGED LeaseImpl!vars
    BY <2>1 DEF vars, row, LeaseImpl!vars, Working
  <2> QED
    BY <1>2, <2>1 DEF Next
<1> QED
  BY <1>1, <1>3, Invariant, PTL DEF Spec, LeaseSpec, LeaseImpl!Spec

\* In a lease, whoever works inside its lease is the client recorded.
LEMMA LeaseRecords ==
  LeaseSpec => [](\A b \in Build : Working(b) /\ b \in fresh => lease.token = b)
<1> DEFINE A == {c \in Build : Working(c)}
           Recorded == \A b \in A \cap fresh : lease.token = b
<1>1. LeaseImpl!Init => Recorded
  BY DEF LeaseImpl!Init
<1>2. ASSUME Recorded, [LeaseImpl!Next]_(LeaseImpl!vars) PROVE Recorded'
  <2>1. ASSUME NEW c \in Build, LeaseImpl!Take(c) PROVE Recorded'
    BY <1>2, <2>1, NamesAssumption DEF LeaseImpl!Take, LeaseImpl!Available
  <2>2. ASSUME NEW c \in Build, LeaseImpl!GiveUp(c) PROVE Recorded'
    BY <1>2, <2>2 DEF LeaseImpl!GiveUp
  <2>3. ASSUME NEW c \in Build, LeaseImpl!Expire(c) PROVE Recorded'
    BY <1>2, <2>3 DEF LeaseImpl!Expire
  <2>4. ASSUME NEW S \in SUBSET Build, LeaseImpl!Die(S) PROVE Recorded'
    BY <1>2, <2>4 DEF LeaseImpl!Die
  <2>5. CASE UNCHANGED LeaseImpl!vars
    BY <1>2, <2>5 DEF LeaseImpl!vars
  <2> QED
    BY <1>2, <2>1, <2>2, <2>3, <2>4, <2>5 DEF LeaseImpl!Next
<1>3. Recorded => \A b \in Build : Working(b) /\ b \in fresh => lease.token = b
  OBVIOUS
<1> QED
  BY <1>1, <1>2, <1>3, PTL DEF LeaseSpec, LeaseImpl!Spec

(* Two builds never work at once inside their leases, whatever fails and     *)
(* whatever is outlived: all that the work of a build needs of its lease     *)
(* follows from the abstract one.                                            *)
THEOREM BuildsExclude == Spec => []OneBuildPerLease
<1>1. TypeOK /\ (\A b \in Build : Working(b) /\ b \in fresh => lease.token = b) => OneBuildPerLease
  BY DEF TypeOK, OneBuildPerLease
<1> QED
  BY <1>1, TypeCorrect, ImplementsLease, LeaseRecords, PTL

----------------------------------------------------------------------------
(* The job lock: types. *)

LEMMA OutcomeType == NoOutcome \in Outcome /\ PassOutcomes \subseteq Outcome
<1>1. 0 \in 0..Units
  BY UnitsAssumption
<1>2. NoOutcome \in Outcome
  BY <1>1 DEF NoOutcome, Outcome
<1>3. [NoOutcome EXCEPT !.threw = TRUE] \in Outcome
  BY <1>1 DEF NoOutcome, Outcome
<1> QED
  BY <1>2, <1>3 DEF PassOutcomes

LEMMA StatusType == \A o \in Outcome : PassStatus(o) \in Status \ {"running", "absent"}
  BY DEF PassStatus, DeriveJobStatus, Status

LEMMA TakeRowType ==
  ASSUME NEW i \in Invocation, JobTypeOK, TakeRow(i)
  PROVE  jobRow' \in Row /\ jobFresh' \subseteq Invocation /\ wiped' \subseteq Invocation
  BY DEF JobTypeOK, TakeRow, Row, Status

LEMMA RowEnsuredType == JobTypeOK => RowEnsured \in Row
  BY DEF JobTypeOK, RowEnsured, Row, Status

LEMMA JobStepType == JobTypeOK /\ [JobNext]_jobVars => JobTypeOK'
<1> SUFFICES ASSUME JobTypeOK, [JobNext]_jobVars PROVE JobTypeOK'
  OBVIOUS
<1>1. CASE UNCHANGED jobVars
  BY <1>1 DEF JobTypeOK, jobVars
<1>2. ASSUME NEW i \in Invocation, Tick(i) PROVE JobTypeOK'
  BY <1>2 DEF JobTypeOK, Tick, JobGoto, JobLocation
<1>3. ASSUME NEW i \in Invocation, EnsureJobRow(i) PROVE JobTypeOK'
  BY <1>3, RowEnsuredType DEF JobTypeOK, EnsureJobRow, JobGoto, JobLocation
<1>4. ASSUME NEW i \in Invocation, ClaimJob(i) PROVE JobTypeOK'
  <2>1. flag' \in [Instance -> BOOLEAN]
    BY <1>4, HostAssumption DEF ClaimJob, JobTypeOK
  <2> QED
    BY <1>4, <2>1, TakeRowType DEF JobTypeOK, ClaimJob, JobGoto, JobLocation
<1>5. ASSUME NEW i \in Invocation, ClaimRefused(i) PROVE JobTypeOK'
  BY <1>5 DEF JobTypeOK, ClaimRefused, JobGoto, JobLocation
<1>6. ASSUME NEW i \in Invocation, LockError(i) PROVE JobTypeOK'
  BY <1>6 DEF JobTypeOK, LockError, JobGoto, JobLocation
<1>7. ASSUME NEW i \in Invocation, ClaimJobReplyLost(i) PROVE JobTypeOK'
  BY <1>7, TakeRowType DEF JobTypeOK, ClaimJobReplyLost, JobGoto, JobLocation
<1>8. ASSUME NEW i \in Invocation, SkipEnsure(i) PROVE JobTypeOK'
  BY <1>8, RowEnsuredType DEF JobTypeOK, SkipEnsure, JobGoto, JobLocation
<1>9. ASSUME NEW i \in Invocation, RecordSkip(i) PROVE JobTypeOK'
  BY <1>9 DEF JobTypeOK, RecordSkip, JobGoto, JobLocation, Row, Status
<1>10. ASSUME NEW i \in Invocation, SkipFails(i) PROVE JobTypeOK'
  BY <1>10 DEF JobTypeOK, SkipFails, JobGoto, JobLocation
<1>11. ASSUME NEW i \in Invocation, NEW o \in PassOutcomes, EndPass(i, o)
       PROVE  JobTypeOK'
  <2>1. flag' \in [Instance -> BOOLEAN]
    BY <1>11, HostAssumption DEF EndPass, JobTypeOK
  <2> QED
    BY <1>11, <2>1, OutcomeType DEF JobTypeOK, EndPass, JobGoto, JobLocation
<1>12. ASSUME NEW i \in Invocation, ReleaseDbLock(i) PROVE JobTypeOK'
  <2>1. outcome[i] \in Outcome
    BY DEF JobTypeOK
  <2>2. jobRow' \in Row
    BY <1>12, <2>1, StatusType DEF JobTypeOK, ReleaseDbLock, Row, HasError
  <2> QED
    BY <1>12, <2>2, OutcomeType DEF JobTypeOK, ReleaseDbLock, Finished, JobGoto, JobLocation
<1>13. ASSUME NEW i \in Invocation, ReleaseDbLockFails(i) PROVE JobTypeOK'
  BY <1>13, OutcomeType DEF JobTypeOK, ReleaseDbLockFails, Finished, JobGoto, JobLocation
<1>14. ASSUME NEW i \in Invocation, Age(i) PROVE JobTypeOK'
  BY <1>14 DEF JobTypeOK, Age
<1>15. ASSUME NEW n \in Instance, ProcessCrash(n) PROVE JobTypeOK'
  BY <1>15, OutcomeType DEF JobTypeOK, ProcessCrash, JobLocation
<1> QED
  BY <1>1, <1>2, <1>3, <1>4, <1>5, <1>6, <1>7, <1>8, <1>9, <1>10, <1>11, <1>12,
     <1>13, <1>14, <1>15 DEF JobNext, LockStep

(* Every variable keeps its type: in particular the row's status stays one   *)
(* of the labels acquireDbLock, releaseDbLock and recordJobSkip can write.   *)
THEOREM JobTypeCorrect == JobSpec => []JobTypeOK
<1>1. JobInit => JobTypeOK
  BY OutcomeType DEF JobInit, JobTypeOK, Row, Status, JobLocation
<1> QED
  BY <1>1, JobStepType, PTL DEF JobSpec

----------------------------------------------------------------------------
(* The inductive invariant.  LiveClaimRecorded alone is preserved by a claim *)
(* only because a claimable row names no fresh claim, which needs to know    *)
(* that a row that is not running carries no token.                          *)
JobInv == JobTypeOK /\ TokenIffRunning /\ LiveClaimRecorded

LEMMA TakeRowLive ==
  ASSUME NEW i \in Invocation, JobInv, TakeRow(i)
  PROVE  /\ jobRow'.status = "running" /\ jobRow'.token = i
         /\ \A j \in Invocation : Active(j) => j \notin jobFresh \ wiped
  BY NoTokenAssumption DEF JobInv, JobTypeOK, TokenIffRunning,
         LiveClaimRecorded, TakeRow, JobClaimable, Active

LEMMA JobStep == JobInv /\ [JobNext]_jobVars => JobInv'
<1> SUFFICES ASSUME JobInv, [JobNext]_jobVars
             PROVE  (TokenIffRunning /\ LiveClaimRecorded)'
  BY JobStepType DEF JobInv
<1> USE DEF JobInv
<1>1. CASE UNCHANGED jobVars
  BY <1>1 DEF jobVars, TokenIffRunning, LiveClaimRecorded, Active
<1>2. ASSUME NEW i \in Invocation,
             Tick(i) \/ ClaimRefused(i) \/ LockError(i) \/ SkipFails(i)
      PROVE  (TokenIffRunning /\ LiveClaimRecorded)'
  BY <1>2 DEF JobTypeOK, TokenIffRunning, LiveClaimRecorded, Active, JobGoto,
              Tick, ClaimRefused, LockError, SkipFails
<1>3. ASSUME NEW i \in Invocation, EnsureJobRow(i) \/ SkipEnsure(i)
      PROVE  (TokenIffRunning /\ LiveClaimRecorded)'
  <2>1. /\ jobRow'.status = "running" <=> jobRow.status = "running"
        /\ jobRow'.token = jobRow.token
    BY <1>3 DEF EnsureJobRow, SkipEnsure, RowEnsured, JobTypeOK, Row
  <2> QED
    BY <1>3, <2>1 DEF EnsureJobRow, SkipEnsure, JobTypeOK, TokenIffRunning,
                      LiveClaimRecorded, Active, JobGoto
<1>4. ASSUME NEW i \in Invocation, ClaimJob(i) \/ ClaimJobReplyLost(i)
      PROVE  (TokenIffRunning /\ LiveClaimRecorded)'
  <2>1. TakeRow(i)
    BY <1>4 DEF ClaimJob, ClaimJobReplyLost
  <2>2. TokenIffRunning'
    BY <2>1, TakeRowLive, NoTokenAssumption DEF TokenIffRunning
  <2>3. ASSUME NEW j \in Invocation, Active(j)', j \in (jobFresh \ wiped)'
        PROVE  j = i
    <3>1. CASE j # i
      <4>1. Active(j) /\ j \in jobFresh \ wiped
        BY <1>4, <2>1, <2>3, <3>1
           DEF ClaimJob, ClaimJobReplyLost, TakeRow, Active, JobGoto, JobTypeOK
      <4> QED
        BY <2>1, <4>1, TakeRowLive
    <3> QED
      BY <3>1
  <2> QED
    BY <2>1, <2>2, <2>3, TakeRowLive DEF LiveClaimRecorded
<1>5. ASSUME NEW i \in Invocation, RecordSkip(i)
      PROVE  (TokenIffRunning /\ LiveClaimRecorded)'
  <2>1. TokenIffRunning'
    BY <1>5 DEF RecordSkip, TokenIffRunning
  <2>2. ASSUME NEW j \in Invocation, Active(j)', j \in (jobFresh \ wiped)' PROVE FALSE
    <3>1. Active(j) /\ j \in jobFresh \ wiped
      BY <1>5, <2>2 DEF RecordSkip, Active, JobGoto, JobTypeOK
    <3>2. jobRow.token = j
      BY <3>1 DEF LiveClaimRecorded
    <3> QED
      BY <1>5, <2>2, <3>2, NoTokenAssumption DEF RecordSkip
  <2> QED
    BY <2>1, <2>2 DEF LiveClaimRecorded
<1>6. ASSUME NEW i \in Invocation, NEW o \in PassOutcomes, EndPass(i, o)
      PROVE  (TokenIffRunning /\ LiveClaimRecorded)'
  BY <1>6 DEF EndPass, JobTypeOK, TokenIffRunning, LiveClaimRecorded, Active, JobGoto
<1>7. ASSUME NEW i \in Invocation, ReleaseDbLock(i)
      PROVE  (TokenIffRunning /\ LiveClaimRecorded)'
  <2>1. PassStatus(outcome[i]) # "running"
    BY StatusType DEF JobTypeOK
  <2>2. TokenIffRunning'
    BY <1>7, <2>1 DEF ReleaseDbLock, TokenIffRunning
  <2>3. ASSUME NEW j \in Invocation, Active(j)', j \in (jobFresh \ wiped)'
        PROVE  jobRow'.status = "running" /\ jobRow'.token = j
    <3>1. j # i /\ Active(j) /\ j \in jobFresh \ wiped
      BY <1>7, <2>3 DEF ReleaseDbLock, Finished, Active, JobGoto, JobTypeOK
    <3>2. jobRow.status = "running" /\ jobRow.token = j
      BY <3>1 DEF LiveClaimRecorded
    <3> QED
      BY <1>7, <3>1, <3>2 DEF ReleaseDbLock
  <2> QED
    BY <2>2, <2>3 DEF LiveClaimRecorded
<1>8. ASSUME NEW i \in Invocation, ReleaseDbLockFails(i)
      PROVE  (TokenIffRunning /\ LiveClaimRecorded)'
  BY <1>8 DEF ReleaseDbLockFails, Finished, JobTypeOK, TokenIffRunning, LiveClaimRecorded,
              Active, JobGoto
<1>9. ASSUME NEW i \in Invocation, Age(i)
      PROVE  (TokenIffRunning /\ LiveClaimRecorded)'
  BY <1>9 DEF Age, TokenIffRunning, LiveClaimRecorded, Active
<1>10. ASSUME NEW n \in Instance, ProcessCrash(n)
       PROVE  (TokenIffRunning /\ LiveClaimRecorded)'
  BY <1>10 DEF ProcessCrash, JobTypeOK, TokenIffRunning, LiveClaimRecorded, Active
<1> QED
  BY <1>1, <1>2, <1>3, <1>4, <1>5, <1>6, <1>7, <1>8, <1>9, <1>10 DEF JobNext, LockStep

LEMMA JobInitInv == JobInit => JobInv
<1>1. JobInit => JobTypeOK
  BY OutcomeType DEF JobInit, JobTypeOK, Row, Status, JobLocation
<1> QED
  BY <1>1 DEF JobInit, JobInv, TokenIffRunning, LiveClaimRecorded, Active

(* An active pass inside its lease is the one the row names, unless a skip   *)
(* record erased its token: whatever the number of instances, ticks, crashes *)
(* and lost replies, recordJobSkip is the only way two passes overlap.       *)
THEOREM LiveClaimsAreRecorded == JobSpec => []LiveClaimRecorded
<1>1. JobInv => LiveClaimRecorded
  BY DEF JobInv
<1> QED
  BY <1>1, JobInitInv, JobStep, PTL DEF JobSpec

(* "An instance can never release a lock that another instance has since     *)
(* taken over": a claim inside its lease leaves the row only by its own      *)
(* release or by a skip record (releaseDbLock, recordJobSkip).               *)
THEOREM OwnersRelease == JobSpec => OnlyOwnerReleases
<1>1. JobInv /\ [JobNext]_jobVars =>
        [\A i \in jobFresh :
            jobRow.token = i /\ jobRow'.token # i
              => (jobPc[i] = "releasing" /\ jobPc'[i] = "idle") \/ i \in wiped']_jobVars
  <2> SUFFICES ASSUME JobInv, JobNext, NEW i \in jobFresh,
                      jobRow.token = i, jobRow'.token # i
               PROVE  (jobPc[i] = "releasing" /\ jobPc'[i] = "idle") \/ i \in wiped'
    OBVIOUS
  <2>0. i \in Invocation /\ i # NoToken /\ jobPc \in [Invocation -> JobLocation]
    BY NoTokenAssumption DEF JobInv, JobTypeOK
  <2>1. ASSUME NEW j \in Invocation, EnsureJobRow(j) \/ SkipEnsure(j) PROVE FALSE
    BY <2>1 DEF EnsureJobRow, SkipEnsure, RowEnsured, JobInv, JobTypeOK, Row
  <2>2. ASSUME NEW j \in Invocation, ClaimJob(j) \/ ClaimJobReplyLost(j) PROVE FALSE
    <3>1. JobClaimable
      BY <2>2 DEF ClaimJob, ClaimJobReplyLost, TakeRow
    <3> QED
      BY <2>0, <3>1 DEF JobClaimable, JobInv, TokenIffRunning
  <2>3. ASSUME NEW j \in Invocation, RecordSkip(j) PROVE i \in wiped'
    BY <2>0, <2>3 DEF RecordSkip
  <2>4. ASSUME NEW j \in Invocation, ReleaseDbLock(j)
        PROVE  jobPc[i] = "releasing" /\ jobPc'[i] = "idle"
    <3>1. j = i
      BY <2>4 DEF ReleaseDbLock
    <3> QED
      BY <2>0, <2>4, <3>1 DEF ReleaseDbLock, Finished, JobGoto
  <2>5. ASSUME NEW j \in Invocation, NEW o \in PassOutcomes, EndPass(j, o) PROVE FALSE
    BY <2>5 DEF EndPass
  <2>6. ASSUME NEW j \in Invocation,
               Tick(j) \/ ClaimRefused(j) \/ LockError(j) \/ SkipFails(j) \/
               ReleaseDbLockFails(j) \/ Age(j)
        PROVE  FALSE
    BY <2>6 DEF Tick, ClaimRefused, LockError, SkipFails, ReleaseDbLockFails, Age
  <2>7. ASSUME NEW n \in Instance, ProcessCrash(n) PROVE FALSE
    BY <2>7 DEF ProcessCrash
  <2> QED
    BY <2>1, <2>2, <2>3, <2>4, <2>5, <2>6, <2>7 DEF JobNext, LockStep
<1> QED
  BY <1>1, JobInitInv, JobStep, PTL DEF JobSpec, OnlyOwnerReleases

LEMMA FlagStep == JobTypeOK /\ NoStuckFlag /\ [JobNext]_jobVars => NoStuckFlag'
<1> SUFFICES ASSUME JobTypeOK, NoStuckFlag, [JobNext]_jobVars,
                    NEW n \in Instance, flag'[n]
             PROVE  \E i \in Invocation : host[i] = n /\ jobPc'[i] = "working"
  BY DEF NoStuckFlag
<1> USE DEF JobTypeOK
<1>0. host \in [Invocation -> Instance]
  BY HostAssumption
<1>1. ASSUME flag[n], \A i \in Invocation : jobPc[i] = "working" /\ host[i] = n => jobPc'[i] = "working"
      PROVE  \E i \in Invocation : host[i] = n /\ jobPc'[i] = "working"
  BY <1>1 DEF NoStuckFlag
<1>2. CASE UNCHANGED jobVars
  BY <1>1, <1>2 DEF jobVars
<1>3. ASSUME NEW j \in Invocation,
             Tick(j) \/ EnsureJobRow(j) \/ ClaimRefused(j) \/ LockError(j) \/
             ClaimJobReplyLost(j) \/ SkipEnsure(j) \/ SkipFails(j) \/ RecordSkip(j) \/
             ReleaseDbLock(j) \/ ReleaseDbLockFails(j) \/ Age(j)
      PROVE  \E i \in Invocation : host[i] = n /\ jobPc'[i] = "working"
  <2>1. /\ flag' = flag
        /\ \A i \in Invocation : jobPc[i] = "working" => jobPc'[i] = "working"
    BY <1>3 DEF Tick, EnsureJobRow, ClaimRefused, LockError, ClaimJobReplyLost,
                SkipEnsure, SkipFails, RecordSkip, ReleaseDbLock, ReleaseDbLockFails,
                Finished, Age, JobGoto
  <2> QED
    BY <1>1, <2>1
<1>4. ASSUME NEW j \in Invocation, ClaimJob(j)
      PROVE  \E i \in Invocation : host[i] = n /\ jobPc'[i] = "working"
  <2>1. jobPc'[j] = "working" /\ \A i \in Invocation : i # j => jobPc'[i] = jobPc[i]
    BY <1>4 DEF ClaimJob, JobGoto
  <2>2. CASE host[j] = n
    BY <2>1, <2>2
  <2>3. CASE host[j] # n
    <3>1. flag[n]
      BY <1>0, <1>4, <2>3 DEF ClaimJob
    <3> QED
      BY <1>1, <2>1, <2>3, <3>1
  <2> QED
    BY <2>2, <2>3
<1>5. ASSUME NEW j \in Invocation, NEW o \in PassOutcomes, EndPass(j, o)
      PROVE  \E i \in Invocation : host[i] = n /\ jobPc'[i] = "working"
  <2>1. host[j] # n /\ flag[n]
    BY <1>0, <1>5 DEF EndPass
  <2>2. \A i \in Invocation : i # j => jobPc'[i] = jobPc[i]
    BY <1>5 DEF EndPass, JobGoto
  <2> QED
    BY <1>1, <2>1, <2>2
<1>6. ASSUME NEW m \in Instance, ProcessCrash(m)
      PROVE  \E i \in Invocation : host[i] = n /\ jobPc'[i] = "working"
  <2>1. m # n /\ flag[n]
    BY <1>6 DEF ProcessCrash
  <2>2. \A i \in Invocation : host[i] = n => jobPc'[i] = jobPc[i]
    BY <1>6, <2>1 DEF ProcessCrash
  <2> QED
    BY <1>1, <2>1, <2>2
<1> QED
  BY <1>2, <1>3, <1>4, <1>5, <1>6 DEF JobNext, LockStep

(* A process is told that it is running the pass only while it is: however   *)
(* a tick ends (refused, a lock error, a lost reply, a crash, the outer      *)
(* catch), no flag is left behind that would silence every later tick.       *)
THEOREM FlagsAreCleared == JobSpec => []NoStuckFlag
<1>1. JobInit => NoStuckFlag
  BY DEF JobInit, NoStuckFlag
<1> QED
  BY <1>1, FlagStep, JobTypeCorrect, PTL DEF JobSpec

----------------------------------------------------------------------------
(* The lock without skip records. *)

QuietInv == JobInv /\ wiped = {}

LEMMA QuietStep == QuietInv /\ [LockStep]_jobVars => QuietInv'
<1>1. [LockStep]_jobVars => [JobNext]_jobVars
  BY DEF JobNext
<1>2. ASSUME wiped = {}, [LockStep]_jobVars PROVE wiped' = {}
  BY <1>2 DEF LockStep, jobVars, Tick, EnsureJobRow, ClaimJob, ClaimRefused, LockError,
              ClaimJobReplyLost, TakeRow, SkipEnsure, SkipFails, EndPass,
              ReleaseDbLock, ReleaseDbLockFails, Age, ProcessCrash
<1> QED
  BY <1>1, <1>2, JobStep DEF QuietInv

LEMMA QuietInvariant == LockSpec => []QuietInv
<1>1. JobInit => QuietInv
  BY JobInitInv DEF JobInit, QuietInv
<1> QED
  BY <1>1, QuietStep, PTL DEF LockSpec

(* Two passes never run at once inside their leases: the claim of           *)
(* schedulerLocks.js is a mutual exclusion as long as nobody records a skip. *)
THEOREM MutualExclusion == LockSpec => []OnePassPerLease
<1>1. QuietInv => OnePassPerLease
  BY DEF QuietInv, JobInv, JobTypeOK, LiveClaimRecorded, OnePassPerLease
<1> QED
  BY <1>1, QuietInvariant, PTL

(* Every step of the lock is a step of the abstract lease or leaves it       *)
(* unchanged: a row is taken over only when it is free or its holder's TTL   *)
(* has passed, and only a release by its own token frees it.                 *)
THEOREM JobImplementsLease == LockSpec => JobLeaseSpec
<1>1. JobInit => JobLeaseImpl!Init
  BY DEF JobInit, JobLeaseImpl!Init, Active
<1>2. QuietInv /\ [LockStep]_jobVars => [JobLeaseImpl!Next]_(JobLeaseImpl!vars)
  <2> SUFFICES ASSUME QuietInv, [LockStep]_jobVars
               PROVE  [JobLeaseImpl!Next]_(JobLeaseImpl!vars)
    OBVIOUS
  <2> DEFINE A == {i \in Invocation : Active(i)}
  <2> USE DEF QuietInv, JobInv
  <2>0. jobPc \in [Invocation -> JobLocation]
    BY DEF JobTypeOK
  <2>1. CASE UNCHANGED jobVars
    BY <2>1 DEF jobVars, JobLeaseImpl!vars, Active
  <2>2. ASSUME NEW i \in Invocation,
               Tick(i) \/ ClaimRefused(i) \/ LockError(i) \/ SkipFails(i) \/
               EnsureJobRow(i) \/ SkipEnsure(i)
        PROVE  UNCHANGED JobLeaseImpl!vars
    <3>1. jobRow'.token = jobRow.token
      BY <2>2 DEF Tick, ClaimRefused, LockError, SkipFails, EnsureJobRow, SkipEnsure,
                  RowEnsured, JobTypeOK, Row
    <3>2. jobFresh' = jobFresh
      BY <2>2 DEF Tick, ClaimRefused, LockError, SkipFails, EnsureJobRow, SkipEnsure
    <3>3. \A j \in Invocation : Active(j)' <=> Active(j)
      BY <2>0, <2>2 DEF Tick, ClaimRefused, LockError, SkipFails, EnsureJobRow, SkipEnsure,
                  JobGoto, Active
    <3> QED
      BY <3>1, <3>2, <3>3 DEF JobLeaseImpl!vars
  <2>3. ASSUME NEW i \in Invocation, ClaimJob(i) \/ ClaimJobReplyLost(i)
        PROVE  JobLeaseImpl!Take(i)
    <3>1. TakeRow(i) /\ jobRow'.token = i
      BY <2>3 DEF ClaimJob, ClaimJobReplyLost, TakeRow
    <3>2. JobLeaseImpl!Available
      BY <3>1 DEF TakeRow, JobClaimable, TokenIffRunning, JobLeaseImpl!Available
    <3>3. A' \in {A, A \cup {i}}
      <4>1. CASE ClaimJob(i)
        BY <2>0, <4>1 DEF ClaimJob, JobGoto, Active
      <4>2. CASE ClaimJobReplyLost(i)
        BY <2>0, <4>2 DEF ClaimJobReplyLost, JobGoto, Active
      <4> QED
        BY <2>3, <4>1, <4>2
    <3> QED
      BY <3>1, <3>2, <3>3 DEF TakeRow, JobLeaseImpl!Take
  <2>4. ASSUME NEW i \in Invocation, NEW o \in PassOutcomes, EndPass(i, o)
        PROVE  UNCHANGED JobLeaseImpl!vars
    <3>1. \A j \in Invocation : Active(j)' <=> Active(j)
      BY <2>0, <2>4 DEF EndPass, JobGoto, Active
    <3> QED
      BY <2>4, <3>1 DEF EndPass, JobLeaseImpl!vars
  <2>5. ASSUME NEW i \in Invocation, ReleaseDbLock(i)
        PROVE  i \in A /\ JobLeaseImpl!GiveUp(i)
    <3>1. i \in A /\ A' = A \ {i}
      BY <2>0, <2>5 DEF ReleaseDbLock, Finished, JobGoto, Active
    <3>2. jobRow'.token = IF jobRow.token = i THEN NoToken ELSE jobRow.token
      BY <2>5 DEF ReleaseDbLock
    <3> QED
      BY <2>5, <3>1, <3>2 DEF ReleaseDbLock, JobLeaseImpl!GiveUp
  <2>6. ASSUME NEW i \in Invocation, ReleaseDbLockFails(i)
        PROVE  JobLeaseImpl!Die({i})
    <3>1. A' = A \ {i}
      BY <2>0, <2>6 DEF ReleaseDbLockFails, Finished, JobGoto, Active
    <3> QED
      BY <2>6, <3>1 DEF ReleaseDbLockFails, JobLeaseImpl!Die
  <2>7. ASSUME NEW i \in Invocation, Age(i)
        PROVE  JobLeaseImpl!Expire(i)
    BY <2>7 DEF Age, Active, JobLeaseImpl!Expire
  <2>8. ASSUME NEW n \in Instance, ProcessCrash(n)
        PROVE  JobLeaseImpl!Die({i \in Invocation : host[i] = n})
    <3>1. A' = A \ {i \in Invocation : host[i] = n}
      BY <2>0, <2>8 DEF ProcessCrash, Active
    <3> QED
      BY <2>8, <3>1 DEF ProcessCrash, JobLeaseImpl!Die
  <2> QED
    BY <2>1, <2>2, <2>3, <2>4, <2>5, <2>6, <2>7, <2>8 DEF LockStep, JobLeaseImpl!Next
<1> QED
  BY <1>1, <1>2, QuietInvariant, PTL DEF LockSpec, JobLeaseSpec, JobLeaseImpl!Spec
=============================================================================
