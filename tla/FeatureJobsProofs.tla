------------------------- MODULE FeatureJobsProofs -------------------------
(* What holds of the feature queue and the messages it sends for any number  *)
(* of jobs, carts, customers, workers and chains of syncs, and any caps.     *)
EXTENDS FeatureJobs, FiniteSetTheorems, TLAPS

----------------------------------------------------------------------------
(* Types.  A worker that is in a job has claimed one, a chain of a sync is   *)
(* counted as such, and the sequence a chain inserts into exists.            *)

ClaimRow == [job : Job \cup {None}, cart : Cart \cup {None},
             attempts : 0..MaxAttempts, sequence : Nat]

InHand ==
    /\ \A w \in Runner :
          /\ InJob(w) => claim[w].cart \in Cart
          /\ pc[w] = "inserting" => claim[w].sequence \in 1..sequences
    /\ \A w \in Worker : InJob(w) => claim[w].job \in Job
    /\ \A h \in Chain : Running(h) => h \in beside

Stored == IsFiniteSet(recent) /\ sends \subseteq Cart \X (1..sequences)

Typed == TypeOK /\ InHand /\ Stored

LEMMA RowTypes ==
    /\ NoClaim \in ClaimRow
    /\ \A r \in JobRow, n \in 0..MaxAttempts : FailedRow(r, n) \in JobRow
    /\ \A r \in JobRow : [r EXCEPT !.status = "completed", !.stale = FALSE] \in JobRow
<1>1. NoClaim \in ClaimRow
  BY BoundAssumption DEF NoClaim, ClaimRow
<1>2. \A r \in JobRow, n \in 0..MaxAttempts : FailedRow(r, n) \in JobRow
  BY DEF FailedRow, JobRow
<1>3. \A r \in JobRow : [r EXCEPT !.status = "completed", !.stale = FALSE] \in JobRow
  BY DEF JobRow
<1> QED
  BY <1>1, <1>2, <1>3

LEMMA Runners ==
    /\ Worker \subseteq Runner /\ Chain \subseteq Runner
    /\ \A h \in Chain : h \notin Worker
  BY WorkerAssumption DEF Runner

(* Steps that leave the rows of messages alone and move one worker or chain. *)
LEMMA MoveTyped ==
    ASSUME Typed, NEW w \in Runner, NEW l \in Location \ {"inserting"}, Goto(w, l),
           job' \in [Job -> JobRow],
           \/ UNCHANGED claim
           \/ \E c \in ClaimRow :
                 /\ claim' = [claim EXCEPT ![w] = c]
                 /\ \/ l \in {"off", "claiming"}
                    \/ c.cart \in Cart /\ (w \in Worker => c.job \in Job),
           l \in {"off", "claiming"} \/ InJob(w) \/ ~UNCHANGED claim,
           UNCHANGED <<sequences, sends, recent>>, snapshots' \in [Cart -> Nat],
           redis' \in BOOLEAN, lock' \in Worker \cup {None},
           owns' \subseteq Worker, disturbances' \in 0..MaxDisturbances, degraded' \in BOOLEAN,
           beside \subseteq beside', beside' \subseteq Chain,
           w \in Worker \/ InJob(w) \/ w \in beside',
           overrun' \subseteq Job, dropped' \subseteq Job
    PROVE  Typed'
<1>1. pc' \in [Runner -> Location]
  BY DEF Goto, Typed, TypeOK
<1>2. claim' \in [Runner -> ClaimRow]
  BY DEF Typed, TypeOK, ClaimRow
<1>3. InHand'
  <2> SUFFICES ASSUME NEW v \in Runner
               PROVE  /\ InJob(v)' => claim'[v].cart \in Cart
                      /\ v \in Worker /\ InJob(v)' => claim'[v].job \in Job
                      /\ v \in Chain /\ Running(v)' => v \in beside'
                      /\ pc'[v] = "inserting" => claim'[v].sequence \in 1..sequences
    BY Runners DEF InHand
  <2>1. CASE v = w
    <3>1. /\ InJob(w) => claim[w].cart \in Cart /\ Running(w)
          /\ w \in Worker /\ InJob(w) => claim[w].job \in Job
          /\ w \in Chain /\ Running(w) => w \in beside
      BY DEF Typed, InHand, InJob, Running
    <3>2. pc'[w] = l
      BY DEF Typed, TypeOK, Goto
    <3>3. v \in Chain => v \in beside'
      BY <2>1, <3>1, Runners
    <3>4. CASE UNCHANGED claim
      BY <2>1, <3>1, <3>2, <3>3, <3>4 DEF InJob
    <3>5. CASE ~UNCHANGED claim
      <4>1. PICK c \in ClaimRow :
               /\ claim' = [claim EXCEPT ![w] = c]
               /\ \/ l \in {"off", "claiming"}
                  \/ c.cart \in Cart /\ (w \in Worker => c.job \in Job)
        BY <3>5
      <4>2. claim'[w] = c
        BY <4>1 DEF Typed, TypeOK
      <4> QED
        BY <2>1, <3>2, <3>3, <4>1, <4>2 DEF InJob
    <3> QED
      BY <3>4, <3>5
  <2>2. CASE v # w
    <3>1. pc'[v] = pc[v] /\ claim'[v] = claim[v]
      BY <2>2 DEF Goto, Typed, TypeOK
    <3> QED
      BY <3>1 DEF Typed, InHand, InJob, Running
  <2> QED
    BY <2>1, <2>2
<1> QED
  BY <1>1, <1>2, <1>3 DEF Typed, TypeOK, ClaimRow, Stored

(* Steps that take a worker or a chain out of what it had in hand.           *)
LEMMA FreedTyped ==
    ASSUME Typed, NEW w \in Runner, NEW l \in {"off", "claiming"}, Goto(w, l),
           l = "off" \/ w \in Worker,
           claim' = [claim EXCEPT ![w] = NoClaim],
           UNCHANGED <<rowVars, beside>>, job' \in [Job -> JobRow],
           redis' \in BOOLEAN, lock' \in Worker \cup {None}, owns' \subseteq Worker,
           disturbances' \in 0..MaxDisturbances, degraded' \in BOOLEAN,
           overrun' \subseteq Job, dropped' \subseteq Job
    PROVE  Typed'
<1>1. pc' \in [Runner -> Location]
  BY DEF Goto, Typed, TypeOK, Location
<1>2. claim' \in [Runner -> ClaimRow]
  BY RowTypes DEF Typed, TypeOK, ClaimRow
<1>3. /\ pc'[w] = l /\ \A v \in Runner \ {w} : pc'[v] = pc[v] /\ claim'[v] = claim[v]
      /\ UNCHANGED <<beside, sequences>>
  BY DEF Goto, Typed, TypeOK, rowVars
<1>4. InHand'
  BY <1>3, Runners DEF Typed, InHand, InJob, Running
<1> QED
  BY <1>1, <1>2, <1>4 DEF Typed, TypeOK, ClaimRow, Stored, rowVars

(* Steps that move no worker and no message.                                 *)
LEMMA StillTyped ==
    ASSUME Typed, UNCHANGED <<pc, claim, snapshots, sequences, sends>>,
           job' \in [Job -> JobRow], recent' \subseteq recent,
           redis' \in BOOLEAN, lock' \in Worker \cup {None}, owns' \subseteq Worker,
           disturbances' \in 0..MaxDisturbances, degraded' \in BOOLEAN,
           UNCHANGED <<beside, overrun, dropped>>
    PROVE  Typed'
<1>1. IsFiniteSet(recent')
  BY FS_Subset DEF Typed, Stored
<1> QED
  BY <1>1 DEF Typed, TypeOK, InHand, InJob, Running, Stored

LEMMA DisturbType == TypeOK /\ (Disturb \/ UNCHANGED disturbances) => disturbances' \in 0..MaxDisturbances
  BY BoundAssumption DEF TypeOK, Disturb

LEMMA LockType ==
    ASSUME TypeOK, NEW w \in Worker, Unlock(w)
    PROVE  /\ redis' \in BOOLEAN /\ lock' \in Worker \cup {None}
           /\ owns' \subseteq Worker /\ degraded' \in BOOLEAN /\ UNCHANGED beside
<1>1. lock' = None \/ lock' = lock
  BY DEF Unlock
<1> QED
  BY <1>1 DEF TypeOK, Unlock

(* A send with the sequence its worker found or created, or none.            *)
LEMMA SendTyped ==
    ASSUME Typed, NEW w \in Runner, NEW l \in {"completing", "failing"},
           pc[w] = "inserting", Goto(w, l), NEW x, x = <<CartOf(w), claim[w].sequence>>,
           sends' = sends \cup {x}, recent' = recent \/ recent' = recent \cup {x},
           UNCHANGED <<job, claim, lockVars, snapshots, sequences, pastVars>>,
           disturbances' \in 0..MaxDisturbances
    PROVE  Typed'
<1>1. x \in Cart \X (1..sequences)
  <2>1. claim[w].cart \in Cart
    BY DEF Typed, InHand, InJob
  <2> QED
    BY <2>1 DEF Typed, InHand, CartOf
<1>2. sequences \in Nat /\ sends' \subseteq Cart \X (1..sequences) /\ recent' \subseteq sends'
  BY <1>1 DEF Typed, Stored, TypeOK
<1>3. IsFiniteSet(recent')
  <2>1. IsFiniteSet(recent)
    BY DEF Typed, Stored
  <2>2. IsFiniteSet(recent \cup {x})
    BY <2>1, FS_AddElement
  <2> QED
    BY <2>1, <2>2
<1>4. sends' \subseteq Cart \X Nat
  BY <1>2
<1>5. pc' \in [Runner -> Location]
  BY DEF Goto, Typed, TypeOK, Location
<1>6. InHand'
  <2>1. /\ pc'[w] = l /\ \A v \in Runner \ {w} : pc'[v] = pc[v]
        /\ UNCHANGED <<claim, sequences, beside>>
    BY DEF Typed, TypeOK, Goto, lockVars
  <2> QED
    BY <2>1, Runners DEF Typed, InHand, InJob, Running
<1> QED
  BY <1>2, <1>3, <1>4, <1>5, <1>6 DEF Typed, TypeOK, Stored, lockVars, pastVars

LEMMA StepTyped == Typed /\ [Next]_vars => Typed'
<1> SUFFICES ASSUME Typed, [Next]_vars PROVE Typed'
  OBVIOUS
<1>0. TypeOK /\ Worker \subseteq Runner /\ Chain \subseteq Runner
  BY Runners DEF Typed
<1>1. CASE UNCHANGED vars
  BY <1>1, <1>0, StillTyped DEF vars, TypeOK
<1>2. ASSUME NEW j \in Job, Ingest(j) PROVE Typed'
  <2>1. job' \in [Job -> JobRow]
    BY <1>2, <1>0 DEF TypeOK, Ingest, JobRow
  <2> QED
    BY <1>2, <1>0, <2>1, StillTyped DEF Ingest, lockVars, rowVars, pastVars, TypeOK
<1>3. ASSUME NEW j \in Job, Available(j) \/ Age(j) \/ AgeUnderWorker(j) PROVE Typed'
  <2>1. job' \in [Job -> JobRow]
    <3>1. [job[j] EXCEPT !.ready = TRUE] \in JobRow /\ [job[j] EXCEPT !.stale = TRUE] \in JobRow
      BY <1>0 DEF TypeOK, JobRow
    <3>2. \/ job' = [job EXCEPT ![j] = [job[j] EXCEPT !.ready = TRUE]]
          \/ job' = [job EXCEPT ![j] = [job[j] EXCEPT !.stale = TRUE]]
      BY <1>3 DEF Available, Age, AgeUnderWorker
    <3> QED
      BY <3>1, <3>2, <1>0 DEF TypeOK
  <2>2. disturbances' \in 0..MaxDisturbances
    BY <1>3, <1>0, DisturbType DEF Available, Age, AgeUnderWorker
  <2> QED
    BY <1>3, <1>0, <2>1, <2>2, StillTyped
    DEF Available, Age, AgeUnderWorker, lockVars, rowVars, pastVars, TypeOK
<1>4. ASSUME NEW w \in Worker, StartPass(w) PROVE Typed'
  <2>1. redis' \in BOOLEAN /\ lock' \in Worker \cup {None} /\ owns' \subseteq Worker
        /\ degraded' \in BOOLEAN /\ UNCHANGED beside
    BY <1>4, <1>0 DEF StartPass, TypeOK
  <2> QED
    BY <1>4, <1>0, <2>1, MoveTyped DEF StartPass, rowVars, pastVars, TypeOK, Location
<1>5. ASSUME NEW w \in Worker, EndPass(w) PROVE Typed'
  BY <1>5, <1>0, LockType, MoveTyped DEF EndPass, rowVars, pastVars, TypeOK, Location
<1>6. ASSUME NEW w \in Worker, NEW j \in Job, ClaimJob(w, j) PROVE Typed'
  <2>1. job[j].attempts + 1 \in 0..MaxAttempts /\ job[j] \in JobRow
    BY <1>6, <1>0, BoundAssumption DEF TypeOK, JobRow, ClaimJob, Claimable
  <2>2. job' \in [Job -> JobRow]
    <3>1. job' = [job EXCEPT ![j] = job'[j]]
      BY <1>6, <1>0 DEF ClaimJob, TypeOK
    <3>2. job'[j] \in JobRow
      BY <1>6, <1>0, <2>1 DEF ClaimJob, JobRow, TypeOK
    <3> QED
      BY <3>1, <3>2, <1>0 DEF TypeOK
  <2> DEFINE c == [job |-> j, cart |-> cartOf[j], attempts |-> job[j].attempts + 1,
                   sequence |-> 0]
  <2>3. c \in ClaimRow /\ c.job \in Job /\ c.cart \in Cart
    BY <2>1, CartAssumption DEF ClaimRow
  <2>4. claim' = [claim EXCEPT ![w] = c] /\ Goto(w, "computing")
    BY <1>6 DEF ClaimJob
  <2>5. overrun' \subseteq Job
    BY <1>6, <1>0 DEF ClaimJob, TypeOK
  <2> HIDE DEF c
  <2>7. pc' \in [Runner -> Location] /\ claim' \in [Runner -> ClaimRow]
    BY <1>0, <2>3, <2>4 DEF Goto, TypeOK, ClaimRow, Location
  <2>8. InHand'
    <3>1. /\ claim'[w] = c /\ pc'[w] = "computing"
          /\ \A v \in Runner \ {w} : claim'[v] = claim[v] /\ pc'[v] = pc[v]
          /\ UNCHANGED <<beside, sequences>>
      BY <1>0, <1>6, <2>4 DEF Goto, TypeOK, ClaimJob, rowVars, lockVars
    <3> QED
      BY <1>0, <2>3, <3>1, Runners DEF Typed, InHand, InJob, Running
  <2> QED
    BY <1>6, <1>0, <2>2, <2>5, <2>7, <2>8
    DEF ClaimJob, Typed, TypeOK, Stored, ClaimRow, lockVars, rowVars
<1>7. ASSUME NEW w \in Runner, NEW l \in Location \ {"inserting"}, InJob(w), Goto(w, l),
             UNCHANGED <<job, claim, lockVars, sequences, sends, recent, disturbances, pastVars>>,
             snapshots' \in [Cart -> Nat]
      PROVE  Typed'
  BY <1>7, <1>0, MoveTyped DEF lockVars, pastVars, TypeOK
<1>8. ASSUME NEW w \in Runner,
             ComputeFeatures(w) \/ Predict(w) \/ CheckLimits(w) \/ TimingFails(w)
      PROVE  Typed'
  <2>1. snapshots' \in [Cart -> Nat] /\ InJob(w)
    BY <1>8, <1>0 DEF ComputeFeatures, Predict, CheckLimits, TimingFails, Advance, rowVars,
                      TypeOK, InJob
  <2>2. PICK l \in Location \ {"inserting"} : Goto(w, l)
    BY <1>8 DEF ComputeFeatures, Predict, CheckLimits, TimingFails, Advance, Location
  <2> QED
    BY <1>7, <1>8, <2>1, <2>2
    DEF ComputeFeatures, Predict, CheckLimits, TimingFails, Advance, rowVars
<1>9. ASSUME NEW w \in Worker, CreateSnapshot(w) PROVE Typed'
  <2>1. claim[w].cart \in Cart /\ InJob(w)
    BY <1>0, <1>9 DEF CreateSnapshot, Advance, InJob, Typed, InHand
  <2>2. CartOf(w) \in Cart
    BY <2>1 DEF CartOf
  <2>3. snapshots' \in [Cart -> Nat]
    BY <1>9, <1>0, <2>2 DEF CreateSnapshot, TypeOK
  <2> QED
    BY <1>0, <1>7, <1>9, <2>1, <2>3 DEF CreateSnapshot, Advance, Location
<1>10. ASSUME NEW w \in Runner, FindSequence(w) \/ CreateSequence(w) PROVE Typed'
  <2>1. sequences' \in Nat /\ sequences <= sequences' /\ InJob(w) /\ claim[w].cart \in Cart
    BY <1>10, <1>0 DEF FindSequence, CreateSequence, rowVars, TypeOK, InJob, Typed, InHand
  <2>2. pc' \in [Runner -> Location]
    BY <1>10, <1>0 DEF FindSequence, CreateSequence, Goto, TypeOK, Location
  <2>3. UNCHANGED claim \/ \E n \in 1..sequences' : claim' = [claim EXCEPT ![w].sequence = n]
    <3>1. CASE FindSequence(w)
      <4>1. sequences # 0 => 1 \in 1..sequences'
        BY <3>1, <2>1, <1>0 DEF FindSequence, rowVars, TypeOK
      <4> QED
        BY <3>1, <4>1 DEF FindSequence
    <3>2. CASE CreateSequence(w)
      <4>1. sequences + 1 = sequences' /\ sequences' \in 1..sequences'
        BY <3>2, <1>0 DEF CreateSequence, TypeOK
      <4> QED
        BY <3>2, <4>1 DEF CreateSequence
    <3> QED
      BY <1>10, <3>1, <3>2
  <2>4. /\ claim' \in [Runner -> ClaimRow]
        /\ \A v \in Runner : claim'[v].job = claim[v].job /\ claim'[v].cart = claim[v].cart
    <3>1. claim \in [Runner -> ClaimRow]
      BY <1>0 DEF TypeOK, ClaimRow
    <3>2. ASSUME NEW n \in 1..sequences', claim' = [claim EXCEPT ![w].sequence = n]
          PROVE  claim' \in [Runner -> ClaimRow]
                 /\ \A v \in Runner : /\ claim'[v].job = claim[v].job
                                      /\ claim'[v].cart = claim[v].cart
      <4>1. [claim[w] EXCEPT !.sequence = n] \in ClaimRow
            /\ [claim[w] EXCEPT !.sequence = n].job = claim[w].job
            /\ [claim[w] EXCEPT !.sequence = n].cart = claim[w].cart
        BY <3>1, <2>1 DEF ClaimRow
      <4>2. claim' = [claim EXCEPT ![w] = [claim[w] EXCEPT !.sequence = n]]
        BY <3>2
      <4> QED
        BY <3>1, <4>1, <4>2
    <3> QED
      BY <2>3, <3>1, <3>2
  <2>5. pc'[w] = "inserting" => claim'[w].sequence \in 1..sequences'
    BY <1>10, <1>0, <2>1 DEF FindSequence, CreateSequence, Goto, rowVars, TypeOK
  <2>6. /\ \A v \in Runner \ {w} : pc'[v] = pc[v] /\ claim'[v] = claim[v]
        /\ UNCHANGED beside
    BY <1>10, <1>0 DEF FindSequence, CreateSequence, Goto, TypeOK, lockVars
  <2>7. 1..sequences \subseteq 1..sequences'
    BY <2>1, <1>0 DEF TypeOK
  <2>8. InHand'
    <3>1. \A v \in Runner : InJob(v)' => claim'[v].cart \in Cart
      BY <2>1, <2>4, <2>6 DEF Typed, InHand, InJob
    <3>2. \A v \in Runner : pc'[v] = "inserting" => claim'[v].sequence \in 1..sequences'
      BY <2>5, <2>6, <2>7 DEF Typed, InHand
    <3>3. \A v \in Worker : InJob(v)' => claim'[v].job \in Job
      BY <1>0, <2>1, <2>4, <2>6 DEF Typed, InHand, InJob
    <3>4. \A h \in Chain : Running(h)' => h \in beside'
      BY <1>0, <2>1, <2>6 DEF Typed, InHand, InJob, Running
    <3> QED
      BY <3>1, <3>2, <3>3, <3>4 DEF InHand
  <2>9. Stored'
    <3>1. sends' = sends /\ recent' = recent
      BY <1>10 DEF FindSequence, CreateSequence, rowVars
    <3> QED
      BY <3>1, <2>7 DEF Typed, Stored
  <2> QED
    BY <1>10, <1>0, <2>1, <2>2, <2>4, <2>8, <2>9
    DEF FindSequence, CreateSequence, Typed, TypeOK, ClaimRow, lockVars, rowVars, pastVars
<1>11. ASSUME NEW w \in Runner, InsertSend(w) PROVE Typed'
  BY <1>11, <1>0, SendTyped DEF InsertSend, Advance, TypeOK
<1>12. ASSUME NEW w \in Worker, CompleteJob(w) \/ FailJob(w) PROVE Typed'
  <2>1. claim[w].job \in Job /\ claim[w].attempts \in 0..MaxAttempts
    BY <1>12, <1>0 DEF CompleteJob, FailJob, Typed, InHand, InJob, TypeOK
  <2>2. job[claim[w].job] \in JobRow
    BY <2>1, <1>0 DEF TypeOK
  <2>3. PICK r \in JobRow : Settle(w, r)
    BY <1>12, <2>1, <2>2, RowTypes DEF CompleteJob, FailJob
  <2>4. job' \in [Job -> JobRow]
    BY <2>1, <2>3, <1>0 DEF Settle, TypeOK
  <2>5. claim' = [claim EXCEPT ![w] = NoClaim] /\ NoClaim \in ClaimRow /\ Goto(w, "claiming")
    BY <2>3, RowTypes DEF Settle
  <2>6. UNCHANGED <<lockVars, rowVars, disturbances, pastVars>>
    BY <1>12 DEF CompleteJob, FailJob
  <2> QED
    BY <1>0, <2>4, <2>5, <2>6, FreedTyped DEF lockVars, pastVars, TypeOK
<1>13. ASSUME NEW w \in Runner, JobThrows(w) PROVE Typed'
  <2>1. disturbances' \in 0..MaxDisturbances
    BY <1>13, <1>0, DisturbType DEF JobThrows
  <2>2. CASE UNCHANGED rowVars
    BY <1>13, <1>0, <2>1, <2>2, MoveTyped
    DEF JobThrows, lockVars, rowVars, pastVars, TypeOK, Location
  <2>3. CASE ~UNCHANGED rowVars
    BY <1>13, <1>0, <2>1, <2>3, SendTyped DEF JobThrows
  <2> QED
    BY <2>2, <2>3
<1>14. ASSUME NEW w \in Worker, Leave(w), Disturb, redis' \in BOOLEAN,
              lock' \in Worker \cup {None}, owns' \subseteq Worker, degraded' \in BOOLEAN,
              UNCHANGED beside
       PROVE  Typed'
  <2>1. dropped' \subseteq Job
    BY <1>14, <1>0 DEF Leave, TypeOK, Typed, InHand
  <2>2. claim' = [claim EXCEPT ![w] = NoClaim] /\ NoClaim \in ClaimRow /\ Goto(w, "off")
    BY <1>14, RowTypes DEF Leave
  <2>3. UNCHANGED <<job, rowVars, overrun>> /\ disturbances' \in 0..MaxDisturbances
    BY <1>14, <1>0, DisturbType DEF Leave
  <2> QED
    BY <1>14, <1>0, <2>1, <2>2, <2>3, FreedTyped DEF TypeOK
<1>15. ASSUME NEW w \in Worker, FailJobThrows(w) \/ Crash(w) PROVE Typed'
  <2>1. redis' \in BOOLEAN /\ lock' \in Worker \cup {None} /\ owns' \subseteq Worker
        /\ degraded' \in BOOLEAN /\ UNCHANGED beside
    BY <1>15, <1>0, LockType DEF FailJobThrows, Crash, TypeOK
  <2> QED
    BY <1>14, <1>15, <2>1 DEF FailJobThrows, Crash
<1>16. CASE DayPasses
  <2>1. disturbances' \in 0..MaxDisturbances
    BY <1>16, <1>0, DisturbType DEF DayPasses
  <2> QED
    BY <1>16, <1>0, <2>1, StillTyped DEF DayPasses, lockVars, pastVars, TypeOK
<1>18. ASSUME NEW h \in Chain, NEW c \in Cart, BeginChain(h, c) PROVE Typed'
  <2> DEFINE t == [claim[h] EXCEPT !.cart = c]
  <2>1. t \in ClaimRow /\ t.cart = c /\ claim' = [claim EXCEPT ![h] = t]
    BY <1>18, <1>0 DEF BeginChain, TypeOK, ClaimRow
  <2>2. disturbances' \in 0..MaxDisturbances /\ h \notin Worker
    BY <1>18, <1>0, DisturbType, Runners DEF BeginChain
  <2>3. /\ h \in beside' /\ beside \subseteq beside' /\ beside' \subseteq Chain
        /\ Goto(h, "predicting")
        /\ UNCHANGED <<job, redis, lock, owns, degraded, rowVars, pastVars>>
    BY <1>18, <1>0 DEF BeginChain, TypeOK
  <2> HIDE DEF t
  <2>4. /\ pc' \in [Runner -> Location] /\ claim' \in [Runner -> ClaimRow]
        /\ pc'[h] = "predicting" /\ claim'[h] = t
        /\ \A v \in Runner \ {h} : pc'[v] = pc[v] /\ claim'[v] = claim[v]
    BY <1>0, <2>1, <2>3 DEF Goto, TypeOK, ClaimRow, Location
  <2>5. InHand'
    BY <1>0, <2>1, <2>2, <2>3, <2>4 DEF Typed, InHand, InJob, Running, rowVars
  <2> QED
    BY <1>0, <2>2, <2>3, <2>4, <2>5 DEF Typed, TypeOK, Stored, ClaimRow, rowVars, pastVars
<1>19. ASSUME NEW h \in Chain, EndChain(h) PROVE Typed'
  <2>1. claim' = [claim EXCEPT ![h] = NoClaim] /\ NoClaim \in ClaimRow /\ Goto(h, "off")
    BY <1>19, RowTypes DEF EndChain
  <2>2. UNCHANGED <<job, lockVars, rowVars, disturbances, pastVars>>
    BY <1>19 DEF EndChain
  <2> QED
    BY <1>0, <2>1, <2>2, FreedTyped DEF lockVars, pastVars, TypeOK
<1>17. CASE LockExpires \/ LockExpiresEarly \/ RedisGoes \/ RedisReturns
  <2>1. disturbances' \in 0..MaxDisturbances
    BY <1>17, <1>0, DisturbType DEF LockExpires, LockExpiresEarly, RedisGoes, RedisReturns
  <2> QED
    BY <1>17, <1>0, <2>1, StillTyped
    DEF LockExpires, LockExpiresEarly, RedisGoes, RedisReturns, rowVars, pastVars, TypeOK
<1> QED
  BY <1>0, <1>1, <1>2, <1>3, <1>4, <1>5, <1>6, <1>8, <1>9, <1>10, <1>11, <1>12, <1>13,
     <1>15, <1>16, <1>17, <1>18, <1>19 DEF Next, Work, ChainStep

(* Every variable keeps its type; a message belongs to a sequence there is.  *)
THEOREM TypeCorrect == Spec => []Typed
<1>1. Init => Typed
  <2> SUFFICES ASSUME Init PROVE Typed
    OBVIOUS
  <2>1. IsFiniteSet(recent) /\ sends \subseteq Cart \X (1..sequences)
    BY FS_EmptySet DEF Init
  <2>2. InHand
    BY Runners DEF Init, InHand, InJob, Running
  <2>3. claim \in [Runner -> ClaimRow]
    <3>1. NoClaim \in ClaimRow
      BY RowTypes
    <3> QED
      BY <3>1 DEF Init
  <2>4. job \in [Job -> JobRow]
    BY BoundAssumption DEF Init, JobRow
  <2>5. /\ pc \in [Runner -> Location] /\ beside \subseteq Chain /\ redis \in BOOLEAN /\ lock \in Worker \cup {None}
        /\ owns \subseteq Worker /\ snapshots \in [Cart -> Nat] /\ degraded \in BOOLEAN
    BY DEF Init, Location
  <2>6. /\ sequences \in Nat /\ sends \subseteq Cart \X Nat /\ recent \subseteq sends
        /\ disturbances \in 0..MaxDisturbances /\ overrun \subseteq Job /\ dropped \subseteq Job
    BY BoundAssumption DEF Init
  <2> QED
    BY <2>1, <2>2, <2>3, <2>4, <2>5, <2>6 DEF Typed, TypeOK, Stored, ClaimRow
<1> QED
  BY <1>1, StepTyped, PTL DEF Spec

----------------------------------------------------------------------------
(* The lock.  Until a pass starts without it or outlives it, whoever runs a  *)
(* pass holds it, so at most one does.                                       *)

Exclusive == degraded \/ \A w \in Worker : Running(w) => lock = w /\ w \in owns

LEMMA StepExclusive == Typed /\ Exclusive /\ [Next]_vars => Exclusive'
<1> SUFFICES ASSUME Typed, Exclusive, [Next]_vars PROVE Exclusive'
  OBVIOUS
<1>0. TypeOK
  BY DEF Typed
<1>1. ASSUME UNCHANGED lockVars, \A w \in Worker : Running(w)' => Running(w)
      PROVE  Exclusive'
  BY <1>1 DEF Exclusive, lockVars
<1>2. CASE UNCHANGED vars
  BY <1>1, <1>2 DEF vars, lockVars, Running
<1>3. ASSUME NEW w \in Worker, StartPass(w) PROVE Exclusive'
  <2>1. CASE redis
    <3>1. degraded \/ \A v \in Worker : ~Running(v)
      BY <1>3, <2>1, NoneAssumption DEF Exclusive, StartPass
    <3>2. \A v \in Worker : v # w => pc'[v] = pc[v]
      BY <1>3, <1>0, Runners DEF StartPass, Goto, TypeOK
    <3> QED
      BY <1>3, <2>1, <3>1, <3>2 DEF StartPass, Exclusive, Running
  <2>2. CASE ~redis
    BY <1>3, <2>2 DEF StartPass, Exclusive
  <2> QED
    BY <2>1, <2>2
<1>4. ASSUME NEW w \in Worker, Running(w), Goto(w, "off"), UNCHANGED degraded,
             owns' = owns \ {w}
      PROVE  Exclusive'
  <2>1. \A v \in Worker : Running(v)' => Running(v) /\ v # w
    BY <1>4, <1>0, Runners DEF Goto, Running, TypeOK
  <2> QED
    BY <1>4, <2>1 DEF Exclusive
<1>5. ASSUME NEW w \in Worker, EndPass(w) \/ FailJobThrows(w) \/ Crash(w) PROVE Exclusive'
  BY <1>4, <1>5 DEF EndPass, FailJobThrows, Crash, Leave, Unlock, Running
<1>6. ASSUME NEW w \in Runner, InJob(w) \/ pc[w] = "claiming", UNCHANGED lockVars,
             \E l \in Location : Goto(w, l)
      PROVE  Exclusive'
  <2>1. \A v \in Worker : Running(v)' => Running(v)
    BY <1>6, <1>0, Runners DEF Goto, Running, InJob, TypeOK
  <2> QED
    BY <1>1, <1>6, <2>1
<1>7. ASSUME NEW w \in Worker, NEW j \in Job, ClaimJob(w, j) PROVE Exclusive'
  BY <1>6, <1>7, Runners DEF ClaimJob, Location
<1>8. ASSUME NEW w \in Runner, ChainStep(w) PROVE Exclusive'
  <2>1. InJob(w) /\ UNCHANGED lockVars
    BY <1>8 DEF ChainStep, Predict, CheckLimits, TimingFails, FindSequence, CreateSequence,
       InsertSend, Advance, InJob
  <2>2. \E l \in Location : Goto(w, l)
    BY <1>8 DEF ChainStep, Predict, CheckLimits, TimingFails, FindSequence, CreateSequence,
       InsertSend, Advance, Location
  <2> QED
    BY <1>6, <2>1, <2>2
<1>14. ASSUME NEW w \in Worker,
              ComputeFeatures(w) \/ CreateSnapshot(w) \/ CompleteJob(w) \/ FailJob(w)
       PROVE  Exclusive'
  <2>1. InJob(w) /\ UNCHANGED lockVars
    BY <1>14 DEF ComputeFeatures, CreateSnapshot, CompleteJob, FailJob, Advance, InJob
  <2>2. \E l \in Location : Goto(w, l)
    BY <1>14 DEF ComputeFeatures, CreateSnapshot, CompleteJob, FailJob, Settle, Advance, Location
  <2> QED
    BY <1>6, <2>1, <2>2, Runners
<1>9. ASSUME NEW w \in Runner, JobThrows(w) PROVE Exclusive'
  BY <1>6, <1>9 DEF JobThrows, Location
<1>15. ASSUME NEW h \in Chain, EndChain(h) \/ \E c \in Cart : BeginChain(h, c) PROVE Exclusive'
  <2>1. \A v \in Worker : pc'[v] = pc[v]
    BY <1>15, <1>0, Runners DEF EndChain, BeginChain, Goto, TypeOK
  <2> QED
    BY <1>15, <2>1 DEF EndChain, BeginChain, lockVars, Exclusive, Running
<1>10. ASSUME NEW j \in Job, Ingest(j) \/ Available(j) \/ Age(j) \/ AgeUnderWorker(j)
       PROVE  Exclusive'
  BY <1>1, <1>10 DEF Ingest, Available, Age, AgeUnderWorker, Running
<1>11. CASE DayPasses
  BY <1>1, <1>11 DEF DayPasses, Running
<1>12. CASE LockExpires
  BY <1>12, <1>0 DEF LockExpires, Exclusive, Running, TypeOK
<1>13. CASE LockExpiresEarly \/ RedisGoes \/ RedisReturns
  BY <1>13 DEF LockExpiresEarly, RedisGoes, RedisReturns, Exclusive, Running
<1> QED
  BY <1>2, <1>3, <1>5, <1>7, <1>8, <1>9, <1>10, <1>11, <1>12, <1>13, <1>14, <1>15, Runners
  DEF Next, Work

(* Any set of running workers is as wide as the lock lets it be, and one of  *)
(* workers and chains is wider by the chains of syncs.                       *)
LEMMA WidthType ==
    /\ \A S \in SUBSET Runner : IsFiniteSet(S) /\ Cardinality(S) \in Nat
    /\ \A S \in SUBSET Worker : Cardinality(S) <= Cardinality(Worker)
    /\ Cardinality(Worker) \in Nat \ {0}
    /\ Width \in Nat \ {0}
<1>1. IsFiniteSet(Runner)
  BY WorkerAssumption, FS_Union DEF Runner
<1>2. \A S \in SUBSET Runner : IsFiniteSet(S) /\ Cardinality(S) \in Nat
  BY <1>1, FS_Subset, FS_CardinalityType
<1>3. \A S \in SUBSET Worker : Cardinality(S) <= Cardinality(Worker)
  BY WorkerAssumption, FS_Subset
<1>4. Cardinality(Worker) \in Nat /\ Cardinality(Worker) # 0
  BY WorkerAssumption, FS_CardinalityType, FS_EmptySet
<1> QED
  BY <1>2, <1>3, <1>4 DEF Width

LEMMA ChainWidthType ==
    ASSUME beside \subseteq Chain
    PROVE  /\ IsFiniteSet(beside) /\ Cardinality(beside) \in Nat
           /\ ChainWidth \in Nat \ {0} /\ Width <= ChainWidth
<1>1. IsFiniteSet(beside) /\ Cardinality(beside) \in Nat
  BY WorkerAssumption, FS_Subset, FS_CardinalityType
<1> QED
  BY <1>1, WidthType DEF ChainWidth

LEMMA RunnersFit ==
    ASSUME Exclusive, NEW S \in SUBSET Worker, \A w \in S : Running(w)
    PROVE  Cardinality(S) <= Width
<1>1. CASE degraded
  BY <1>1, WidthType DEF Width
<1>2. CASE ~degraded
  <2>1. S \subseteq {lock}
    BY <1>2 DEF Exclusive
  <2>2. IsFiniteSet({lock}) /\ Cardinality({lock}) = 1
    BY FS_Singleton
  <2>3. Cardinality(S) <= 1
    BY <2>1, <2>2, FS_Subset
  <2> QED
    BY <1>2, <2>3 DEF Width
<1> QED
  BY <1>1, <1>2

LEMMA ChainsFit ==
    ASSUME Typed, Exclusive, NEW S \in SUBSET Runner, \A w \in S : Running(w)
    PROVE  Cardinality(S) <= ChainWidth
<1> DEFINE P == S \cap Worker
           H == S \cap Chain
<1>1. /\ P \in SUBSET Worker /\ P \in SUBSET Runner /\ H \in SUBSET Runner
      /\ S = P \cup H /\ P \cap H = {}
  BY WorkerAssumption DEF Runner
<1>2. Cardinality(P) <= Width
  BY <1>1, RunnersFit
<1>3. H \subseteq beside
  BY DEF Typed, InHand
<1>4. beside \subseteq Chain
  BY DEF Typed, TypeOK
<1> HIDE DEF P, H
<1>5. Cardinality(H) <= Cardinality(beside)
  BY <1>3, <1>4, ChainWidthType, FS_Subset
<1>6. /\ IsFiniteSet(P) /\ Cardinality(P) \in Nat
      /\ IsFiniteSet(H) /\ Cardinality(H) \in Nat
  BY <1>1, WidthType
<1>7. Cardinality(S) = Cardinality(P) + Cardinality(H)
  <2>1. Cardinality(P \cup H) = Cardinality(P) + Cardinality(H) - Cardinality(P \cap H)
    BY <1>6, FS_Union
  <2>2. Cardinality(P \cap H) = 0
    BY <1>1, FS_EmptySet
  <2> QED
    <3>1. Cardinality(S) = Cardinality(P) + Cardinality(H) - 0
      BY <1>1, <2>1, <2>2
    <3> QED
      BY <1>6, <3>1
<1>8. Cardinality(beside) \in Nat /\ Width \in Nat
  BY <1>4, ChainWidthType, WidthType
<1> QED
  BY <1>2, <1>5, <1>6, <1>7, <1>8 DEF ChainWidth

LEMMA WidthGrows ==
    ASSUME Typed, [Next]_vars
    PROVE  Width <= Width' /\ ChainWidth <= ChainWidth' /\ Width' \in Nat /\ ChainWidth' \in Nat
<1>1. (degraded => degraded') /\ beside \subseteq beside'
  <2>1. CASE UNCHANGED lockVars
    BY <2>1 DEF lockVars
  <2>2. ASSUME NEW w \in Runner, ChainStep(w) \/ JobThrows(w) PROVE UNCHANGED lockVars
    BY <2>2 DEF ChainStep, Predict, CheckLimits, TimingFails, FindSequence, CreateSequence,
       InsertSend, Advance, JobThrows
  <2>3. ASSUME NEW w \in Worker,
               \/ ComputeFeatures(w) \/ CreateSnapshot(w) \/ CompleteJob(w) \/ FailJob(w)
               \/ \E j \in Job : ClaimJob(w, j)
        PROVE  UNCHANGED lockVars
    BY <2>3 DEF ComputeFeatures, CreateSnapshot, CompleteJob, FailJob, ClaimJob, Advance
  <2>4. ASSUME NEW w \in Worker, StartPass(w) \/ EndPass(w) \/ FailJobThrows(w) \/ Crash(w)
        PROVE  (degraded => degraded') /\ beside' = beside
    BY <2>4 DEF StartPass, EndPass, FailJobThrows, Crash, Unlock
  <2>5. ASSUME NEW h \in Chain, EndChain(h) \/ \E c \in Cart : BeginChain(h, c)
        PROVE  (degraded => degraded') /\ beside \subseteq beside'
    BY <2>5 DEF EndChain, BeginChain, lockVars
  <2>6. ASSUME \/ UNCHANGED vars \/ DayPasses \/ LockExpires \/ LockExpiresEarly
               \/ RedisGoes \/ RedisReturns
               \/ \E j \in Job : Ingest(j) \/ Available(j) \/ Age(j) \/ AgeUnderWorker(j)
        PROVE  (degraded => degraded') /\ beside' = beside
    BY <2>6 DEF vars, DayPasses, LockExpires, LockExpiresEarly, RedisGoes, RedisReturns,
       Ingest, Available, Age, AgeUnderWorker, lockVars
  <2> QED
    BY <2>1, <2>2, <2>3, <2>4, <2>5, <2>6, Runners DEF Next, Work
<1>2. beside' \subseteq Chain
  BY StepTyped DEF Typed, TypeOK
<1>3. /\ IsFiniteSet(beside') /\ Cardinality(beside') \in Nat /\ Cardinality(beside) \in Nat
      /\ Cardinality(beside) <= Cardinality(beside')
  BY <1>1, <1>2, WorkerAssumption, FS_Subset, FS_CardinalityType
<1>4. Width <= Width' /\ Width \in Nat /\ Width' \in Nat
  BY <1>1, WidthType DEF Width
<1> QED
  BY <1>3, <1>4 DEF ChainWidth

----------------------------------------------------------------------------
(* Budgets.  Whoever may still write after a check is counted with what has  *)
(* been written: a check admits a worker or a chain only while there is room *)
(* for one, so no more are ever over than can be admitted at a time.         *)

Past == {"timing", "naming", "inserting"}        \* past the check of the caps
Naming == {w \in Runner : pc[w] = "naming"}
Creating(c) == {w \in Worker : pc[w] = "creating" /\ CartOf(w) = c}
Admitted == {w \in Runner : pc[w] \in Past}
AdmittedFor(k) == {w \in Runner : pc[w] \in Past /\ customerOf[CartOf(w)] = k}

SequenceBudget == sequences = 0 \/ sequences + Cardinality(Naming) <= ChainWidth
SnapshotBudget ==
    \A c \in Cart : snapshots[c] = 0 \/ snapshots[c] + Cardinality(Creating(c)) <= Width
StoreBudget == Cardinality(recent) + Cardinality(Admitted) < StoreCap + ChainWidth
CustomerBudget ==
    \A k \in Customer :
        Cardinality(Of(k)) + Cardinality(AdmittedFor(k)) < CustomerCap + ChainWidth

LEMMA Fewer ==
    ASSUME NEW S \in SUBSET Runner, NEW T \in SUBSET S
    PROVE  /\ Cardinality(S) \in Nat /\ Cardinality(T) \in Nat
           /\ Cardinality(T) <= Cardinality(S)
           /\ \A w \in S \ T : Cardinality(T) + 1 <= Cardinality(S)
<1>1. IsFiniteSet(S) /\ Cardinality(S) \in Nat /\ Cardinality(T) \in Nat
  BY WidthType
<1>2. Cardinality(T) <= Cardinality(S)
  BY <1>1, FS_Subset
<1>3. ASSUME NEW w \in S \ T PROVE Cardinality(T) + 1 <= Cardinality(S)
  <2>1. Cardinality(S \ {w}) = Cardinality(S) - 1 /\ IsFiniteSet(S \ {w})
    BY <1>1, FS_RemoveElement
  <2>2. T \subseteq S \ {w}
    OBVIOUS
  <2>3. Cardinality(T) <= Cardinality(S \ {w})
    BY <2>1, <2>2, FS_Subset
  <2> QED
    BY <1>1, <2>1, <2>3
<1> QED
  BY <1>1, <1>2, <1>3

(* Where workers move.                                                       *)
NamingStill == UNCHANGED sequences /\ \A w \in Runner : pc'[w] = "naming" => pc[w] = "naming"
CreatingStill ==
    /\ UNCHANGED snapshots
    /\ \A w \in Worker : pc'[w] = "creating" => pc[w] = "creating" /\ CartOf(w)' = CartOf(w)
AdmittedStill ==
    /\ recent' \subseteq recent
    /\ \A w \in Runner : pc'[w] \in Past => pc[w] \in Past /\ CartOf(w)' = CartOf(w)

LEMMA Moves ==
    ASSUME Typed, [Next]_vars
    PROVE  /\ NamingStill \/ \E w \in Runner : FindSequence(w) \/ CreateSequence(w)
           /\ CreatingStill \/ \E w \in Worker : ComputeFeatures(w) \/ CreateSnapshot(w)
           /\ AdmittedStill \/ \E w \in Runner : CheckLimits(w) \/ InsertSend(w) \/ JobThrows(w)
<1> DEFINE Still == NamingStill /\ CreatingStill /\ AdmittedStill
<1>0. TypeOK /\ Worker \subseteq Runner /\ Chain \subseteq Runner
  BY Runners DEF Typed
<1>1. ASSUME UNCHANGED <<pc, claim, sequences, snapshots>>, recent' \subseteq recent PROVE Still
  BY <1>1 DEF NamingStill, CreatingStill, AdmittedStill, CartOf
<1>2. ASSUME NEW w \in Runner, NEW l \in Location \ ({"naming", "creating"} \cup Past),
             Goto(w, l),
             \A v \in Runner \ {w} : claim'[v] = claim[v],
             UNCHANGED <<sequences, snapshots>>, recent' \subseteq recent
      PROVE  Still
  BY <1>2, <1>0 DEF NamingStill, CreatingStill, AdmittedStill, CartOf, TypeOK, Goto, Past
<1>3. CASE UNCHANGED vars \/ DayPasses
  BY <1>1, <1>3 DEF vars, DayPasses
<1>4. CASE LockExpires \/ LockExpiresEarly \/ RedisGoes \/ RedisReturns
  BY <1>1, <1>4 DEF LockExpires, LockExpiresEarly, RedisGoes, RedisReturns, rowVars
<1>5. ASSUME NEW j \in Job, Ingest(j) \/ Available(j) \/ Age(j) \/ AgeUnderWorker(j) PROVE Still
  BY <1>1, <1>5 DEF Ingest, Available, Age, AgeUnderWorker, rowVars
<1>6. ASSUME NEW w \in Worker, StartPass(w) \/ EndPass(w) PROVE Still
  BY <1>0, <1>2, <1>6 DEF StartPass, EndPass, rowVars, Location, Past
<1>7. ASSUME NEW w \in Worker, NEW j \in Job, ClaimJob(w, j) PROVE Still
  BY <1>2, <1>7, <1>0 DEF ClaimJob, rowVars, Location, Past, TypeOK
<1>8. ASSUME NEW w \in Worker, CompleteJob(w) \/ FailJob(w) PROVE Still
  BY <1>2, <1>8, <1>0 DEF CompleteJob, FailJob, Settle, rowVars, Location, Past, TypeOK
<1>9. ASSUME NEW w \in Worker, FailJobThrows(w) \/ Crash(w) PROVE Still
  BY <1>2, <1>9, <1>0 DEF FailJobThrows, Crash, Leave, rowVars, Location, Past, TypeOK
<1>10. ASSUME NEW w \in Runner, Predict(w) \/ TimingFails(w) PROVE Still
  <2>1. UNCHANGED <<claim, rowVars>> /\ \E l \in {"checking", "completing"} : Goto(w, l)
    BY <1>10 DEF Predict, TimingFails, Advance
  <2> QED
    BY <1>2, <2>1 DEF rowVars, Location, Past
<1>11. ASSUME NEW w \in Runner, JobThrows(w) PROVE NamingStill /\ CreatingStill
  BY <1>11, <1>0
  DEF JobThrows, Goto, rowVars, NamingStill, CreatingStill, CartOf, TypeOK
<1>12. ASSUME NEW w \in Worker, ComputeFeatures(w) \/ CreateSnapshot(w)
       PROVE  NamingStill /\ AdmittedStill
  BY <1>12, <1>0 DEF ComputeFeatures, CreateSnapshot, Advance, Goto, rowVars, NamingStill,
     AdmittedStill, CartOf, TypeOK, Past
<1>13. ASSUME NEW w \in Runner, CheckLimits(w) \/ InsertSend(w)
       PROVE  NamingStill /\ CreatingStill
  BY <1>13, <1>0 DEF CheckLimits, InsertSend, Advance, Goto, rowVars, NamingStill,
     CreatingStill, CartOf, TypeOK
<1>14. ASSUME NEW w \in Runner, FindSequence(w) \/ CreateSequence(w)
       PROVE  CreatingStill /\ AdmittedStill
  <2>1. /\ pc[w] \in Past /\ \E l \in Past : Goto(w, l)
        /\ UNCHANGED <<snapshots, recent>>
    BY <1>14 DEF FindSequence, CreateSequence, rowVars, Past
  <2>2. UNCHANGED claim \/ \E n : claim' = [claim EXCEPT ![w].sequence = n]
    BY <1>14 DEF FindSequence, CreateSequence
  <2>3. \A v \in Runner : claim'[v].cart = claim[v].cart
    BY <2>2, <1>0 DEF TypeOK
  <2> QED
    BY <2>1, <2>3, <1>0 DEF CreatingStill, AdmittedStill, CartOf, TypeOK, Goto, Past
<1>15. ASSUME NEW h \in Chain, EndChain(h) \/ \E c \in Cart : BeginChain(h, c) PROVE Still
  <2>1. /\ \E l \in Location \ ({"naming", "creating"} \cup Past) : Goto(h, l)
        /\ \E r : claim' = [claim EXCEPT ![h] = r]
        /\ UNCHANGED rowVars
    BY <1>15 DEF EndChain, BeginChain, Location, Past
  <2>2. \A v \in Runner \ {h} : claim'[v] = claim[v]
    BY <1>0, <2>1 DEF TypeOK
  <2> QED
    BY <1>0, <1>2, <2>1, <2>2 DEF rowVars
<1> QED
  BY <1>0, <1>3, <1>4, <1>5, <1>6, <1>7, <1>8, <1>9, <1>10, <1>11, <1>12, <1>13, <1>14,
     <1>15 DEF Next, Work, ChainStep

LEMMA SequenceStep ==
    ASSUME Typed, Exclusive, SequenceBudget, [Next]_vars
    PROVE  SequenceBudget'
<1>1. /\ sequences \in Nat /\ ChainWidth \in Nat /\ ChainWidth' \in Nat /\ ChainWidth <= ChainWidth'
      /\ Naming \in SUBSET Runner /\ Naming' \in SUBSET Runner
      /\ Cardinality(Naming) \in Nat /\ Cardinality(Naming') \in Nat
  BY WidthType, ChainWidthType, WidthGrows DEF Typed, TypeOK, Naming
<1>2. CASE NamingStill
  <2>1. Naming' \subseteq Naming /\ sequences' = sequences
    BY <1>2 DEF NamingStill, Naming
  <2> QED
    BY <1>1, <2>1, Fewer DEF SequenceBudget
<1>3. ASSUME NEW w \in Runner, FindSequence(w) PROVE SequenceBudget'
  <2>1. CASE sequences = 0
    BY <1>3, <2>1 DEF FindSequence, rowVars, SequenceBudget
  <2>2. CASE sequences # 0
    <3>1. Naming' \subseteq Naming /\ sequences' = sequences
      BY <1>3, <2>2 DEF FindSequence, rowVars, Naming, Goto, Typed, TypeOK
    <3> QED
      BY <1>1, <3>1, Fewer DEF SequenceBudget
  <2> QED
    BY <2>1, <2>2
<1>4. ASSUME NEW w \in Runner, CreateSequence(w) PROVE SequenceBudget'
  <2>1. w \in Naming \ Naming' /\ Naming' \subseteq Naming /\ sequences' = sequences + 1
    BY <1>4 DEF CreateSequence, Naming, Goto, Typed, TypeOK
  <2>2. Cardinality(Naming') + 1 <= Cardinality(Naming) /\ Cardinality(Naming') \in Nat
        /\ Cardinality(Naming) \in Nat
    BY <1>1, <2>1, Fewer
  <2>3. CASE sequences # 0
    BY <1>1, <2>1, <2>2, <2>3 DEF SequenceBudget
  <2>4. CASE sequences = 0
    <3>1. \A v \in Naming : Running(v)
      BY DEF Naming, Running
    <3>2. Cardinality(Naming) <= ChainWidth
      BY <1>1, <3>1, ChainsFit
    <3> QED
      BY <1>1, <2>1, <2>2, <2>4, <3>2 DEF SequenceBudget
  <2> QED
    BY <2>3, <2>4
<1> QED
  BY <1>2, <1>3, <1>4, Moves

LEMMA SnapshotStep ==
    ASSUME Typed, Exclusive, SnapshotBudget, [Next]_vars
    PROVE  SnapshotBudget'
<1> SUFFICES ASSUME NEW c \in Cart
             PROVE  snapshots'[c] = 0 \/ snapshots'[c] + Cardinality(Creating(c)') <= Width'
  BY DEF SnapshotBudget
<1>1. /\ snapshots[c] \in Nat /\ Width \in Nat /\ Width' \in Nat /\ Width <= Width'
      /\ Creating(c) \in SUBSET Worker /\ Creating(c)' \in SUBSET Worker
      /\ Creating(c) \in SUBSET Runner /\ Creating(c)' \in SUBSET Runner
      /\ Worker \subseteq Runner
      /\ snapshots[c] = 0 \/ snapshots[c] + Cardinality(Creating(c)) <= Width
  BY Runners, WidthType, WidthGrows DEF Typed, TypeOK, Creating, SnapshotBudget
<1>2. ASSUME Creating(c)' \subseteq Creating(c), snapshots'[c] = snapshots[c]
      PROVE  snapshots'[c] = 0 \/ snapshots'[c] + Cardinality(Creating(c)') <= Width'
  BY <1>1, <1>2, Fewer
<1>3. CASE CreatingStill
  <2>1. Creating(c)' \subseteq Creating(c) /\ snapshots'[c] = snapshots[c]
    BY <1>3 DEF CreatingStill, Creating
  <2> QED
    BY <1>2, <2>1
<1>4. ASSUME NEW w \in Worker, ComputeFeatures(w)
      PROVE  snapshots'[c] = 0 \/ snapshots'[c] + Cardinality(Creating(c)') <= Width'
  <2>1. snapshots' = snapshots /\ claim' = claim
        /\ \A v \in Worker \ {w} : pc'[v] = pc[v]
    BY <1>1, <1>4 DEF ComputeFeatures, Advance, rowVars, Goto, Typed, TypeOK
  <2>2. CASE snapshots[c] = 0
    BY <2>1, <2>2
  <2>3. CASE snapshots[c] # 0
    <3>1. CartOf(w) = c => pc'[w] # "creating"
      BY <1>1, <1>4, <2>3 DEF ComputeFeatures, Advance, Goto, Typed, TypeOK
    <3>2. Creating(c)' \subseteq Creating(c)
      BY <2>1, <3>1 DEF Creating, CartOf
    <3> QED
      BY <1>2, <2>1, <3>2
  <2> QED
    BY <2>2, <2>3
<1>5. ASSUME NEW w \in Worker, CreateSnapshot(w)
      PROVE  snapshots'[c] = 0 \/ snapshots'[c] + Cardinality(Creating(c)') <= Width'
  <2>1. /\ pc[w] = "creating" /\ pc'[w] = "predicting" /\ claim' = claim
        /\ \A v \in Worker \ {w} : pc'[v] = pc[v]
        /\ snapshots' = [snapshots EXCEPT ![CartOf(w)] = snapshots[CartOf(w)] + 1]
    BY <1>1, <1>5 DEF CreateSnapshot, Advance, Goto, Typed, TypeOK
  <2>2. Creating(c)' \subseteq Creating(c) /\ w \notin Creating(c)'
    BY <2>1 DEF Creating, CartOf
  <2>3. CASE CartOf(w) # c
    <3>1. snapshots'[c] = snapshots[c]
      BY <2>1, <2>3 DEF Typed, TypeOK
    <3> QED
      BY <1>2, <2>2, <3>1
  <2>4. CASE CartOf(w) = c
    <3>1. w \in Creating(c) /\ snapshots'[c] = snapshots[c] + 1
      BY <2>1, <2>4 DEF Creating, Typed, TypeOK
    <3>2. Cardinality(Creating(c)') + 1 <= Cardinality(Creating(c))
          /\ Cardinality(Creating(c)') \in Nat /\ Cardinality(Creating(c)) \in Nat
      BY <1>1, <2>2, <3>1, Fewer
    <3>3. Cardinality(Creating(c)) <= Width
      <4>1. \A v \in Creating(c) : Running(v)
        BY DEF Creating, Running
      <4> QED
        BY <1>1, <4>1, RunnersFit
    <3> QED
      BY <1>1, <3>1, <3>2, <3>3
  <2> QED
    BY <2>3, <2>4
<1> QED
  BY <1>3, <1>4, <1>5, Moves

(* A message is sent by a worker the caps have admitted.                     *)
LEMMA Spent ==
    ASSUME Typed, NEW w \in Runner, InsertSend(w) \/ (JobThrows(w) /\ ~UNCHANGED rowVars)
    PROVE  /\ w \in Admitted \ Admitted' /\ Admitted' \subseteq Admitted
           /\ UNCHANGED claim
           /\ \E x \in Cart \X Nat : x[1] = CartOf(w)
                  /\ (recent' = recent \/ recent' = recent \cup {x})
<1>1. pc[w] = "inserting" /\ pc'[w] \in {"completing", "failing"} /\ UNCHANGED claim
      /\ \A v \in Runner \ {w} : pc'[v] = pc[v]
  BY DEF InsertSend, JobThrows, Advance, Goto, Typed, TypeOK
<1>2. <<CartOf(w), claim[w].sequence>> \in Cart \X Nat
  <2>1. claim[w].cart \in Cart /\ claim[w].sequence \in Nat
    BY <1>1 DEF Typed, InHand, InJob, TypeOK
  <2> QED
    BY <2>1 DEF CartOf
<1>3. recent' = recent \/ recent' = recent \cup {<<CartOf(w), claim[w].sequence>>}
  BY DEF InsertSend, JobThrows
<1>4. w \in Admitted \ Admitted' /\ Admitted' \subseteq Admitted
  BY <1>1 DEF Admitted, Past
<1> QED
  BY <1>1, <1>2, <1>3, <1>4

LEMMA StoreStep ==
    ASSUME Typed, Exclusive, StoreBudget, [Next]_vars
    PROVE  StoreBudget'
<1>1. /\ IsFiniteSet(recent) /\ Cardinality(recent) \in Nat /\ StoreCap \in Nat
      /\ ChainWidth \in Nat /\ ChainWidth' \in Nat /\ ChainWidth <= ChainWidth'
      /\ Admitted \in SUBSET Runner /\ Admitted' \in SUBSET Runner
      /\ Cardinality(Admitted) \in Nat /\ Cardinality(Admitted') \in Nat
  BY WidthType, ChainWidthType, WidthGrows, FS_CardinalityType, BoundAssumption
  DEF Typed, TypeOK, Stored, Admitted
<1>2. ASSUME recent' \subseteq recent, Admitted' \subseteq Admitted PROVE StoreBudget'
  <2>1. Cardinality(recent') <= Cardinality(recent) /\ Cardinality(recent') \in Nat
    BY <1>1, <1>2, FS_Subset, FS_CardinalityType
  <2>2. Cardinality(Admitted') <= Cardinality(Admitted)
    BY <1>1, <1>2, Fewer
  <2> QED
    BY <1>1, <2>1, <2>2 DEF StoreBudget
<1>3. CASE AdmittedStill
  BY <1>2, <1>3 DEF AdmittedStill, Admitted
<1>4. ASSUME NEW w \in Runner, CheckLimits(w) PROVE StoreBudget'
  <2>1. recent' = recent
    BY <1>4 DEF CheckLimits, rowVars
  <2>2. CASE WithinActionLimits(CartOf(w))
    <3>1. Cardinality(recent) < StoreCap
      BY <2>2 DEF WithinActionLimits
    <3>2. /\ Admitted \cup {w} \in SUBSET Runner /\ Admitted' \subseteq Admitted \cup {w}
          /\ \A v \in Admitted \cup {w} : Running(v)
      BY <1>4 DEF CheckLimits, Advance, Goto, Admitted, Running, Past, Typed, TypeOK
    <3>3. Cardinality(Admitted \cup {w}) <= ChainWidth
      BY <3>2, ChainsFit
    <3>4. Cardinality(Admitted') <= Cardinality(Admitted \cup {w})
          /\ Cardinality(Admitted \cup {w}) \in Nat
      BY <3>2, Fewer
    <3> QED
      BY <1>1, <2>1, <3>1, <3>3, <3>4 DEF StoreBudget
  <2>3. CASE ~WithinActionLimits(CartOf(w))
    <3>1. Admitted' \subseteq Admitted
      BY <1>4, <2>3 DEF CheckLimits, Advance, Goto, Admitted, Past, Typed, TypeOK
    <3> QED
      BY <1>2, <2>1, <3>1
  <2> QED
    BY <2>2, <2>3
<1>5. ASSUME NEW w \in Runner, InsertSend(w) \/ (JobThrows(w) /\ ~UNCHANGED rowVars)
      PROVE  StoreBudget'
  <2>1. PICK x \in Cart \X Nat : recent' = recent \/ recent' = recent \cup {x}
    BY <1>5, Spent
  <2>2. Cardinality(recent') <= Cardinality(recent) + 1 /\ Cardinality(recent') \in Nat
    <3>1. Cardinality(recent \cup {x}) \in {Cardinality(recent), Cardinality(recent) + 1}
      BY <1>1, FS_AddElement
    <3>2. CASE recent' = recent
      BY <1>1, <3>2
    <3>3. CASE recent' = recent \cup {x}
      BY <1>1, <3>1, <3>3
    <3> QED
      BY <2>1, <3>2, <3>3
  <2>3. Cardinality(Admitted') + 1 <= Cardinality(Admitted)
    BY <1>1, <1>5, Spent, Fewer
  <2> QED
    BY <1>1, <2>2, <2>3 DEF StoreBudget
<1>6. ASSUME NEW w \in Runner, JobThrows(w), UNCHANGED rowVars PROVE StoreBudget'
  <2>1. Admitted' \subseteq Admitted /\ recent' = recent
    BY <1>6 DEF JobThrows, Goto, Admitted, Past, Typed, TypeOK, rowVars
  <2> QED
    BY <1>2, <2>1
<1> QED
  BY <1>3, <1>4, <1>5, <1>6, Moves

LEMMA CustomerStep ==
    ASSUME Typed, Exclusive, CustomerBudget, [Next]_vars
    PROVE  CustomerBudget'
<1> SUFFICES ASSUME NEW k \in Customer
             PROVE  Cardinality(Of(k)') + Cardinality(AdmittedFor(k)') < CustomerCap + ChainWidth'
  BY DEF CustomerBudget
<1> DEFINE Kept == Cardinality(Of(k)') + Cardinality(AdmittedFor(k)') < CustomerCap + ChainWidth'
<1>0. IsFiniteSet(Of(k))
  <2>1. Of(k) \subseteq recent /\ IsFiniteSet(recent)
    BY DEF Of, Typed, Stored
  <2> QED
    BY <2>1, FS_Subset
<1>1. /\ Cardinality(Of(k)) \in Nat /\ CustomerCap \in Nat
      /\ ChainWidth \in Nat /\ ChainWidth' \in Nat /\ ChainWidth <= ChainWidth'
      /\ AdmittedFor(k) \in SUBSET Runner /\ AdmittedFor(k)' \in SUBSET Runner
      /\ Cardinality(AdmittedFor(k)) \in Nat /\ Cardinality(AdmittedFor(k)') \in Nat
      /\ Cardinality(Of(k)) + Cardinality(AdmittedFor(k)) < CustomerCap + ChainWidth
  BY <1>0, WidthType, ChainWidthType, WidthGrows, FS_CardinalityType, BoundAssumption
  DEF Typed, TypeOK, AdmittedFor, CustomerBudget
<1>2. ASSUME Of(k)' \subseteq Of(k), AdmittedFor(k)' \subseteq AdmittedFor(k) PROVE Kept
  <2>1. Cardinality(Of(k)') <= Cardinality(Of(k)) /\ Cardinality(Of(k)') \in Nat
    BY <1>0, <1>1, <1>2, FS_Subset, FS_CardinalityType
  <2>2. Cardinality(AdmittedFor(k)') <= Cardinality(AdmittedFor(k))
    BY <1>1, <1>2, Fewer
  <2> QED
    BY <1>1, <2>1, <2>2
<1>3. CASE AdmittedStill
  <2>1. Of(k)' \subseteq Of(k) /\ AdmittedFor(k)' \subseteq AdmittedFor(k)
    BY <1>3 DEF AdmittedStill, AdmittedFor, Of
  <2> QED
    BY <1>2, <2>1
<1>4. ASSUME NEW w \in Runner, CheckLimits(w) PROVE Kept
  <2>1. recent' = recent /\ claim' = claim /\ pc[w] = "checking"
        /\ \A v \in Runner \ {w} : pc'[v] = pc[v]
    BY <1>4 DEF CheckLimits, Advance, Goto, rowVars, Typed, TypeOK
  <2>2. Of(k)' = Of(k)
    BY <2>1 DEF Of
  <2>3. CASE WithinActionLimits(CartOf(w)) /\ customerOf[CartOf(w)] = k
    <3>1. Cardinality(Of(k)) < CustomerCap
      BY <2>3 DEF WithinActionLimits
    <3>2. /\ AdmittedFor(k) \cup {w} \in SUBSET Runner
          /\ AdmittedFor(k)' \subseteq AdmittedFor(k) \cup {w}
          /\ \A v \in AdmittedFor(k) \cup {w} : Running(v)
      BY <2>1 DEF AdmittedFor, CartOf, Running, Past
    <3>3. Cardinality(AdmittedFor(k) \cup {w}) <= ChainWidth
      BY <3>2, ChainsFit
    <3>4. Cardinality(AdmittedFor(k)') <= Cardinality(AdmittedFor(k) \cup {w})
          /\ Cardinality(AdmittedFor(k) \cup {w}) \in Nat
      BY <3>2, Fewer
    <3> QED
      BY <1>1, <2>2, <3>1, <3>3, <3>4
  <2>4. CASE ~(WithinActionLimits(CartOf(w)) /\ customerOf[CartOf(w)] = k)
    <3>1. pc'[w] \notin Past \/ customerOf[CartOf(w)] # k
      BY <1>4, <2>4 DEF CheckLimits, Advance, Goto, Past, Typed, TypeOK
    <3>2. AdmittedFor(k)' \subseteq AdmittedFor(k)
      BY <2>1, <3>1 DEF AdmittedFor, CartOf
    <3> QED
      BY <1>2, <2>2, <3>2
  <2> QED
    BY <2>3, <2>4
<1>5. ASSUME NEW w \in Runner, InsertSend(w) \/ (JobThrows(w) /\ ~UNCHANGED rowVars)
      PROVE  Kept
  <2>1. PICK x \in Cart \X Nat :
           x[1] = CartOf(w) /\ (recent' = recent \/ recent' = recent \cup {x})
    BY <1>5, Spent
  <2>2. w \in Admitted \ Admitted' /\ Admitted' \subseteq Admitted /\ claim' = claim
    BY <1>5, Spent
  <2>3. AdmittedFor(k)' \subseteq AdmittedFor(k) /\ w \notin AdmittedFor(k)'
    BY <2>2 DEF Admitted, AdmittedFor, CartOf
  <2>4. CASE customerOf[CartOf(w)] # k
    <3>1. Of(k)' \subseteq Of(k)
      BY <2>1, <2>4 DEF Of
    <3> QED
      BY <1>2, <2>3, <3>1
  <2>5. CASE customerOf[CartOf(w)] = k
    <3>1. w \in AdmittedFor(k)
      BY <2>2, <2>5 DEF Admitted, AdmittedFor
    <3>2. Cardinality(AdmittedFor(k)') + 1 <= Cardinality(AdmittedFor(k))
      BY <1>1, <2>3, <3>1, Fewer
    <3>3. Of(k)' \subseteq Of(k) \cup {x}
      BY <2>1 DEF Of
    <3>4. IsFiniteSet(Of(k) \cup {x}) /\ Cardinality(Of(k) \cup {x}) \in Nat
          /\ Cardinality(Of(k) \cup {x}) <= Cardinality(Of(k)) + 1
      <4>1. /\ IsFiniteSet(Of(k) \cup {x})
            /\ Cardinality(Of(k) \cup {x}) \in {Cardinality(Of(k)), Cardinality(Of(k)) + 1}
        BY <1>0, FS_AddElement
      <4> QED
        BY <1>1, <4>1
    <3>5. Cardinality(Of(k)') <= Cardinality(Of(k) \cup {x}) /\ Cardinality(Of(k)') \in Nat
      BY <3>3, <3>4, FS_Subset, FS_CardinalityType
    <3> QED
      BY <1>1, <3>2, <3>4, <3>5
  <2> QED
    BY <2>4, <2>5
<1>6. ASSUME NEW w \in Runner, JobThrows(w), UNCHANGED rowVars PROVE Kept
  <2>1. claim' = claim /\ recent' = recent /\ \A v \in Runner : pc'[v] \in Past => pc[v] \in Past
    BY <1>6 DEF JobThrows, Goto, Past, Typed, TypeOK, rowVars
  <2>2. Of(k)' \subseteq Of(k) /\ AdmittedFor(k)' \subseteq AdmittedFor(k)
    BY <2>1 DEF Of, AdmittedFor, CartOf
  <2> QED
    BY <1>2, <2>2
<1> QED
  BY <1>3, <1>4, <1>5, <1>6, Moves

(* The messages of a cart are told apart by their sequences.                 *)
LEMMA CopiesOfSequences ==
    ASSUME Typed, NEW c \in Cart
    PROVE  Cardinality({s \in sends : s[1] = c}) <= sequences
<1>1. sequences \in Nat /\ sends \subseteq Cart \X (1..sequences)
  BY DEF Typed, TypeOK, Stored
<1>2. IsFiniteSet(1..sequences) /\ Cardinality(1..sequences) = sequences
  BY <1>1, FS_Interval
<1>3. IsFiniteSet({c}) /\ Cardinality({c}) = 1
  BY FS_Singleton
<1>4. /\ IsFiniteSet({c} \X (1..sequences))
      /\ Cardinality({c} \X (1..sequences)) = 1 * sequences
  BY <1>2, <1>3, FS_Product
<1>5. {s \in sends : s[1] = c} \subseteq {c} \X (1..sequences)
  BY <1>1
<1>6. Cardinality({s \in sends : s[1] = c}) <= Cardinality({c} \X (1..sequences))
  BY <1>4, <1>5, FS_Subset
<1> QED
  BY <1>1, <1>4, <1>6

Budgets == SequenceBudget /\ SnapshotBudget /\ StoreBudget /\ CustomerBudget

THEOREM BudgetsHold == Spec => [](Typed /\ Exclusive /\ Budgets)
<1>1. Init => Exclusive
  BY Runners DEF Init, Exclusive, Running
<1>2. Init => Budgets
  <2> SUFFICES ASSUME Init PROVE Budgets
    OBVIOUS
  <2>1. SequenceBudget /\ SnapshotBudget
    BY DEF Init, SequenceBudget, SnapshotBudget
  <2>2. /\ Cardinality({}) = 0 /\ ChainWidth \in Nat \ {0}
        /\ StoreCap \in Nat \ {0} /\ CustomerCap \in Nat \ {0}
    BY FS_EmptySet, ChainWidthType, BoundAssumption DEF Init
  <2>3. StoreBudget
    <3>1. recent = {} /\ Admitted = {}
      BY DEF Init, Admitted, Past
    <3> QED
      BY <2>2, <3>1 DEF StoreBudget
  <2>4. CustomerBudget
    <3>1. ASSUME NEW k \in Customer PROVE Of(k) = {} /\ AdmittedFor(k) = {}
      BY DEF Init, AdmittedFor, Of, Past
    <3> QED
      BY <2>2, <3>1 DEF CustomerBudget
  <2> QED
    BY <2>1, <2>3, <2>4 DEF Budgets
<1>3. Typed /\ Exclusive /\ Budgets /\ [Next]_vars => Exclusive' /\ Budgets'
  BY StepExclusive, SequenceStep, SnapshotStep, StoreStep, CustomerStep DEF Budgets
<1> QED
  BY <1>1, <1>2, <1>3, TypeCorrect, PTL DEF Spec

(* For any number of workers and chains and any caps: a cap is exact while   *)
(* the lock excludes and no sync evaluates a cart, and exceeded by at most   *)
(* one message for each further process and each chain of a sync.            *)
THEOREM CapsHold == Spec => []CapsOverrunBounded
<1>1. Typed /\ Budgets => CapsOverrunBounded
  <2> SUFFICES ASSUME Typed, Budgets PROVE CapsOverrunBounded
    OBVIOUS
  <2>1. /\ Cardinality(recent) \in Nat /\ ChainWidth \in Nat
        /\ StoreCap \in Nat /\ CustomerCap \in Nat
        /\ Cardinality(Admitted) \in Nat
    BY FS_CardinalityType, WidthType, ChainWidthType, BoundAssumption
    DEF Typed, TypeOK, Stored, Admitted
  <2>2. ASSUME NEW k \in Customer PROVE Cardinality(Of(k)) < CustomerCap + ChainWidth
    <3>1. Of(k) \subseteq recent /\ IsFiniteSet(recent)
      BY DEF Of, Typed, Stored
    <3>2. Cardinality(Of(k)) \in Nat /\ Cardinality(AdmittedFor(k)) \in Nat
      BY <3>1, FS_Subset, FS_CardinalityType, WidthType DEF AdmittedFor
    <3> QED
      BY <2>1, <3>2 DEF Budgets, CustomerBudget
  <2> QED
    BY <2>1, <2>2 DEF Budgets, StoreBudget, CapsOverrunBounded
<1> QED
  BY <1>1, BudgetsHold, PTL

(* A session has one snapshot while the lock excludes, and otherwise no more *)
(* than there are processes; sequences and messages to a cart are no more    *)
(* than processes and chains of syncs may be between a read and its write.   *)
THEOREM CopiesHold == Spec => []CopiesBounded
<1>1. Typed /\ Budgets => CopiesBounded
  <2> SUFFICES ASSUME Typed, Budgets PROVE CopiesBounded
    OBVIOUS
  <2>1. /\ Width \in Nat \ {0} /\ ChainWidth \in Nat \ {0}
        /\ sequences \in Nat /\ Cardinality(Naming) \in Nat
    BY WidthType, ChainWidthType DEF Typed, TypeOK, Naming
  <2>2. sequences <= ChainWidth
    BY <2>1 DEF Budgets, SequenceBudget
  <2>3. ASSUME NEW c \in Cart PROVE snapshots[c] <= Width
    <3>1. Cardinality(Creating(c)) \in Nat /\ snapshots[c] \in Nat
      BY WidthType, Runners DEF Creating, Typed, TypeOK
    <3> QED
      BY <2>1, <3>1 DEF Budgets, SnapshotBudget
  <2>4. ASSUME NEW c \in Cart PROVE Cardinality({s \in sends : s[1] = c}) <= ChainWidth
    <3>1. {s \in sends : s[1] = c} \subseteq {c} \X (1..sequences)
      BY DEF Typed, Stored
    <3>2. IsFiniteSet({c} \X (1..sequences))
      <4>1. IsFiniteSet(1..sequences)
        BY <2>1, FS_Interval
      <4>2. IsFiniteSet({c})
        BY FS_Singleton
      <4> QED
        BY <4>1, <4>2, FS_Product
    <3>3. Cardinality({s \in sends : s[1] = c}) \in Nat
      BY <3>1, <3>2, FS_Subset, FS_CardinalityType
    <3>4. Cardinality({s \in sends : s[1] = c}) <= sequences
      BY CopiesOfSequences
    <3> QED
      BY <2>1, <2>2, <3>3, <3>4
  <2> QED
    BY <2>2, <2>3, <2>4 DEF CopiesBounded
<1> QED
  BY <1>1, BudgetsHold, PTL

----------------------------------------------------------------------------
(* Outcomes.  A job in a worker's hands is in processing, and in one pair of *)
(* hands, unless it was claimed while another still ran it.                  *)

SingleHanded ==
    \A j \in Job \ overrun :
        /\ \A w \in Worker : Holds(w, j) => job[j].status = "processing"
        /\ \A v, w \in Worker : Holds(v, j) /\ Holds(w, j) => v = w

LEMMA StepSingleHanded == Typed /\ SingleHanded /\ [Next]_vars => SingleHanded'
<1> SUFFICES ASSUME Typed, SingleHanded, [Next]_vars PROVE SingleHanded'
  OBVIOUS
<1>0. TypeOK /\ Worker \subseteq Runner /\ Chain \subseteq Runner
  BY Runners DEF Typed
<1>1. ASSUME \A j \in Job : job'[j].status = job[j].status, UNCHANGED overrun,
             \A w \in Worker, j \in Job : Holds(w, j)' => Holds(w, j)
      PROVE  SingleHanded'
  BY <1>1 DEF SingleHanded
<1>2. ASSUME UNCHANGED <<job, claim, overrun>> PROVE SingleHanded'
  BY <1>1, <1>2 DEF Holds
<1>3. ASSUME NEW j \in Job, Ingest(j) PROVE SingleHanded'
  <2>1. UNCHANGED <<claim, overrun>> /\ \A i \in Job \ {j} : job'[i] = job[i]
    BY <1>3 DEF Ingest, pastVars
  <2>2. j \notin overrun => \A w \in Worker : ~Holds(w, j)
    BY <1>3 DEF Ingest, SingleHanded
  <2> QED
    BY <2>1, <2>2 DEF SingleHanded, Holds
<1>4. ASSUME NEW j \in Job, Available(j) \/ Age(j) \/ AgeUnderWorker(j) PROVE SingleHanded'
  <2>1. \A i \in Job : job'[i].status = job[i].status
    BY <1>4, <1>0 DEF Available, Age, AgeUnderWorker, TypeOK, JobRow
  <2> QED
    BY <1>1, <1>4, <2>1 DEF Available, Age, AgeUnderWorker, Holds, pastVars
<1>5. ASSUME NEW w \in Worker, NEW j \in Job, ClaimJob(w, j) PROVE SingleHanded'
  <2>1. /\ \A i \in Job \ {j} : job'[i] = job[i]
        /\ job'[j].status = "processing"
        /\ claim'[w].job = j /\ \A v \in Worker \ {w} : claim'[v] = claim[v]
        /\ overrun \subseteq overrun'
        /\ (\E v \in Worker : Holds(v, j)) => j \in overrun'
    BY <1>5, <1>0 DEF ClaimJob, TypeOK, JobRow
  <2> QED
    BY <2>1 DEF SingleHanded, Holds
<1>6. ASSUME NEW w \in Worker, UNCHANGED <<job, overrun>>,
             claim' = [claim EXCEPT ![w] = NoClaim]
      PROVE  SingleHanded'
  <2>1. \A v \in Worker, j \in Job : Holds(v, j)' => Holds(v, j)
    BY <1>6, <1>0, NoneAssumption DEF Holds, NoClaim, TypeOK
  <2> QED
    BY <1>1, <1>6, <2>1
<1>7. ASSUME NEW w \in Worker, CompleteJob(w) \/ FailJob(w) PROVE SingleHanded'
  <2>1. /\ \A i \in Job : i # claim[w].job => job'[i] = job[i]
        /\ \A v \in Worker \ {w} : claim'[v] = claim[v]
        /\ claim'[w].job = None /\ overrun' = overrun
    BY <1>7, <1>0 DEF CompleteJob, FailJob, Settle, TypeOK, pastVars, NoClaim
  <2> QED
    BY <2>1, NoneAssumption DEF SingleHanded, Holds
<1>8. ASSUME NEW w \in Worker, FailJobThrows(w) \/ Crash(w) PROVE SingleHanded'
  BY <1>6, <1>8 DEF FailJobThrows, Crash, Leave
<1>9. ASSUME NEW w \in Runner, FindSequence(w) \/ CreateSequence(w) PROVE SingleHanded'
  <2>1. UNCHANGED claim \/ \E n : claim' = [claim EXCEPT ![w].sequence = n]
    BY <1>9 DEF FindSequence, CreateSequence
  <2>2. \A v \in Worker : claim'[v].job = claim[v].job
    BY <2>1, <1>0 DEF TypeOK
  <2> QED
    BY <1>1, <1>9, <2>2 DEF FindSequence, CreateSequence, Holds, pastVars
<1>10. CASE UNCHANGED vars \/ DayPasses \/ LockExpires \/ LockExpiresEarly \/ RedisGoes
            \/ RedisReturns
  BY <1>2, <1>10
  DEF vars, DayPasses, LockExpires, LockExpiresEarly, RedisGoes, RedisReturns, pastVars
<1>11. ASSUME NEW w \in Worker,
              StartPass(w) \/ EndPass(w) \/ ComputeFeatures(w) \/ CreateSnapshot(w)
       PROVE  SingleHanded'
  BY <1>2, <1>11 DEF StartPass, EndPass, ComputeFeatures, CreateSnapshot, Advance, pastVars
<1>12. ASSUME NEW w \in Runner,
              \/ Predict(w) \/ CheckLimits(w) \/ TimingFails(w) \/ InsertSend(w)
              \/ JobThrows(w)
       PROVE  SingleHanded'
  BY <1>2, <1>12 DEF JobThrows, Predict, CheckLimits, TimingFails, InsertSend, Advance, pastVars
<1>13. ASSUME NEW h \in Chain, EndChain(h) \/ \E c \in Cart : BeginChain(h, c)
       PROVE  SingleHanded'
  <2>1. \E r : claim' = [claim EXCEPT ![h] = r]
    BY <1>13 DEF EndChain, BeginChain
  <2>2. \A v \in Worker : claim'[v] = claim[v]
    BY <2>1, <1>0, Runners DEF TypeOK
  <2> QED
    BY <1>1, <1>13, <2>2 DEF EndChain, BeginChain, Holds, pastVars
<1> QED
  BY <1>0, <1>3, <1>4, <1>5, <1>7, <1>8, <1>9, <1>10, <1>11, <1>12, <1>13
  DEF Next, Work, ChainStep

(* A job that was completed is not reopened, although the outcome of an      *)
(* attempt is written by id alone, unless two workers had it at once.        *)
THEOREM CompletedStays == Spec => CompletedIsFinal
<1> DEFINE Kept == \A j \in Job \ overrun :
                      job[j].status = "completed" => job'[j].status = "completed"
<1>1. Typed /\ SingleHanded /\ [Next]_vars => [Kept]_vars
  <2> SUFFICES ASSUME Typed, SingleHanded, Next, NEW j \in Job \ overrun,
                      job[j].status = "completed"
               PROVE  job'[j].status = "completed"
    OBVIOUS
  <2>0. TypeOK /\ Worker \subseteq Runner /\ Chain \subseteq Runner
    BY Runners DEF Typed
  <2>1. ASSUME job'[j] = job[j] PROVE job'[j].status = "completed"
    BY <2>1
  <2>2. ASSUME NEW w \in Worker, CompleteJob(w) \/ FailJob(w)
        PROVE  job'[j].status = "completed"
    <3>1. claim[w].job # j
      <4>1. j \in Job /\ j \notin overrun
        OBVIOUS
      <4>2. job[j].status # "processing"
        OBVIOUS
      <4> QED
        BY <4>1, <4>2 DEF SingleHanded, Holds
    <3>2. PICK row : job' = [job EXCEPT ![claim[w].job] = row]
      BY <2>2 DEF CompleteJob, FailJob, Settle
    <3>3. job \in [Job -> JobRow]
      BY <2>0 DEF TypeOK
    <3>4. job'[j] = job[j]
      BY <3>1, <3>2, <3>3
    <3> QED
      BY <2>1, <3>4
  <2>3. ASSUME NEW i \in Job, Available(i) \/ Age(i) \/ AgeUnderWorker(i) \/ Ingest(i)
        PROVE  job'[j].status = "completed"
    BY <2>0, <2>3 DEF Available, Age, AgeUnderWorker, Ingest, TypeOK, JobRow
  <2>4. ASSUME NEW w \in Worker, NEW i \in Job, ClaimJob(w, i)
        PROVE  job'[j].status = "completed"
    BY <2>0, <2>4 DEF ClaimJob, Claimable, TypeOK
  <2>5. ASSUME NEW w \in Worker,
               \/ StartPass(w) \/ EndPass(w) \/ FailJobThrows(w) \/ Crash(w)
               \/ ComputeFeatures(w) \/ CreateSnapshot(w)
        PROVE  job'[j].status = "completed"
    BY <2>1, <2>5 DEF StartPass, EndPass, FailJobThrows, Crash, Leave, ComputeFeatures,
       CreateSnapshot, Advance
  <2>7. ASSUME NEW w \in Runner, ChainStep(w) \/ JobThrows(w)
        PROVE  job'[j].status = "completed"
    BY <2>1, <2>7 DEF ChainStep, JobThrows, Predict, CheckLimits, TimingFails, FindSequence,
       CreateSequence, InsertSend, Advance
  <2>8. ASSUME NEW h \in Chain, EndChain(h) \/ \E c \in Cart : BeginChain(h, c)
        PROVE  job'[j].status = "completed"
    BY <2>1, <2>8 DEF EndChain, BeginChain
  <2>6. CASE DayPasses \/ LockExpires \/ LockExpiresEarly \/ RedisGoes \/ RedisReturns
    BY <2>1, <2>6 DEF DayPasses, LockExpires, LockExpiresEarly, RedisGoes, RedisReturns
  <2> QED
    BY <2>0, <2>2, <2>3, <2>4, <2>5, <2>6, <2>7, <2>8 DEF Next, Work
<1>2. Init => SingleHanded
  BY NoneAssumption, Runners DEF Init, SingleHanded, Holds, NoClaim
<1> QED
  BY <1>1, <1>2, StepSingleHanded, TypeCorrect, PTL DEF Spec, CompletedIsFinal
=============================================================================
