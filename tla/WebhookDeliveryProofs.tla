----------------------- MODULE WebhookDeliveryProofs -----------------------
(* What holds of the delivery ledger for any number of deliveries, workers   *)
(* and faults.                                                               *)
EXTENDS WebhookDelivery, TLAPS

LEMMA RowType ==
    /\ Absent \in Row
    /\ purges \in 0..MaxFaults => Inserted \in Row
    /\ \A r \in Row : Retried(r) \in Row
    /\ \A r \in Row : Processed(r) \in Row
    /\ \A r \in Row : [r EXCEPT !.status = "failed", !.error = "processing_error"] \in Row
    /\ \A r \in Row : [r EXCEPT !.status = "failed", !.error = "abandoned"] \in Row
    /\ \A r \in Row : [r EXCEPT !.old = TRUE] \in Row
<1>1. Absent \in Row /\ (purges \in 0..MaxFaults => Inserted \in Row)
  BY FaultsAssumption DEF Absent, Inserted, Row
<1>2. \A r \in Row : Retried(r) \in Row
  BY DEF Retried, Row
<1>3. \A r \in Row : Processed(r) \in Row
  BY DEF Processed, Row
<1>4. \A r \in Row : [r EXCEPT !.status = "failed", !.error = "processing_error"] \in Row
  BY DEF Row
<1>5. \A r \in Row : [r EXCEPT !.status = "failed", !.error = "abandoned"] \in Row
  BY DEF Row
<1>6. \A r \in Row : [r EXCEPT !.old = TRUE] \in Row
  BY DEF Row
<1> QED
  BY <1>1, <1>2, <1>3, <1>4, <1>5, <1>6

(* A handler at work serves an event, so its statements address a row.  Only *)
(* its catch block follows a lost answer.  Each erasure is a fault, so their *)
(* number is bounded.                                                        *)
Serving ==
    /\ \A w \in Worker : pc[w] # "idle" => req[w] \in Event
    /\ \A w \in unsure : pc[w] = "markFailed"
    /\ purges <= faults

LEMMA IdType ==
    ASSUME NEW w \in Worker, req[w] \in Event
    PROVE  Id(w) \in Delivery
  BY IdAssumption DEF Id

LEMMA SetRowType ==
    ASSUME TypeOK, Serving, NEW w \in Worker, pc[w] # "idle", NEW r \in Row, SetRow(w, r)
    PROVE  row' \in [Delivery -> Row]
  BY IdType DEF TypeOK, Serving, SetRow

LEMMA StepType == TypeOK /\ Serving /\ [Next]_vars => TypeOK' /\ Serving'
<1> SUFFICES ASSUME TypeOK, Serving, [Next]_vars PROVE TypeOK' /\ Serving'
  OBVIOUS
<1>0. \A w \in Worker : pc[w] # "idle" => Id(w) \in Delivery
  BY IdType DEF Serving
<1> USE <1>0 DEF TypeOK, Serving
<1>1. CASE UNCHANGED vars
  BY <1>1 DEF vars
<1>2. ASSUME NEW w \in Worker, NEW e \in Event, Deliver(w, e) PROVE TypeOK' /\ Serving'
  BY <1>2 DEF Deliver, Location
<1>3. ASSUME NEW w \in Worker, pc[w] # "idle", Return(w),
             row' \in [Delivery -> Row],
             UNCHANGED <<sweep, purges, done, swept>>, acked' \in SUBSET Event,
             UNCHANGED faults \/ Fault
      PROVE  TypeOK' /\ Serving'
  BY <1>3, FaultsAssumption DEF Fault, Return, Location
<1>4. ASSUME NEW w \in Worker, NEW l \in Location, Goto(w, l), pc[w] \notin {"idle", "markFailed"},
             row' \in [Delivery -> Row], claim' \in [Worker -> 0..MaxFaults],
             UNCHANGED <<sweep, purges, acked, swept>>, done' \in SUBSET Event,
             UNCHANGED faults \/ Fault
      PROVE  TypeOK' /\ Serving'
  BY <1>4, FaultsAssumption DEF Fault, Goto
<1>5. ASSUME NEW w \in Worker, Create(w) PROVE TypeOK' /\ Serving'
  <2>1. row' \in [Delivery -> Row] /\ claim' \in [Worker -> 0..MaxFaults]
    BY <1>5, RowType DEF Create, SetRow, StartWork
  <2>2. PICK l \in {"process", "lookup"} : Goto(w, l)
    BY <1>5 DEF Create, StartWork
  <2> QED
    BY <1>4, <1>5, <2>1, <2>2 DEF Create, Location
<1>6. ASSUME NEW w \in Worker, Lookup(w) PROVE TypeOK' /\ Serving'
  <2>1. CASE row[Id(w)].status = "failed"
    BY <1>4, <1>6, <2>1 DEF Lookup, Location
  <2>2. CASE row[Id(w)].status # "failed"
    <3>1. pc[w] # "idle" /\ Id(w) \in Delivery
      BY <1>6 DEF Lookup
    <3>2. row[Id(w)].status \in {"absent", "processed", "received"}
      BY <2>2, <3>1 DEF Row
    <3>3. Respond200(w) \/ RespondError(w)
      BY <1>6, <3>2 DEF Lookup
    <3> QED
      BY <1>3, <1>6, <3>1, <3>3 DEF Lookup, Respond200, RespondError
  <2> QED
    BY <2>1, <2>2
<1>7. ASSUME NEW w \in Worker, Reclaim(w) PROVE TypeOK' /\ Serving'
  <2>1. row' \in [Delivery -> Row]
    <3>1. row[Id(w)] \in Row /\ pc[w] # "idle"
      BY <1>7 DEF Reclaim
    <3> QED
      BY <1>7, <3>1, RowType, SetRowType DEF Reclaim
  <2>2. PICK l \in {"verify", "latest"} : Goto(w, l)
    BY <1>7 DEF Reclaim
  <2> QED
    BY <1>4, <1>7, <2>1, <2>2 DEF Reclaim, Location
<1>8. ASSUME NEW w \in Worker, Verify(w) PROVE TypeOK' /\ Serving'
  <2>1. CASE row[Id(w)].status = "received"
    <3>1. claim' \in [Worker -> 0..MaxFaults]
      BY <1>8, <2>1 DEF Verify, StartWork, Row
    <3> QED
      BY <1>4, <1>8, <2>1, <3>1 DEF Verify, StartWork, Location
  <2>2. CASE row[Id(w)].status # "received"
    BY <1>3, <1>8, <2>2 DEF Verify, RespondError
  <2> QED
    BY <2>1, <2>2
<1>9. ASSUME NEW w \in Worker, Latest(w) PROVE TypeOK' /\ Serving'
  BY <1>3, <1>9 DEF Latest, Respond200, RespondError
<1>10. ASSUME NEW w \in Worker, Process(w) PROVE TypeOK' /\ Serving'
  BY <1>4, <1>10 DEF Process, Location
<1>11. ASSUME NEW w \in Worker, ProcessFails(w) PROVE TypeOK' /\ Serving'
  BY <1>4, <1>11 DEF ProcessFails, Location
<1>12. ASSUME NEW w \in Worker, MarkProcessed(w) PROVE TypeOK' /\ Serving'
  <2>1. CASE KeyFound(w)
    <3>1. row[Id(w)] \in Row /\ pc[w] # "idle"
      BY <1>12 DEF MarkProcessed
    <3>2. row' \in [Delivery -> Row]
      BY <1>12, <2>1, <3>1, RowType, SetRowType DEF MarkProcessed
    <3>3. acked' \in SUBSET Event
      BY <1>12, <2>1, <3>1 DEF MarkProcessed, Respond200
    <3> QED
      BY <1>3, <1>12, <2>1, <3>1, <3>2, <3>3 DEF MarkProcessed, Respond200
  <2>2. CASE ~KeyFound(w)
    BY <1>4, <1>12, <2>2 DEF MarkProcessed, Location
  <2> QED
    BY <2>1, <2>2
<1>13. ASSUME NEW w \in Worker, MarkFailed(w) PROVE TypeOK' /\ Serving'
  <2>1. row' \in [Delivery -> Row]
    <3>1. row[Id(w)] \in Row /\ pc[w] # "idle"
      BY <1>13 DEF MarkFailed
    <3> QED
      BY <1>13, <3>1, RowType, SetRowType DEF MarkFailed
  <2> QED
    BY <1>3, <1>13, <2>1 DEF MarkFailed, RespondError
<1>20. ASSUME NEW w \in Worker, MarkUnanswered(w) PROVE TypeOK' /\ Serving'
  <2>1. row' \in [Delivery -> Row]
    <3>1. row[Id(w)] \in Row /\ pc[w] # "idle"
      BY <1>20 DEF MarkUnanswered
    <3> QED
      BY <1>20, <3>1, RowType, SetRowType DEF MarkUnanswered
  <2>2. unsure' \in SUBSET Worker
    BY <1>20 DEF MarkUnanswered
  <2>3. faults' \in faults..MaxFaults
    BY <1>20, FaultsAssumption DEF MarkUnanswered, Fault
  <2> QED
    BY <1>20, <2>1, <2>2, <2>3 DEF MarkUnanswered, Location
<1>14. ASSUME NEW w \in Worker, StatementFails(w) PROVE TypeOK' /\ Serving'
  <2>1. CASE pc[w] = "markProcessed"
    BY <1>4, <1>14, <2>1 DEF StatementFails, Location
  <2>2. CASE pc[w] # "markProcessed"
    BY <1>3, <1>14, <2>2 DEF StatementFails, RespondError
  <2> QED
    BY <2>1, <2>2
<1>15. ASSUME NEW w \in Worker, Crash(w) PROVE TypeOK' /\ Serving'
  BY <1>3, <1>15 DEF Crash
<1>16. CASE SweepRead
  BY <1>16 DEF SweepRead, Row
<1>17. CASE SweepUpdate
  <2>1. row' \in [Delivery -> Row]
    BY <1>17, RowType DEF SweepUpdate, Fail, SweptNow
  <2> QED
    BY <1>17, <2>1 DEF SweepUpdate, Fail, SweptNow
<1>18. ASSUME NEW d \in Delivery, Age(d) \/ AgeUnderWorker(d) PROVE TypeOK' /\ Serving'
  <2>1. row' \in [Delivery -> Row]
    <3>1. row' = [row EXCEPT ![d] = [row[d] EXCEPT !.old = TRUE]]
      BY <1>18 DEF Age, AgeUnderWorker
    <3> QED
      BY <3>1, RowType
  <2>2. faults' \in faults..MaxFaults
    BY <1>18, FaultsAssumption DEF Age, AgeUnderWorker, Fault
  <2> QED
    BY <1>18, <2>1, <2>2 DEF Age, AgeUnderWorker
<1>19. CASE Purge
  <2>1. row' \in [Delivery -> Row]
    BY <1>19, RowType DEF Purge
  <2>2. purges' \in 0..MaxFaults /\ faults' \in 0..MaxFaults /\ purges' <= faults'
    BY <1>19, FaultsAssumption DEF Purge, Fault
  <2> QED
    BY <1>19, <2>1, <2>2 DEF Purge
<1> QED
  BY <1>1, <1>2, <1>5, <1>6, <1>7, <1>8, <1>9, <1>10, <1>11, <1>12, <1>13, <1>14, <1>15,
     <1>16, <1>17, <1>18, <1>19, <1>20 DEF Next, Serve

(* The variables keep their types, and erasures stay within the faults.      *)
THEOREM TypeCorrect == Spec => [](TypeOK /\ Serving)
<1>1. Init => TypeOK /\ Serving
  <2> SUFFICES ASSUME Init PROVE TypeOK /\ Serving
    OBVIOUS
  <2>1. row \in [Delivery -> Row] /\ claim \in [Worker -> 0..MaxFaults]
    <3>1. 0 \in 0..MaxFaults
      BY FaultsAssumption
    <3>2. Absent \in Row
      BY RowType
    <3> QED
      BY <3>1, <3>2 DEF Init
  <2>2. pc \in [Worker -> Location] /\ req \in [Worker -> Event \cup {None}]
    BY DEF Init, Location
  <2> QED
    BY <2>1, <2>2, FaultsAssumption DEF Init, TypeOK, Serving
<1> QED
  BY <1>1, StepType, PTL DEF Spec

----------------------------------------------------------------------------
(* No lost event.  A row says processed, and a handler is about to say so,   *)
(* only of an id one of whose events was processed; every 2xx comes from one *)
(* of the two.                                                               *)

Answerable(d) == \E e \in done : deliveryId[e] = d
Accounted ==
    /\ \A d \in Delivery : row[d].status = "processed" => Answerable(d)
    /\ \A w \in Worker : pc[w] = "markProcessed" => req[w] \in done
    /\ \A e \in acked : Answerable(deliveryId[e])

LEMMA MoreAnswerable ==
    ASSUME done \subseteq done', NEW d, Answerable(d)
    PROVE  Answerable(d)'
  BY DEF Answerable

LEMMA AccountedStep ==
    TypeOK /\ Serving /\ Accounted /\ [Next]_vars => Accounted'
<1> SUFFICES ASSUME TypeOK, Serving, Accounted, [Next]_vars PROVE Accounted'
  OBVIOUS
<1>0. \A w \in Worker : pc[w] # "idle" => req[w] \in Event /\ Id(w) \in Delivery
  BY IdType DEF Serving
<1> USE <1>0 DEF TypeOK, Accounted
<1>1. CASE UNCHANGED vars
  BY <1>1 DEF vars, Answerable
<1>2. ASSUME NEW w \in Worker, NEW e \in Event, Deliver(w, e) PROVE Accounted'
  BY <1>2 DEF Deliver, Answerable
<1>3. ASSUME NEW w \in Worker, Return(w), UNCHANGED <<row, done>>,
             \A e \in acked' : Answerable(deliveryId[e])
      PROVE  Accounted'
  BY <1>3 DEF Return, Answerable
<1>4. ASSUME NEW w \in Worker, NEW l \in Location \ {"markProcessed"}, Goto(w, l),
             UNCHANGED <<row, acked>>, done \subseteq done'
      PROVE  Accounted'
  BY <1>4, MoreAnswerable DEF Goto
<1>5. ASSUME NEW w \in Worker, Create(w) PROVE Accounted'
  <2>1. \A d \in Delivery : row'[d].status = "processed" => row[d].status = "processed"
    BY <1>5 DEF Create, SetRow, Inserted
  <2> QED
    BY <1>5, <2>1 DEF Create, Goto, StartWork, Answerable
<1>6. ASSUME NEW w \in Worker, Lookup(w) PROVE Accounted'
  <2>1. pc[w] # "idle" /\ Id(w) \in Delivery
    BY <1>6 DEF Lookup
  <2>2. CASE row[Id(w)].status = "failed"
    BY <1>4, <1>6, <2>2 DEF Lookup, Location
  <2>3. CASE row[Id(w)].status = "processed"
    BY <1>3, <1>6, <2>1, <2>3 DEF Lookup, Respond200, Id
  <2>4. CASE row[Id(w)].status \in {"absent", "received"}
    <3>1. RespondError(w)
      BY <1>6, <2>4 DEF Lookup
    <3> QED
      BY <1>3, <1>6, <3>1 DEF Lookup, RespondError
  <2> QED
    BY <2>1, <2>2, <2>3, <2>4 DEF Row
<1>7. ASSUME NEW w \in Worker, Reclaim(w) PROVE Accounted'
  <2>1. \A d \in Delivery : row'[d].status = "processed" => row[d].status = "processed"
    BY <1>7 DEF Reclaim, SetRow, Retried, Row
  <2> QED
    BY <1>7, <2>1 DEF Reclaim, Goto, Answerable
<1>8. ASSUME NEW w \in Worker, Verify(w) PROVE Accounted'
  BY <1>3, <1>4, <1>8 DEF Verify, StartWork, RespondError, Location
<1>9. ASSUME NEW w \in Worker, Latest(w) PROVE Accounted'
  <2>1. pc[w] # "idle" /\ Id(w) \in Delivery
    BY <1>9 DEF Latest
  <2> QED
    BY <1>3, <1>9, <2>1 DEF Latest, Respond200, RespondError, Id
<1>10. ASSUME NEW w \in Worker, Process(w) PROVE Accounted'
  BY <1>10, MoreAnswerable DEF Process, Goto
<1>11. ASSUME NEW w \in Worker, ProcessFails(w) PROVE Accounted'
  BY <1>4, <1>11 DEF ProcessFails, Location
<1>12. ASSUME NEW w \in Worker, MarkProcessed(w) PROVE Accounted'
  <2>1. CASE KeyFound(w)
    <3>1. \A d \in Delivery : d # Id(w) => row'[d] = row[d]
      BY <1>12, <2>1 DEF MarkProcessed, SetRow
    <3>2. \A v \in Worker : pc'[v] = "markProcessed" => v # w /\ pc[v] = pc'[v]
      BY <1>12, <2>1 DEF MarkProcessed, Respond200, Return
    <3>3. Answerable(Id(w))
      BY <1>12 DEF MarkProcessed, Answerable, Id
    <3>4. acked' = acked \cup {req[w]} /\ UNCHANGED done
      BY <1>12, <2>1 DEF MarkProcessed, Respond200
    <3>5. \A v \in Worker \ {w} : req'[v] = req[v]
      BY <1>12, <2>1 DEF MarkProcessed, Respond200, Return
    <3> QED
      BY <3>1, <3>2, <3>3, <3>4, <3>5 DEF Answerable, Id
  <2>2. CASE ~KeyFound(w)
    BY <1>4, <1>12, <2>2 DEF MarkProcessed, Location
  <2> QED
    BY <2>1, <2>2
<1>20. ASSUME NEW w \in Worker, MarkUnanswered(w) PROVE Accounted'
  <2>1. \A d \in Delivery : d # Id(w) => row'[d] = row[d]
    BY <1>20 DEF MarkUnanswered, SetRow
  <2>2. \A v \in Worker : pc'[v] = "markProcessed" => pc[v] = "markProcessed"
    BY <1>20 DEF MarkUnanswered
  <2>3. Answerable(Id(w))
    BY <1>20 DEF MarkUnanswered, Answerable, Id
  <2>4. UNCHANGED <<acked, done, req>>
    BY <1>20 DEF MarkUnanswered
  <2> QED
    BY <2>1, <2>2, <2>3, <2>4 DEF Answerable
<1>13. ASSUME NEW w \in Worker, MarkFailed(w) PROVE Accounted'
  <2>1. \A d \in Delivery : row'[d].status = "processed" => row[d].status = "processed"
    BY <1>13 DEF MarkFailed, SetRow, Row
  <2> QED
    BY <1>13, <2>1 DEF MarkFailed, RespondError, Return, Answerable
<1>14. ASSUME NEW w \in Worker, StatementFails(w) PROVE Accounted'
  BY <1>3, <1>4, <1>14 DEF StatementFails, RespondError, Location
<1>15. ASSUME NEW w \in Worker, Crash(w) PROVE Accounted'
  BY <1>3, <1>15 DEF Crash
<1>16. CASE SweepRead
  BY <1>16 DEF SweepRead, Answerable
<1>17. CASE SweepUpdate
  <2>1. \A d \in Delivery : row'[d].status = "processed" => row[d].status = "processed"
    BY <1>17 DEF SweepUpdate, Fail, Row
  <2> QED
    BY <1>17, <2>1 DEF SweepUpdate, Fail, Answerable
<1>18. ASSUME NEW d \in Delivery, Age(d) \/ AgeUnderWorker(d) PROVE Accounted'
  <2>1. \A e \in Delivery : row'[e].status = row[e].status
    BY <1>18 DEF Age, AgeUnderWorker, Row
  <2> QED
    BY <1>18, <2>1 DEF Age, AgeUnderWorker, Answerable
<1>19. CASE Purge
  <2>1. \A d \in Delivery : row'[d].status = "absent"
    BY <1>19 DEF Purge, Absent
  <2> QED
    BY <1>19, <2>1 DEF Purge, Answerable
<1> QED
  BY <1>1, <1>2, <1>5, <1>6, <1>7, <1>8, <1>9, <1>10, <1>11, <1>12, <1>13, <1>14, <1>15,
     <1>16, <1>17, <1>18, <1>19, <1>20 DEF Next, Serve

(* Whatever duplicates, retries, sweeps, erasures and crashes do, an event   *)
(* is answered 2xx only once processCommerceWebhook has handled it or, where *)
(* ids are shared, another event of its id.                                  *)
THEOREM NothingLost == Spec => []NoEventLost
<1>1. Init => Accounted
  BY DEF Init, Accounted, Absent
<1>2. Accounted => NoEventLost
  BY DEF Accounted, Answerable, NoEventLost
<1> QED
  BY <1>1, <1>2, TypeCorrect, AccountedStep, PTL DEF Spec

(* Hence nothing is lost of a provider whose ids name one event each, as     *)
(* x-shopify-webhook-id does (AckedWasProcessed).                            *)
THEOREM DistinctIdsLoseNothing ==
    ASSUME \A e, f \in Event : deliveryId[e] = deliveryId[f] => e = f
    PROVE  Spec => []AckedWasProcessed
<1>1. TypeOK /\ NoEventLost => AckedWasProcessed
  BY DEF TypeOK, NoEventLost, AckedWasProcessed
<1> QED
  BY <1>1, NothingLost, TypeCorrect, PTL

----------------------------------------------------------------------------
(* One worker to a row.  Before any erasure, a handler that holds a delivery *)
(* the sweep has never failed finds its row `received`, or `processed` if it *)
(* wrote that itself, and holds it alone: only the insert and the conditional *)
(* update lead to work, and each needs a status that no holder leaves behind. *)

Left(w) == IF w \in unsure THEN "processed" ELSE "received"
Held(d) == \E w \in Worker : Holds(w, d)
Owned ==
    purges = 0 =>
        \A d \in Delivery \ swept :
            /\ \A w \in Worker : Holds(w, d) => row[d].status = Left(w)
            /\ \A v, w \in Worker : Holds(v, d) /\ Holds(w, d) => v = w

(* A step of one handler that lets go of its delivery, or leaves every row   *)
(* and holder alone, keeps the others' ownership.                            *)
LEMMA OwnedKept ==
    ASSUME Owned, NEW x \in Delivery, UNCHANGED <<purges, swept>>,
           \A d \in Delivery \ {x} : row'[d].status = row[d].status,
           \A d \in Delivery, v \in Worker : Holds(v, d)' => Holds(v, d) /\ Left(v)' = Left(v),
           Held(x)' => row'[x].status = row[x].status
    PROVE  Owned'
<1> SUFFICES ASSUME purges' = 0, NEW d \in Delivery \ swept'
             PROVE  /\ \A w \in Worker : Holds(w, d)' => row'[d].status = Left(w)'
                    /\ \A v, w \in Worker : Holds(v, d)' /\ Holds(w, d)' => v = w
  BY DEF Owned
<1>1. \A w \in Worker : Holds(w, d) => row[d].status = Left(w)
  BY DEF Owned
<1>2. Held(d)' => row'[d].status = row[d].status
  OBVIOUS
<1>3. \A v, w \in Worker : Holds(v, d) /\ Holds(w, d) => v = w
  BY DEF Owned
<1> QED
  BY <1>1, <1>2, <1>3 DEF Held

(* A step of one handler that takes a delivery nobody holds.                 *)
LEMMA OwnedTaken ==
    ASSUME Owned, NEW x \in Delivery, NEW u \in Worker, UNCHANGED <<purges, swept>>,
           purges = 0 /\ x \notin swept => ~Held(x),
           row'[x].status = "received", u \notin unsure, UNCHANGED unsure,
           \A d \in Delivery \ {x} : row'[d].status = row[d].status,
           \A d \in Delivery, v \in Worker :
              Holds(v, d)' => Holds(v, d) \/ (v = u /\ d = x)
    PROVE  Owned'
<1> SUFFICES ASSUME purges' = 0, NEW d \in Delivery \ swept'
             PROVE  /\ \A w \in Worker : Holds(w, d)' => row'[d].status = Left(w)'
                    /\ \A v, w \in Worker : Holds(v, d)' /\ Holds(w, d)' => v = w
  BY DEF Owned
<1>1. CASE d = x
  BY <1>1 DEF Held, Left
<1>2. CASE d # x
  <2>1. \A w \in Worker : Holds(w, d)' => Holds(w, d) /\ Left(w)' = Left(w)
    BY <1>2 DEF Left
  <2>2. /\ \A w \in Worker : Holds(w, d) => row[d].status = Left(w)
        /\ \A v, w \in Worker : Holds(v, d) /\ Holds(w, d) => v = w
    BY DEF Owned
  <2> QED
    BY <1>2, <2>1, <2>2
<1> QED
  BY <1>1, <1>2

LEMMA OwnedStep ==
    TypeOK /\ Serving /\ Owned /\ [Next]_vars => Owned'
<1> SUFFICES ASSUME TypeOK, Serving, Owned, [Next]_vars PROVE Owned'
  OBVIOUS
<1>0. /\ \A w \in Worker : pc[w] # "idle" => req[w] \in Event /\ Id(w) \in Delivery
      /\ \A w \in unsure : pc[w] = "markFailed"
  BY IdType DEF Serving
<1> USE <1>0, NoneAssumption DEF TypeOK
<1>1. CASE UNCHANGED vars
  <2>1. UNCHANGED <<row, purges, swept, pc, req, unsure>>
    BY <1>1 DEF vars
  <2> QED
    BY <2>1 DEF Owned, Holds, Serves, Id, Left
<1>2. ASSUME NEW w \in Worker, NEW e \in Event, Deliver(w, e) PROVE Owned'
  <2>1. \A d \in Delivery, v \in Worker :
           Holds(v, d)' => Holds(v, d) /\ Left(v)' = Left(v)
    BY <1>2 DEF Deliver, Holds, Serves, Id, Left
  <2>2. deliveryId[e] \in Delivery
    BY IdAssumption
  <2> QED
    BY <1>2, <2>1, <2>2, OwnedKept DEF Deliver
<1>3. ASSUME NEW w \in Worker, Return(w), pc[w] # "idle", UNCHANGED <<row, purges, swept>>
      PROVE  Owned'
  <2>1. \A d \in Delivery, v \in Worker :
           Holds(v, d)' => Holds(v, d) /\ Left(v)' = Left(v)
    BY <1>3 DEF Return, Holds, Serves, Id, Left
  <2> QED
    BY <1>3, <2>1, OwnedKept
<1>4. ASSUME NEW w \in Worker, NEW l \in Location, Goto(w, l), pc[w] # "idle",
             UNCHANGED <<row, purges, swept>>,
             l \in {"lookup", "reclaim", "latest"} \/ Holds(w, Id(w))
      PROVE  Owned'
  <2>1. \A d \in Delivery, v \in Worker :
           Holds(v, d)' => Holds(v, d) /\ Left(v)' = Left(v)
    BY <1>4 DEF Goto, Holds, Serves, Id, Left
  <2> QED
    BY <1>4, <2>1, OwnedKept
<1>5. ASSUME NEW w \in Worker, Create(w) PROVE Owned'
  <2>1. pc[w] = "create" /\ Id(w) \in Delivery /\ w \notin unsure
    BY <1>5 DEF Create
  <2>2. CASE row[Id(w)].status = "absent"
    <3>1. purges = 0 /\ Id(w) \notin swept => ~Held(Id(w))
      BY <2>1, <2>2 DEF Owned, Held, Left
    <3>2. row' = [row EXCEPT ![Id(w)] = Inserted] /\ UNCHANGED <<purges, swept, unsure>>
      BY <1>5, <2>2 DEF Create, SetRow, StartWork, Goto
    <3>3. row'[Id(w)].status = "received"
      BY <2>1, <3>2 DEF Inserted
    <3>4. \A d \in Delivery, v \in Worker :
             Holds(v, d)' => Holds(v, d) \/ (v = w /\ d = Id(w))
      BY <1>5, <2>2 DEF Create, StartWork, Goto, Holds, Serves, Id
    <3>5. \A d \in Delivery \ {Id(w)} : row'[d].status = row[d].status
      BY <3>2
    <3> QED
      BY <2>1, <3>1, <3>2, <3>3, <3>4, <3>5, OwnedTaken
  <2>3. CASE row[Id(w)].status # "absent"
    BY <1>4, <1>5, <2>1, <2>3 DEF Create, Location
  <2> QED
    BY <2>2, <2>3
<1>6. ASSUME NEW w \in Worker, Lookup(w) PROVE Owned'
  <2>1. pc[w] # "idle" /\ Id(w) \in Delivery
    BY <1>6 DEF Lookup
  <2>2. CASE row[Id(w)].status = "failed"
    BY <1>4, <1>6, <2>1, <2>2 DEF Lookup, Location
  <2>3. CASE row[Id(w)].status \in {"absent", "processed", "received"}
    <3>1. Return(w)
      BY <1>6, <2>3 DEF Lookup, Respond200, RespondError
    <3> QED
      BY <1>3, <1>6, <2>1, <3>1 DEF Lookup
  <2> QED
    BY <2>1, <2>2, <2>3 DEF Row
<1>7. ASSUME NEW w \in Worker, Reclaim(w) PROVE Owned'
  <2>1. pc[w] = "reclaim" /\ Id(w) \in Delivery /\ w \notin unsure
    BY <1>7 DEF Reclaim
  <2>2. CASE row[Id(w)].status = "failed"
    <3>1. purges = 0 /\ Id(w) \notin swept => ~Held(Id(w))
      BY <2>1, <2>2 DEF Owned, Held, Left
    <3>2. row' = [row EXCEPT ![Id(w)] = Retried(row[Id(w)])]
          /\ UNCHANGED <<purges, swept, unsure>>
      BY <1>7, <2>2 DEF Reclaim, SetRow, Goto
    <3>3. row'[Id(w)].status = "received"
      BY <2>1, <3>2 DEF Retried, Row
    <3>4. \A d \in Delivery, v \in Worker :
             Holds(v, d)' => Holds(v, d) \/ (v = w /\ d = Id(w))
      BY <1>7, <2>2 DEF Reclaim, Goto, Holds, Serves, Id
    <3>5. \A d \in Delivery \ {Id(w)} : row'[d].status = row[d].status
      BY <3>2
    <3> QED
      BY <2>1, <3>1, <3>2, <3>3, <3>4, <3>5, OwnedTaken
  <2>3. CASE row[Id(w)].status # "failed"
    BY <1>4, <1>7, <2>1, <2>3 DEF Reclaim, Location
  <2> QED
    BY <2>2, <2>3
<1>8. ASSUME NEW w \in Worker, Verify(w) PROVE Owned'
  <2>1. pc[w] # "idle" /\ Holds(w, Id(w))
    BY <1>8 DEF Verify, Holds, Serves
  <2> QED
    BY <1>3, <1>4, <1>8, <2>1 DEF Verify, StartWork, RespondError, Location
<1>9. ASSUME NEW w \in Worker, Latest(w) PROVE Owned'
  BY <1>3, <1>9 DEF Latest, Respond200, RespondError
<1>10. ASSUME NEW w \in Worker, Process(w) \/ ProcessFails(w) PROVE Owned'
  <2>1. pc[w] # "idle" /\ Holds(w, Id(w))
    BY <1>10 DEF Process, ProcessFails, Holds, Serves
  <2> QED
    BY <1>4, <1>10, <2>1 DEF Process, ProcessFails, Location
<1>11. ASSUME NEW w \in Worker, MarkProcessed(w) \/ MarkFailed(w) PROVE Owned'
  <2>1. pc[w] # "idle" /\ Id(w) \in Delivery /\ Holds(w, Id(w))
    BY <1>11 DEF MarkProcessed, MarkFailed, Holds, Serves
  <2>2. CASE Return(w)
    <3>1. \A d \in Delivery, v \in Worker :
             Holds(v, d)' => Holds(v, d) /\ v # w /\ Left(v)' = Left(v)
      BY <2>2 DEF Return, Holds, Serves, Id, Left
    <3>2. UNCHANGED <<purges, swept>> /\ \A d \in Delivery \ {Id(w)} : row'[d] = row[d]
      BY <1>11 DEF MarkProcessed, MarkFailed, SetRow
    <3>3. CASE purges = 0 /\ Id(w) \notin swept
      <4>0. PICK x \in Delivery : x = Id(w)
        BY <2>1
      <4>1. x \in Delivery \ swept /\ Holds(w, x)
        BY <2>1, <3>3, <4>0
      <4>2. \A v \in Worker : Holds(v, x) => v = w
        BY <3>3, <4>1 DEF Owned
      <4>3. \A d \in Delivery \ {x} : row'[d].status = row[d].status
        BY <3>2, <4>0
      <4>4. ~(\E v \in Worker : Holds(v, x)')
        BY <3>1, <4>1, <4>2
      <4> SUFFICES ASSUME purges' = 0, NEW d \in Delivery \ swept'
                   PROVE  /\ \A v \in Worker : Holds(v, d)' => row'[d].status = Left(v)'
                          /\ \A u, v \in Worker : Holds(u, d)' /\ Holds(v, d)' => u = v
        BY DEF Owned
      <4>5. CASE d = x
        BY <4>4, <4>5
      <4>6. CASE d # x
        <5>1. /\ \A v \in Worker : Holds(v, d) => row[d].status = Left(v)
              /\ \A u, v \in Worker : Holds(u, d) /\ Holds(v, d) => u = v
          BY <3>2, <3>3 DEF Owned
        <5> QED
          BY <3>1, <4>3, <4>6, <5>1
      <4> QED
        BY <4>5, <4>6
    <3>4. CASE purges # 0 \/ Id(w) \in swept
      BY <2>1, <3>1, <3>2, <3>4 DEF Owned
    <3> QED
      BY <3>3, <3>4
  <2>3. CASE Goto(w, "markFailed") /\ UNCHANGED row
    BY <1>4, <1>11, <2>1, <2>3 DEF MarkProcessed, MarkFailed, Location
  <2> QED
    BY <1>11, <2>2, <2>3 DEF MarkProcessed, MarkFailed, Respond200, RespondError
<1>18. ASSUME NEW w \in Worker, MarkUnanswered(w) PROVE Owned'
  <2>1. Id(w) \in Delivery /\ Holds(w, Id(w))
    BY <1>18 DEF MarkUnanswered, Holds, Serves
  <2>2. \A d \in Delivery, v \in Worker : Holds(v, d)' => Holds(v, d)
    BY <1>18 DEF MarkUnanswered, Holds, Serves, Id
  <2>3. /\ UNCHANGED <<purges, swept>>
        /\ row' = [row EXCEPT ![Id(w)] = Processed(row[Id(w)])]
        /\ unsure' = unsure \cup {w}
    BY <1>18 DEF MarkUnanswered, SetRow
  <2>4. row'[Id(w)].status = "processed" /\ \A d \in Delivery \ {Id(w)} : row'[d] = row[d]
    BY <2>1, <2>3 DEF Processed, Row
  <2>5. Left(w)' = "processed" /\ \A v \in Worker \ {w} : Left(v)' = Left(v)
    BY <2>3 DEF Left
  <2> SUFFICES ASSUME purges' = 0, NEW d \in Delivery \ swept'
               PROVE  /\ \A v \in Worker : Holds(v, d)' => row'[d].status = Left(v)'
                      /\ \A u, v \in Worker : Holds(u, d)' /\ Holds(v, d)' => u = v
    BY DEF Owned
  <2>6. /\ \A v \in Worker : Holds(v, d) => row[d].status = Left(v)
        /\ \A u, v \in Worker : Holds(u, d) /\ Holds(v, d) => u = v
    BY <2>3 DEF Owned
  <2>7. Holds(w, d) => d = Id(w)
    BY DEF Holds, Serves
  <2> QED
    BY <2>1, <2>2, <2>4, <2>5, <2>6, <2>7
<1>12. ASSUME NEW w \in Worker, StatementFails(w) PROVE Owned'
  <2>1. CASE pc[w] = "markProcessed"
    BY <1>4, <1>12, <2>1 DEF StatementFails, Holds, Serves, Location
  <2>2. CASE pc[w] # "markProcessed"
    BY <1>3, <1>12, <2>2 DEF StatementFails, RespondError
  <2> QED
    BY <2>1, <2>2
<1>13. ASSUME NEW w \in Worker, Crash(w) PROVE Owned'
  BY <1>3, <1>13 DEF Crash
<1>14. CASE SweepRead
  BY <1>14 DEF SweepRead, Owned, Holds, Serves, Id, Left
<1>15. CASE SweepUpdate
  <2>1. UNCHANGED <<purges, pc, req, unsure>> /\ swept \subseteq swept'
    BY <1>15 DEF SweepUpdate, Fail
  <2>2. \A d \in Delivery \ swept' : row'[d] = row[d]
    BY <1>15 DEF SweepUpdate, Fail, SweptNow
  <2> QED
    BY <2>1, <2>2 DEF Owned, Holds, Serves, Id, Left
<1>16. ASSUME NEW d \in Delivery, Age(d) \/ AgeUnderWorker(d) PROVE Owned'
  <2>1. \A e \in Delivery : row'[e].status = row[e].status
    BY <1>16 DEF Age, AgeUnderWorker, Row
  <2>2. UNCHANGED <<purges, pc, req, unsure, swept>>
    BY <1>16 DEF Age, AgeUnderWorker
  <2> QED
    BY <2>1, <2>2 DEF Owned, Holds, Serves, Id, Left
<1>17. CASE Purge
  <2>1. purges' # 0
    BY <1>17 DEF Purge
  <2> QED
    BY <2>1 DEF Owned
<1> QED
  BY <1>1, <1>2, <1>5, <1>6, <1>7, <1>8, <1>9, <1>10, <1>11, <1>12, <1>13, <1>14, <1>15,
     <1>16, <1>17, <1>18 DEF Next, Serve

THEOREM RowsHaveOneOwner == Spec => [](TypeOK /\ Serving /\ Owned)
<1>1. Init => Owned
  BY DEF Init, Owned, Holds
<1> QED
  BY <1>1, TypeCorrect, OwnedStep, PTL DEF Spec

(* Duplicates and retries never put two workers on one claim of a row, for   *)
(* any number of events, ids and workers, as long as nobody took it away.    *)
THEOREM OneWorker == Spec => []OneWorkerPerRow
<1>1. TypeOK /\ Serving /\ Owned => OneWorkerPerRow
  <2> SUFFICES ASSUME TypeOK, Serving, Owned, NEW v \in Worker, NEW w \in Worker,
                      Working(v), Working(w), Id(v) = Id(w), Id(v) \notin swept, purges = 0
               PROVE  v = w
    BY DEF OneWorkerPerRow
  <2>1. req[v] \in Event /\ req[w] \in Event
    BY DEF Serving, Working
  <2>2. Id(v) \in Delivery
    BY <2>1, IdType
  <2>3. Holds(v, Id(v)) /\ Holds(w, Id(v))
    BY <2>1, NoneAssumption DEF Holds, Serves, Working
  <2> QED
    BY <2>2, <2>3 DEF Owned
<1> QED
  BY <1>1, RowsHaveOneOwner, PTL

(* A processed delivery stays processed unless the sweep or an erasure took  *)
(* it from its worker, or that worker missed the answer to its own mark: a   *)
(* mark needs a row in flight, and only the writer of `processed` is at it.  *)
THEOREM ProcessedStays == Spec => ProcessedIsFinal
<1> DEFINE Kept == \A d \in Delivery \ swept :
                      row[d].status = "processed" /\ purges' = 0
                         => \/ row'[d].status = "processed"
                            \/ \E w \in unsure : Holds(w, d) /\ ~Holds(w, d)'
<1>1. TypeOK /\ Serving /\ Owned /\ [Next]_vars => [Kept]_vars
  <2> SUFFICES ASSUME TypeOK, Serving, Owned, Next, NEW d \in Delivery \ swept,
                      row[d].status = "processed", purges' = 0
               PROVE  \/ row'[d].status = "processed"
                      \/ \E w \in unsure : Holds(w, d) /\ ~Holds(w, d)'
    OBVIOUS
  <2> USE NoneAssumption DEF TypeOK
  <2>0. \A w \in Worker : pc[w] # "idle" => req[w] \in Event /\ Id(w) \in Delivery
    BY IdType DEF Serving
  <2>1. CASE Purge
    BY <2>1 DEF Purge
  <2>2. ASSUME purges = 0, NEW w \in Worker, MarkFailed(w)
        PROVE  \/ row'[d].status = "processed"
               \/ \E v \in unsure : Holds(v, d) /\ ~Holds(v, d)'
    <3>1. CASE Id(w) = d
      <4>1. Holds(w, d)
        BY <2>0, <2>2, <3>1 DEF MarkFailed, Holds, Serves
      <4>2. w \in unsure
        BY <2>2, <4>1 DEF Owned, Left
      <4>3. ~Holds(w, d)'
        BY <2>2 DEF MarkFailed, RespondError, Return, Holds
      <4> QED
        BY <4>1, <4>2, <4>3
    <3>2. CASE Id(w) # d
      BY <2>2, <3>2 DEF MarkFailed, SetRow
    <3> QED
      BY <3>1, <3>2
  <2>3. ASSUME NEW w \in Worker, Create(w) \/ Reclaim(w) PROVE row'[d].status = "processed"
    BY <2>0, <2>3 DEF Create, Reclaim, SetRow
  <2>4. CASE SweepUpdate
    BY <2>4 DEF SweepUpdate, Fail, SweptNow
  <2>5. ASSUME NEW e \in Delivery, Age(e) \/ AgeUnderWorker(e)
        PROVE  row'[d].status = "processed"
    BY <2>5 DEF Age, AgeUnderWorker, Row
  <2>6. ASSUME UNCHANGED row PROVE row'[d].status = "processed"
    BY <2>6
  <2>7. ASSUME NEW w \in Worker, MarkProcessed(w) \/ MarkUnanswered(w)
        PROVE  row'[d].status = "processed"
    <3>1. Id(w) \in Delivery
      BY <2>0, <2>7 DEF MarkProcessed, MarkUnanswered
    <3>2. row' \in {row, [row EXCEPT ![Id(w)] = Processed(row[Id(w)])]}
      BY <2>7 DEF MarkProcessed, MarkUnanswered, SetRow
    <3>3. Processed(row[Id(w)]).status = "processed"
      BY <3>1 DEF Processed, Row
    <3> QED
      BY <3>1, <3>2, <3>3
  <2> QED
    BY <2>1, <2>2, <2>3, <2>4, <2>5, <2>6, <2>7
    DEF Next, Serve, Deliver, Lookup, Verify, Latest, Process, ProcessFails, StatementFails,
        Crash, SweepRead, MarkFailed
<1> QED
  BY <1>1, RowsHaveOneOwner, PTL DEF Spec, ProcessedIsFinal
=============================================================================
