------------------------ MODULE StoreLifecycleProofs ------------------------
(* What holds of a store's synchronizations and erasures for any numbers of  *)
(* runs, handlers and uninstalls, and any number of faults.                  *)
EXTENDS StoreLifecycle, TLAPS

----------------------------------------------------------------------------
(* Types, in three parts as the actions come in three groups.                *)

StoreTyped ==
    /\ status \in {"active", "syncing", "inactive", "redacted"}
    /\ token \in BOOLEAN /\ old \in BOOLEAN
    /\ rows \subseteq Kind
    /\ writes \in 0..MaxWrites /\ faults \in 0..MaxFaults
SyncTyped ==
    /\ lock \in Run \cup {NoRun}
    /\ sync \in [Run -> [at : SyncAt, key : BOOLEAN]]
    /\ lapsed \subseteq Run
EraseTyped ==
    /\ cycles \in 0..MaxCycles
    /\ notice \in [Cycle -> {"none", "due", "sent", "acked"}]
    /\ delivery \in [Cycle -> {"absent", "received", "processed", "failed"}]
    /\ request \in {"absent", "processing", "completed", "failed"}
    /\ redact \in [Handler -> Erasure]
    /\ owed \in [Cycle -> SUBSET Kind]

LEMMA Counters ==
    ASSUME TypeOK
    PROVE  /\ Fault \/ UNCHANGED faults => faults' \in 0..MaxFaults
           /\ \A k \in Listed : Write(k) => writes' \in 0..MaxWrites /\ rows' \subseteq Kind
<1>1. Fault \/ UNCHANGED faults => faults' \in 0..MaxFaults
  BY BoundsAssumption DEF TypeOK, Fault
<1>2. ASSUME NEW k \in Listed, Write(k) PROVE writes' \in 0..MaxWrites /\ rows' \subseteq Kind
  <2>1. writes' \in 0..MaxWrites
    BY <1>2, BoundsAssumption DEF TypeOK, Write
  <2>2. Upserted(k) \subseteq Kind
    BY DEF Upserted, Kind, Listed
  <2> QED
    BY <1>2, <2>1, <2>2 DEF TypeOK, Write
<1> QED
  BY <1>1, <1>2

LEMMA StartTyped ==
    ASSUME SyncTyped, NEW r \in Run, NEW key \in BOOLEAN, StartSync(r, key), UNCHANGED lapsed
    PROVE  SyncTyped'
  BY DEF SyncTyped, StartSync, SyncAt

LEMMA GoTyped ==
    ASSUME SyncTyped, NEW r \in Run, NEW at \in SyncAt, SyncGoto(r, at) \/ SyncLeave(r, at),
           UNCHANGED <<lock, lapsed>>
    PROVE  SyncTyped'
<1>1. sync[r] \in [at : SyncAt, key : BOOLEAN]
  BY DEF SyncTyped
<1>2. \E key \in BOOLEAN : sync' = [sync EXCEPT ![r] = [at |-> at, key |-> key]]
  <2>1. CASE SyncLeave(r, at)
    BY <2>1 DEF SyncLeave
  <2>2. CASE SyncGoto(r, at)
    <3>1. [sync[r] EXCEPT !.at = at] = [at |-> at, key |-> sync[r].key]
      BY <1>1
    <3> QED
      BY <1>1, <2>2, <3>1 DEF SyncGoto
  <2> QED
    BY <2>1, <2>2
<1> QED
  BY <1>2 DEF SyncTyped

LEMMA ReturnTyped ==
    ASSUME SyncTyped, NEW r \in Run, SyncReturn(r), UNCHANGED lock \/ lock' = Released(r)
    PROVE  SyncTyped'
  BY DEF SyncTyped, SyncReturn, Released, SyncAt

LEMMA StatusTyped ==
    ASSUME NEW s \in {"active", "syncing", "inactive", "redacted"}, SetStatus(s)
    PROVE  status' \in {"active", "syncing", "inactive", "redacted"} /\ old' \in BOOLEAN
  BY DEF SetStatus

LEMMA RestingTyped == Resting \in Erasure
  BY BoundsAssumption DEF Resting, Erasure, EraseAt

LEMMA EraseGoes ==
    ASSUME redact \in [Handler -> Erasure], NEW h \in Handler, NEW at \in EraseAt, Goto(h, at)
    PROVE  redact' \in [Handler -> Erasure]
<1>1. redact[h] \in Erasure
  OBVIOUS
<1>2. [redact[h] EXCEPT !.at = at] \in Erasure
  BY <1>1 DEF Erasure
<1> QED
  BY <1>2 DEF Goto

LEMMA SyncStepTyped ==
    ASSUME TypeOK, NEW r \in Run,
           \/ Schedule(r) \/ Retry(r) \/ Request(r) \/ Install(r)
           \/ SyncStep(r) \/ SyncCrash(r)
    PROVE  TypeOK'
<1> SUFFICES StoreTyped' /\ SyncTyped' /\ EraseTyped'
  BY DEF TypeOK, StoreTyped, SyncTyped, EraseTyped
<1>0. StoreTyped /\ SyncTyped /\ EraseTyped
  BY DEF TypeOK, StoreTyped, SyncTyped, EraseTyped
<1>1. CASE Schedule(r) \/ Retry(r) \/ Request(r)
  <2>1. SyncTyped'
    BY <1>0, <1>1, StartTyped DEF Schedule, Retry, Request, StoreTyped
  <2> QED
    BY <1>0, <1>1, <2>1
    DEF Schedule, Retry, Request, storeVars, eraseVars, StoreTyped, EraseTyped
<1>2. CASE Install(r)
  <2>1. SyncTyped'
    BY <1>0, <1>2, StartTyped DEF Install
  <2>2. notice' \in [Cycle -> {"none", "due", "sent", "acked"}]
    BY <1>0, <1>2 DEF Install, EraseTyped
  <2> QED
    BY <1>0, <1>2, <2>1, <2>2, StatusTyped DEF Install, StoreTyped, EraseTyped
<1>3. CASE Mark(r)
  <2>1. SyncTyped'
    BY <1>0, <1>3, GoTyped DEF Mark, SyncAt
  <2> QED
    BY <1>0, <1>3, <2>1, StatusTyped DEF Mark, eraseVars, StoreTyped, EraseTyped
<1>4. CASE ReadPage(r)
  BY <1>0, <1>4, Counters DEF ReadPage, storeVars, syncVars, eraseVars, StoreTyped, SyncTyped,
     EraseTyped
<1>5. CASE LastPage(r) \/ SyncThrows(r)
  <2>1. SyncTyped'
    BY <1>0, <1>5, GoTyped DEF LastPage, SyncThrows, SyncAt
  <2> QED
    BY <1>0, <1>5, <2>1 DEF LastPage, SyncThrows, storeVars, eraseVars, StoreTyped, EraseTyped
<1>6. CASE SyncEnds(r)
  <2>1. SyncTyped'
    BY <1>0, <1>6, GoTyped DEF SyncEnds, SyncAt
  <2> QED
    BY <1>0, <1>6, <2>1, StatusTyped DEF SyncEnds, eraseVars, StoreTyped, EraseTyped
<1>7. CASE SyncEndLost(r)
  <2>1. SyncTyped'
    BY <1>0, <1>7, GoTyped DEF SyncEndLost, SyncAt
  <2> QED
    BY <1>0, <1>7, <2>1, Counters DEF SyncEndLost, storeVars, eraseVars, StoreTyped, EraseTyped
<1>8. CASE Release(r) \/ SyncCrash(r)
  <2>1. SyncTyped'
    BY <1>0, <1>8, ReturnTyped DEF Release, SyncCrash
  <2>2. faults' \in 0..MaxFaults
    BY <1>0, <1>8, Counters DEF Release, SyncCrash
  <2> QED
    BY <1>0, <1>8, <2>1, <2>2 DEF Release, SyncCrash, storeVars, eraseVars, StoreTyped, EraseTyped
<1> QED
  BY <1>0, <1>1, <1>2, <1>3, <1>4, <1>5, <1>6, <1>7, <1>8 DEF SyncStep

(* What the steps of an erasure do to the handlers.                          *)
LEMMA RedactTyped ==
    ASSUME TypeOK, NEW h \in Handler, EraseStep(h) \/ EraseCrash(h)
    PROVE  redact' \in [Handler -> Erasure]
<1>0. redact \in [Handler -> Erasure] /\ rows \subseteq Kind
  BY DEF TypeOK
<1>1. ASSUME NEW at \in EraseAt, Goto(h, at) PROVE redact' \in [Handler -> Erasure]
  BY <1>0, <1>1, EraseGoes
<1>2. CASE redact' = [redact EXCEPT ![h] = Resting]
  BY <1>0, <1>2, RestingTyped
<1>3. CASE Begin(h)
  <2>1. redact[h] \in Erasure
    BY <1>0
  <2>2. [[redact[h] EXCEPT !.at = "orders"] EXCEPT !.older = rows] \in Erasure
    BY <1>0, <2>1 DEF Erasure, EraseAt
  <2> QED
    BY <1>0, <1>3, <2>2 DEF Begin
<1>4. ASSUME NEW kinds, NEW at \in EraseAt, Delete(kinds, h, at)
      PROVE  redact' \in [Handler -> Erasure]
  <2>1. ASSUME NEW g \in Handler PROVE redact'[g] \in Erasure
    <3>1. redact[g] \in Erasure
      BY <1>0
    <3> QED
      BY <1>4, <3>1 DEF Delete, Erasure
  <2> QED
    BY <1>4, <2>1 DEF Delete
<1>5. CASE DeleteDeliveries(h)
  <2>1. ASSUME NEW g \in Handler PROVE redact'[g] \in Erasure
    <3>1. redact[g] \in Erasure
      BY <1>0
    <3> QED
      BY <1>5, <3>1 DEF DeleteDeliveries, Erasure, EraseAt
  <2> QED
    BY <1>5, <2>1 DEF DeleteDeliveries
<1>6. CASE Find(h) \/ Create(h) \/ Close(h) \/ EraseThrows(h) \/ Complete(h) \/ Fail(h)
  <2>1. Begin(h) \/ \E at \in EraseAt : Goto(h, at)
    BY <1>6 DEF Find, Create, Close, EraseThrows, Complete, Fail, Resume, EraseAt
  <2> QED
    BY <1>1, <1>3, <2>1
<1>7. CASE DeleteOrders(h) \/ DeleteCustomers(h)
  <2>1. \/ Delete({"order"}, h, "deliveries") \/ Delete({"customer"}, h, "close")
        \/ Goto(h, "fail")
    BY <1>7 DEF DeleteOrders, DeleteCustomers
  <2> QED
    BY <1>1, <1>4, <2>1 DEF EraseAt
<1> QED
  BY <1>2, <1>3, <1>5, <1>6, <1>7 DEF EraseStep, Restart, Finish, EraseCrash

LEMMA EraseStepTyped ==
    ASSUME TypeOK, NEW h \in Handler, EraseStep(h) \/ EraseCrash(h)
    PROVE  TypeOK'
<1>1. redact' \in [Handler -> Erasure]
  BY RedactTyped
<1>2. CASE \/ Find(h) \/ Create(h) \/ Restart(h) \/ EraseThrows(h) \/ Complete(h) \/ Fail(h)
           \/ EraseCrash(h)
  <2>1. request' \in {"absent", "processing", "completed", "failed"}
    BY <1>2 DEF Find, Create, Restart, EraseThrows, Complete, Fail, EraseCrash, Begin, TypeOK
  <2>2. faults' \in 0..MaxFaults
    BY <1>2, Counters DEF Find, Create, Restart, EraseThrows, Complete, Fail, EraseCrash
  <2>3. UNCHANGED <<storeVars, syncVars, rows, cycles, notice, delivery, owed, writes>>
    BY <1>2 DEF Find, Create, Restart, EraseThrows, Complete, Fail, EraseCrash
  <2> QED
    BY <1>1, <2>1, <2>2, <2>3 DEF TypeOK, storeVars, syncVars
<1>3. CASE DeleteOrders(h) \/ DeleteCustomers(h)
  <2>1. rows' \subseteq Kind /\ owed' \in [Cycle -> SUBSET Kind]
    <3>1. \/ UNCHANGED <<rows, owed>>
          \/ \E kinds : rows' = rows \ kinds /\ owed' = [c \in Cycle |-> owed[c] \ kinds]
      BY <1>3 DEF DeleteOrders, DeleteCustomers, Delete
    <3> QED
      BY <3>1 DEF TypeOK
  <2>2. UNCHANGED <<storeVars, syncVars, cycles, notice, delivery, request, writes, faults>>
    BY <1>3 DEF DeleteOrders, DeleteCustomers
  <2> QED
    BY <1>1, <2>1, <2>2 DEF TypeOK, storeVars, syncVars
<1>4. CASE DeleteDeliveries(h)
  BY <1>1, <1>4 DEF DeleteDeliveries, TypeOK, storeVars, syncVars
<1>5. CASE Close(h)
  BY <1>1, <1>5, StatusTyped DEF Close, TypeOK, syncVars
<1>6. CASE Finish(h)
  <2>1. /\ delivery' \in [Cycle -> {"absent", "received", "processed", "failed"}]
        /\ notice' \in [Cycle -> {"none", "due", "sent", "acked"}]
    BY <1>6 DEF Finish, Acknowledge, TypeOK
  <2> QED
    BY <1>1, <1>6, <2>1 DEF Finish, TypeOK, storeVars, syncVars
<1> QED
  BY <1>2, <1>3, <1>4, <1>5, <1>6 DEF EraseStep

LEMMA StepTyped == TypeOK /\ [Next]_vars => TypeOK'
<1> SUFFICES ASSUME TypeOK, [Next]_vars PROVE TypeOK'
  OBVIOUS
<1>1. CASE UNCHANGED vars
  BY <1>1 DEF vars, storeVars, syncVars, eraseVars, TypeOK
<1>2. CASE Ingest
  <2>1. writes' \in 0..MaxWrites /\ rows' \subseteq Kind
    <3>1. Listed \cup (IF token THEN {"unlisted"} ELSE {}) \subseteq Kind
      BY DEF Kind
    <3> QED
      BY <1>2, <3>1, Counters DEF Ingest
  <2> QED
    BY <1>2, <2>1 DEF Ingest, storeVars, syncVars, eraseVars, TypeOK
<1>3. CASE Expire
  <2>1. faults' \in 0..MaxFaults
    BY <1>3, Counters DEF Expire
  <2>2. lapsed' \subseteq Run
    BY <1>3 DEF Expire, TypeOK
  <2> QED
    BY <1>3, <2>1, <2>2 DEF Expire, storeVars, eraseVars, TypeOK
<1>4. CASE Age
  BY <1>4 DEF Age, syncVars, eraseVars, TypeOK
<1>5. CASE Uninstall
  <2>1. cycles' \in 0..MaxCycles
    BY <1>5, BoundsAssumption DEF Uninstall, TypeOK
  <2>2. notice' \in [Cycle -> {"none", "due", "sent", "acked"}]
    BY <1>5 DEF Uninstall, TypeOK
  <2> QED
    BY <1>5, <2>1, <2>2, StatusTyped DEF Uninstall, syncVars, TypeOK
<1>6. ASSUME NEW c \in Cycle, Send(c) PROVE TypeOK'
  BY <1>6 DEF Send, storeVars, syncVars, TypeOK
<1>7. ASSUME NEW c \in Cycle, Sweep(c) PROVE TypeOK'
  <2>1. faults' \in 0..MaxFaults
    BY <1>7, Counters DEF Sweep
  <2> QED
    BY <1>7, <2>1 DEF Sweep, storeVars, syncVars, TypeOK
<1>8. ASSUME NEW h \in Handler, NEW c \in Cycle, Receive(h, c) PROVE TypeOK'
  <2>1. faults' \in 0..MaxFaults
    BY <1>8, Counters DEF Receive
  <2>2. [at |-> "find", cycle |-> c, mine |-> TRUE, older |-> {}] \in Erasure
    BY BoundsAssumption DEF Erasure, EraseAt, Cycle
  <2>3. redact' \in [Handler -> Erasure]
    BY <1>8, <2>2 DEF Receive, TypeOK
  <2>4. /\ delivery' \in [Cycle -> {"absent", "received", "processed", "failed"}]
        /\ notice' \in [Cycle -> {"none", "due", "sent", "acked"}]
    BY <1>8 DEF Receive, Acknowledge, TypeOK
  <2> QED
    BY <1>8, <2>1, <2>3, <2>4 DEF Receive, storeVars, syncVars, TypeOK
<1> QED
  BY <1>1, <1>2, <1>3, <1>4, <1>5, <1>6, <1>7, <1>8, SyncStepTyped, EraseStepTyped DEF Next

LEMMA InitTyped == Init => TypeOK
<1>1. 0 \in 0..MaxCycles /\ 0 \in 0..MaxWrites /\ 0 \in 0..MaxFaults
  BY BoundsAssumption
<1>2. Init => StoreTyped
  BY <1>1 DEF Init, StoreTyped, Kind
<1>3. Init => SyncTyped
  BY DEF Init, SyncTyped, SyncAt
<1>4. Init => EraseTyped
  BY <1>1, RestingTyped DEF Init, EraseTyped
<1> QED
  BY <1>2, <1>3, <1>4 DEF TypeOK, StoreTyped, SyncTyped, EraseTyped

(* The model's states are well formed.                                       *)
THEOREM TypeCorrect == Spec => []TypeOK
  BY InitTyped, StepTyped, PTL DEF Spec

----------------------------------------------------------------------------
(* Synchronization.  A run that works holds the lock or has outlived it.     *)

HoldsOrLapsed == \A r \in Run : Working(r) => lock = r \/ r \in lapsed

LEMMA StepHolds == TypeOK /\ HoldsOrLapsed /\ [Next]_vars => HoldsOrLapsed'
<1> SUFFICES ASSUME TypeOK, HoldsOrLapsed, [Next]_vars PROVE HoldsOrLapsed'
  OBVIOUS
<1> USE DEF HoldsOrLapsed, Working
<1>0. lock \in Run \cup {NoRun} /\ sync \in [Run -> [at : SyncAt, key : BOOLEAN]]
  BY DEF TypeOK
<1>1. CASE UNCHANGED syncVars
  BY <1>1 DEF syncVars
<1>2. ASSUME NEW r \in Run, NEW key, StartSync(r, key), UNCHANGED lapsed PROVE HoldsOrLapsed'
  BY <1>0, <1>2, NoRunAssumption DEF StartSync
<1>3. ASSUME NEW r \in Run, Mark(r) \/ LastPage(r) \/ SyncThrows(r) \/ SyncEnds(r)
                            \/ SyncEndLost(r)
      PROVE  HoldsOrLapsed'
  BY <1>0, <1>3
  DEF Mark, LastPage, SyncThrows, SyncEnds, SyncEndLost, SyncGoto, SyncLeave
<1>4. ASSUME NEW r \in Run, Release(r) \/ SyncCrash(r) PROVE HoldsOrLapsed'
  BY <1>0, <1>4 DEF Release, SyncCrash, SyncReturn, Released
<1>5. CASE Expire
  BY <1>0, <1>5 DEF Expire
<1>6. ASSUME NEW h \in Handler, EraseStep(h) \/ EraseCrash(h) \/ \E c \in Cycle : Receive(h, c)
      PROVE  HoldsOrLapsed'
  BY <1>1, <1>6
  DEF EraseStep, Find, Create, Restart, DeleteOrders, DeleteDeliveries, DeleteCustomers, Close,
      EraseThrows, Complete, Fail, Finish, EraseCrash, Receive
<1>7. CASE UNCHANGED vars \/ Ingest \/ Age \/ Uninstall \/ \E c \in Cycle : Send(c) \/ Sweep(c)
  BY <1>1, <1>7 DEF vars, Ingest, Age, Uninstall, Send, Sweep
<1> QED
  BY <1>1, <1>2, <1>3, <1>4, <1>5, <1>6, <1>7
  DEF Next, SyncStep, ReadPage, Schedule, Retry, Request, Install

(* Only a run that has outlived its lease can meet another one at work.      *)
THEOREM RunsAreAlone == Spec => []SyncAlone
<1>1. Init => HoldsOrLapsed
  BY DEF Init, HoldsOrLapsed, Working
<1>2. HoldsOrLapsed => SyncAlone
  BY DEF HoldsOrLapsed, SyncAlone
<1> QED
  BY <1>1, <1>2, StepHolds, TypeCorrect, PTL DEF Spec

----------------------------------------------------------------------------
(* Erasure.  What was there when an erasure began leaves its `older` as it   *)
(* is deleted, by whichever handler; the order of the steps then leaves none *)
(* of the listed kinds in it when the store is closed.                       *)

Begun == {"orders", "deliveries", "customers", "close", "complete", "processed"}
Doing == {"orders", "deliveries", "customers", "close", "complete"}

Swept(older, at) ==
    /\ at \in {"deliveries", "customers"} => "order" \notin older
    /\ at \in {"close", "complete"} => older \cap Listed = {}
Sweeping == \A h \in Handler : Swept(redact[h].older, redact[h].at)

(* What a step does to one handler: it begins, loses rows that the first     *)
(* notice is then not owed either, or moves.                                 *)
Moves(h) ==
    \/ redact'[h].at \notin Doing
    \/ redact'[h].at = "orders" /\ redact'[h].older = rows
    \/ /\ redact[h].at \in Doing
       /\ redact'[h].older \subseteq redact[h].older
       /\ \A k \in redact[h].older : k \in redact'[h].older \/ k \notin owed'[1]
       /\ \/ redact'[h].at = redact[h].at
          \/ redact[h].at = "orders" /\ redact'[h].at = "deliveries"
             /\ "order" \notin redact'[h].older
          \/ redact[h].at = "deliveries" /\ redact'[h].at = "customers"
          \/ redact[h].at = "customers" /\ redact'[h].at = "close"
             /\ "customer" \notin redact'[h].older
          \/ redact[h].at = "close" /\ redact'[h].at = "complete"

LEMMA One == 1 \in Cycle
  BY BoundsAssumption DEF Cycle

LEMMA StepMoves ==
    ASSUME TypeOK, [Next]_vars, NEW h \in Handler PROVE Moves(h)
<1>0. redact \in [Handler -> Erasure] /\ redact[h] \in Erasure
  BY DEF TypeOK
<1> USE DEF Moves, Doing
<1>1. CASE redact'[h] = redact[h]
  BY <1>0, <1>1 DEF Erasure, EraseAt
<1>2. ASSUME NEW g \in Handler, NEW at, Goto(g, at),
             \/ at \notin Doing
             \/ redact[g].at = "deliveries" /\ at = "customers"
             \/ redact[g].at = "close" /\ at = "complete"
      PROVE  Moves(h)
  <2>1. CASE g # h
    BY <1>0, <1>1, <1>2, <2>1 DEF Goto
  <2>2. CASE g = h
    <3>1. redact'[h] = [redact[h] EXCEPT !.at = at]
      BY <1>0, <1>2, <2>2 DEF Goto
    <3>2. redact'[h].at = at /\ redact'[h].older = redact[h].older
      BY <1>0, <3>1 DEF Erasure
    <3> QED
      BY <1>2, <2>2, <3>2
  <2> QED
    BY <2>1, <2>2
<1>3. ASSUME NEW g \in Handler, Begin(g) PROVE Moves(h)
  <2>1. CASE g # h
    BY <1>0, <1>1, <1>3, <2>1 DEF Begin
  <2>2. CASE g = h
    BY <1>0, <1>3, <2>2 DEF Begin, Erasure
  <2> QED
    BY <2>1, <2>2
<1>4. ASSUME NEW g \in Handler, NEW r, r.at = "find" \/ r.at = "idle",
             redact' = [redact EXCEPT ![g] = r]
      PROVE  Moves(h)
  <2>1. CASE g # h
    BY <1>0, <1>1, <1>4, <2>1
  <2>2. CASE g = h
    BY <1>0, <1>4, <2>2
  <2> QED
    BY <2>1, <2>2
<1>5. ASSUME NEW g \in Handler, NEW k \in Kind, NEW at, Delete({k}, g, at),
             \/ redact[g].at = "orders" /\ at = "deliveries" /\ k = "order"
             \/ redact[g].at = "customers" /\ at = "close" /\ k = "customer"
      PROVE  Moves(h)
  <2>1. redact'[h] = [redact[h] EXCEPT !.older = @ \ {k}, !.at = IF h = g THEN at ELSE @]
    BY <1>5 DEF Delete
  <2>2. /\ redact'[h].older = redact[h].older \ {k}
        /\ redact'[h].at = IF h = g THEN at ELSE redact[h].at
    BY <1>0, <2>1 DEF Erasure
  <2>3. owed'[1] = owed[1] \ {k}
    BY <1>5, One DEF Delete
  <2> QED
    BY <1>0, <1>5, <2>2, <2>3 DEF Erasure, EraseAt
<1>6. ASSUME NEW g \in Handler, DeleteDeliveries(g) PROVE Moves(h)
  <2>1. redact'[h] = [redact[h] EXCEPT !.mine = FALSE, !.at = IF h = g THEN "customers" ELSE @]
    BY <1>6 DEF DeleteDeliveries
  <2>2. /\ redact'[h].older = redact[h].older
        /\ redact'[h].at = IF h = g THEN "customers" ELSE redact[h].at
    BY <1>0, <2>1 DEF Erasure
  <2>3. redact[g].at = "deliveries"
    BY <1>6 DEF DeleteDeliveries
  <2> QED
    BY <1>0, <2>2, <2>3 DEF Erasure, EraseAt
<1>7. ASSUME NEW g \in Handler, Find(g) \/ Create(g) \/ Restart(g) \/ Close(g) \/ EraseThrows(g)
                               \/ Complete(g) \/ Fail(g)
      PROVE  Moves(h)
  <2>1. \/ Begin(g)
        \/ \E at : /\ Goto(g, at)
                   /\ \/ at \notin Doing
                      \/ redact[g].at = "close" /\ at = "complete"
    BY <1>7 DEF Find, Create, Restart, Close, EraseThrows, Complete, Fail, Resume
  <2> QED
    BY <1>2, <1>3, <2>1
<1>8. ASSUME NEW g \in Handler, DeleteOrders(g) \/ DeleteCustomers(g) PROVE Moves(h)
  <2>1. \/ redact[g].at = "orders" /\ Delete({"order"}, g, "deliveries")
        \/ redact[g].at = "customers" /\ Delete({"customer"}, g, "close")
        \/ Goto(g, "fail")
    BY <1>8 DEF DeleteOrders, DeleteCustomers
  <2> QED
    BY <1>2, <1>5, <2>1 DEF Kind, Listed
<1>9. ASSUME NEW g \in Handler, Finish(g) \/ EraseCrash(g) \/ \E c \in Cycle : Receive(g, c)
      PROVE  Moves(h)
  <2>1. \/ UNCHANGED redact
        \/ \E r : (r.at = "find" \/ r.at = "idle") /\ redact' = [redact EXCEPT ![g] = r]
    BY <1>9 DEF Finish, EraseCrash, Receive, Resting
  <2> QED
    BY <1>1, <1>4, <2>1
<1>10. ASSUME NEW r \in Run, \/ Schedule(r) \/ Retry(r) \/ Request(r) \/ Install(r)
                             \/ SyncStep(r) \/ SyncCrash(r)
       PROVE  Moves(h)
  BY <1>1, <1>10
  DEF Schedule, Retry, Request, Install, SyncStep, SyncCrash, Mark, ReadPage, LastPage,
      SyncThrows, SyncEnds, SyncEndLost, Release, eraseVars
<1>11. CASE \/ UNCHANGED vars \/ Ingest \/ Expire \/ Age \/ Uninstall
            \/ \E c \in Cycle : Send(c) \/ Sweep(c)
  BY <1>1, <1>11 DEF vars, Ingest, Expire, Age, Uninstall, Send, Sweep, eraseVars
<1> QED
  BY <1>6, <1>7, <1>8, <1>9, <1>10, <1>11 DEF Next, EraseStep

LEMMA StepSweeps == TypeOK /\ Sweeping /\ [Next]_vars => Sweeping'
<1> SUFFICES ASSUME TypeOK, Sweeping, [Next]_vars, NEW h \in Handler
             PROVE  Swept(redact'[h].older, redact'[h].at)
  BY DEF Sweeping
<1>1. Moves(h) /\ Swept(redact[h].older, redact[h].at)
  BY StepMoves DEF Sweeping
<1>2. redact[h].older \subseteq Kind
  BY DEF TypeOK, Erasure
<1> QED
  BY <1>1, <1>2 DEF Moves, Swept, Doing, Listed

LEMMA InitSweeps == Init => Sweeping
  BY DEF Init, Sweeping, Swept, Resting

(* An erasure that gets as far as closing the store has left nothing of what *)
(* the tables handleShopRedact lists held when it began; of the tables it    *)
(* does not list it deletes nothing, and nothing is claimed.                 *)
THEOREM CompletionsSweep == Spec => []CompletionSweeps
<1>1. Sweeping => CompletionSweeps
  BY DEF Sweeping, Swept, CompletionSweeps
<1> QED
  BY <1>1, InitSweeps, StepSweeps, TypeCorrect, PTL DEF Spec

----------------------------------------------------------------------------
(* The first notice.  Until it is sent there is no trace of a redaction, for *)
(* an installation before that cancels it; so whatever was completed was     *)
(* begun after it, and swept what the notice was owed.                       *)

Pending == cycles = 0 \/ notice[1] = "due"
Quiet ==
    /\ notice[1] = "due" => ~token /\ cycles # 0
    /\ Pending => /\ \A c \in Cycle : notice[c] = "none" \/ (c = 1 /\ notice[c] = "due")
                  /\ \A c \in Cycle : delivery[c] = "absent"
                  /\ request = "absent"
                  /\ \A h \in Handler : redact[h].at = "idle"

Cleared == owed[1] \cap Listed = {}
Paid ==
    /\ owed[1] \subseteq rows
    /\ \A h \in Handler : redact[h].at \in Doing => owed[1] \subseteq redact[h].older
    /\ \A h \in Handler : redact[h].at = "processed" => Cleared
    /\ request = "completed" => Cleared
    /\ \A c \in Cycle : delivery[c] = "processed" => Cleared
    /\ AckedMeansErased

LEMMA StepQuiet == TypeOK /\ Quiet /\ [Next]_vars => Quiet'
<1> SUFFICES ASSUME TypeOK, Quiet, [Next]_vars PROVE Quiet'
  OBVIOUS
<1>1. CASE /\ UNCHANGED <<cycles, delivery, request, redact>>
           /\ UNCHANGED notice /\ (token' => token)
  BY <1>1 DEF Quiet, Pending
<1>2. CASE ~Pending /\ cycles' = cycles /\ (notice'[1] = "due" => notice[1] = "due")
  BY <1>2 DEF Quiet, Pending
<1>3. ASSUME NEW r \in Run, Install(r) PROVE Quiet'
  <2>1. \A c \in Cycle : notice'[c] = IF notice[c] = "due" THEN "none" ELSE notice[c]
    BY <1>3 DEF Install
  <2>2. UNCHANGED <<cycles, delivery, request, redact>>
    BY <1>3 DEF Install
  <2> QED
    BY <2>1, <2>2, One DEF Quiet, Pending
<1>4. CASE Uninstall
  <2>1. token /\ cycles' = cycles + 1 /\ cycles \in Nat /\ ~token'
        /\ notice' = [notice EXCEPT ![cycles + 1] = "due"]
        /\ UNCHANGED <<delivery, request, redact>>
    BY <1>4 DEF Uninstall, TypeOK
  <2>2. CASE cycles = 0
    BY <2>1, <2>2, One DEF Quiet, Pending, TypeOK
  <2>3. CASE cycles # 0
    <3>1. cycles' # 0 /\ notice'[1] = notice[1] /\ notice[1] # "due"
      BY <2>1, <2>3, One DEF Quiet, TypeOK
    <3> QED
      BY <3>1 DEF Quiet, Pending
  <2> QED
    BY <2>2, <2>3
<1>5. ASSUME NEW c \in Cycle, Send(c) PROVE Quiet'
  <2>1. notice[c] = "due" /\ notice' = [notice EXCEPT ![c] = "sent"] /\ cycles' = cycles
    BY <1>5 DEF Send
  <2>2. CASE c = 1
    <3>1. notice'[1] = "sent" /\ cycles' # 0
      BY <2>1, <2>2, One DEF Quiet, TypeOK
    <3> QED
      BY <3>1 DEF Quiet, Pending
  <2>3. CASE c # 1
    <3>1. ~Pending
      BY <2>1, <2>3 DEF Quiet
    <3> QED
      BY <1>2, <2>1, <2>3, <3>1, One DEF TypeOK
  <2> QED
    BY <2>2, <2>3
<1>6. ASSUME NEW h \in Handler, NEW c \in Cycle, Receive(h, c) PROVE Quiet'
  <2>1. ~Pending
    BY <1>6 DEF Receive, Quiet
  <2>2. notice'[1] = "due" => notice[1] = "due"
    BY <1>6, One DEF Receive, Acknowledge, TypeOK
  <2> QED
    BY <1>2, <1>6, <2>1, <2>2 DEF Receive
<1>7. ASSUME NEW h \in Handler, EraseStep(h) \/ EraseCrash(h) PROVE Quiet'
  <2>1. redact[h].at # "idle"
    BY <1>7 DEF EraseStep, Find, Create, Restart, DeleteOrders, DeleteDeliveries,
       DeleteCustomers, Close, EraseThrows, Complete, Fail, Finish, EraseCrash
  <2>2. ~Pending
    BY <2>1 DEF Quiet
  <2>3. CASE Finish(h)
    <3>1. notice'[1] = "due" => notice[1] = "due"
      BY <2>3, One DEF Finish, Acknowledge, TypeOK
    <3> QED
      BY <1>2, <2>2, <2>3, <3>1 DEF Finish
  <2>4. CASE ~Finish(h)
    BY <1>2, <1>7, <2>2, <2>4
    DEF EraseStep, Find, Create, Restart, DeleteOrders, DeleteDeliveries,
        DeleteCustomers, Close, EraseThrows, Complete, Fail, EraseCrash
  <2> QED
    BY <2>3, <2>4
<1>8. ASSUME NEW c \in Cycle, Sweep(c) PROVE Quiet'
  <2>1. ~Pending
    BY <1>8 DEF Sweep, Quiet
  <2> QED
    BY <1>2, <1>8, <2>1 DEF Sweep
<1>9. ASSUME NEW r \in Run,
             Schedule(r) \/ Retry(r) \/ Request(r) \/ SyncStep(r) \/ SyncCrash(r)
      PROVE  Quiet'
  BY <1>1, <1>9
  DEF Schedule, Retry, Request, SyncStep, SyncCrash, Mark, ReadPage, LastPage, SyncThrows,
      SyncEnds, SyncEndLost, Release, eraseVars, storeVars
<1>10. CASE UNCHANGED vars \/ Ingest \/ Expire \/ Age
  BY <1>1, <1>10 DEF vars, Ingest, Expire, Age, eraseVars, storeVars
<1> QED
  BY <1>3, <1>4, <1>5, <1>6, <1>7, <1>8, <1>9, <1>10 DEF Next

(* What is owed only shrinks once the notice is sent, and is in the store.   *)
LEMMA OwedShrinks ==
    ASSUME TypeOK, [Next]_vars, owed[1] \subseteq rows, ~Send(1)
    PROVE  owed'[1] \subseteq owed[1] /\ owed'[1] \subseteq rows'
<1>1. CASE owed'[1] = owed[1] /\ rows \subseteq rows'
  BY <1>1
<1>2. ASSUME NEW h \in Handler, NEW kinds, NEW at, Delete(kinds, h, at)
      PROVE  owed'[1] \subseteq owed[1] /\ owed'[1] \subseteq rows'
  BY <1>2, One DEF Delete
<1>3. ASSUME NEW h \in Handler, EraseStep(h) \/ EraseCrash(h) \/ \E c \in Cycle : Receive(h, c)
      PROVE  owed'[1] \subseteq owed[1] /\ owed'[1] \subseteq rows'
  <2>1. \/ UNCHANGED <<owed, rows>> \/ Delete({"order"}, h, "deliveries")
        \/ Delete({"customer"}, h, "close")
    BY <1>3
    DEF EraseStep, Find, Create, Restart, DeleteOrders, DeleteDeliveries, DeleteCustomers,
        Close, EraseThrows, Complete, Fail, Finish, EraseCrash, Receive
  <2> QED
    BY <1>1, <1>2, <2>1
<1>4. ASSUME NEW r \in Run, \/ Schedule(r) \/ Retry(r) \/ Request(r) \/ Install(r)
                            \/ SyncStep(r) \/ SyncCrash(r)
      PROVE  owed'[1] \subseteq owed[1] /\ owed'[1] \subseteq rows'
  <2>1. UNCHANGED owed /\ rows \subseteq rows'
    BY <1>4
    DEF Schedule, Retry, Request, Install, SyncStep, SyncCrash, Mark, ReadPage, LastPage,
        SyncThrows, SyncEnds, SyncEndLost, Release, eraseVars, Write
  <2> QED
    BY <1>1, <2>1
<1>5. ASSUME NEW c \in Cycle, Send(c)
      PROVE  owed'[1] \subseteq owed[1] /\ owed'[1] \subseteq rows'
  BY <1>1, <1>5, One DEF Send, TypeOK
<1>6. CASE \/ UNCHANGED vars \/ Ingest \/ Expire \/ Age \/ Uninstall
           \/ \E c \in Cycle : Sweep(c)
  <2>1. UNCHANGED owed /\ rows \subseteq rows'
    BY <1>6 DEF vars, Ingest, Expire, Age, Uninstall, Sweep, eraseVars, Write
  <2> QED
    BY <1>1, <2>1
<1> QED
  BY <1>3, <1>4, <1>5, <1>6 DEF Next

(* Where the outcomes of an erasure come from.                               *)
LEMMA Outcomes ==
    ASSUME TypeOK, [Next]_vars
    PROVE  /\ \A h \in Handler : redact'[h].at = "processed" =>
                 \/ redact[h].at \in {"processed", "complete"} \/ request = "completed"
           /\ request' = "completed" =>
                 \/ request = "completed" \/ \E h \in Handler : redact[h].at = "complete"
           /\ \A c \in Cycle : delivery'[c] = "processed" =>
                 \/ delivery[c] = "processed" \/ \E h \in Handler : redact[h].at = "processed"
           /\ \A c \in Cycle : notice'[c] = "acked" =>
                 \/ notice[c] = "acked" \/ delivery[c] = "processed"
                 \/ \E h \in Handler : redact[h].at = "processed"
<1> DEFINE Goal ==
           /\ \A h \in Handler : redact'[h].at = "processed" =>
                 \/ redact[h].at \in {"processed", "complete"} \/ request = "completed"
           /\ request' = "completed" =>
                 \/ request = "completed" \/ \E h \in Handler : redact[h].at = "complete"
           /\ \A c \in Cycle : delivery'[c] = "processed" =>
                 \/ delivery[c] = "processed" \/ \E h \in Handler : redact[h].at = "processed"
           /\ \A c \in Cycle : notice'[c] = "acked" =>
                 \/ notice[c] = "acked" \/ delivery[c] = "processed"
                 \/ \E h \in Handler : redact[h].at = "processed"
<1> SUFFICES Goal
  OBVIOUS
<1>0. redact \in [Handler -> Erasure] /\ \A h \in Handler : redact[h] \in Erasure
  BY DEF TypeOK
<1>1. CASE UNCHANGED <<redact, request, delivery>>
           /\ \A c \in Cycle : notice'[c] = "acked" => notice[c] = "acked"
  BY <1>1
<1>2. ASSUME NEW g \in Handler, NEW at, Goto(g, at), UNCHANGED <<delivery, notice>>,
             at = "processed" => redact[g].at = "complete" \/ request = "completed",
             request' = "completed" => redact[g].at = "complete" \/ request = "completed"
      PROVE  Goal
  <2>1. \A h \in Handler : redact'[h].at = IF h = g THEN at ELSE redact[h].at
    BY <1>0, <1>2 DEF Goto, Erasure
  <2> QED
    BY <1>2, <2>1
<1>3. ASSUME NEW g \in Handler, \/ Find(g) \/ Close(g) \/ EraseThrows(g) \/ Complete(g)
                                \/ Fail(g)
      PROVE  Goal
  BY <1>2, <1>3 DEF Find, Close, EraseThrows, Complete, Fail, Resume
<1>4. ASSUME NEW g \in Handler, Create(g) \/ Restart(g) PROVE Goal
  <2>1. CASE Begin(g)
    <3>1. \A h \in Handler : redact'[h].at = IF h = g THEN "orders" ELSE redact[h].at
      BY <1>0, <2>1 DEF Begin, Erasure
    <3> QED
      BY <1>4, <2>1, <3>1 DEF Create, Restart, Begin
  <2>2. CASE Goto(g, "unprocessed") /\ UNCHANGED request
    BY <1>2, <1>4, <2>2 DEF Create, Restart
  <2> QED
    BY <1>4, <2>1, <2>2 DEF Create, Restart
<1>5. ASSUME NEW g \in Handler, DeleteOrders(g) \/ DeleteCustomers(g) PROVE Goal
  <2>1. ASSUME NEW kinds, NEW at \in {"deliveries", "close"}, Delete(kinds, g, at) PROVE Goal
    <3>1. \A h \in Handler : redact'[h].at = IF h = g THEN at ELSE redact[h].at
      BY <1>0, <2>1 DEF Delete, Erasure
    <3> QED
      BY <1>5, <2>1, <3>1 DEF DeleteOrders, DeleteCustomers
  <2>2. CASE Goto(g, "fail")
    BY <1>2, <1>5, <2>2 DEF DeleteOrders, DeleteCustomers
  <2> QED
    BY <1>5, <2>1, <2>2 DEF DeleteOrders, DeleteCustomers
<1>6. ASSUME NEW g \in Handler, DeleteDeliveries(g) PROVE Goal
  <2>1. \A h \in Handler : redact'[h].at = IF h = g THEN "customers" ELSE redact[h].at
    <3>1. \A h \in Handler :
             redact'[h] = [redact[h] EXCEPT !.mine = FALSE,
                                            !.at = IF h = g THEN "customers" ELSE @]
      BY <1>6 DEF DeleteDeliveries
    <3> QED
      BY <1>0, <3>1 DEF Erasure
  <2>2. UNCHANGED <<notice, request>> /\ \A c \in Cycle : delivery'[c] = "absent"
    BY <1>6 DEF DeleteDeliveries
  <2> QED
    BY <2>1, <2>2
<1>7. ASSUME NEW g \in Handler, Finish(g) PROVE Goal
  <2>1. \A h \in Handler : redact'[h].at = IF h = g THEN "idle" ELSE redact[h].at
    BY <1>0, <1>7 DEF Finish, Resting
  <2>2. \/ redact[g].at = "processed"
        \/ notice' = notice
           /\ (delivery' = delivery
               \/ delivery' = [delivery EXCEPT ![redact[g].cycle] = "failed"])
    BY <1>7 DEF Finish
  <2>3. request' = request
    BY <1>7 DEF Finish
  <2>4. CASE redact[g].at = "processed"
    BY <2>1, <2>3, <2>4
  <2>5. CASE /\ notice' = notice
             /\ \/ delivery' = delivery
                \/ delivery' = [delivery EXCEPT ![redact[g].cycle] = "failed"]
    <3>1. \A c \in Cycle : delivery'[c] = "processed" => delivery[c] = "processed"
      BY <2>5 DEF TypeOK
    <3> QED
      BY <2>1, <2>3, <2>5, <3>1
  <2> QED
    BY <2>2, <2>4, <2>5
<1>8. ASSUME NEW g \in Handler, EraseCrash(g) PROVE Goal
  <2>1. \A h \in Handler : redact'[h].at = IF h = g THEN "idle" ELSE redact[h].at
    BY <1>0, <1>8 DEF EraseCrash, Resting
  <2> QED
    BY <1>8, <2>1 DEF EraseCrash
<1>9. ASSUME NEW g \in Handler, NEW c \in Cycle, Receive(g, c) PROVE Goal
  <2>1. CASE /\ delivery' = [delivery EXCEPT ![c] = "received"] /\ notice' = notice
             /\ redact' = [redact EXCEPT ![g] =
                               [at |-> "find", cycle |-> c, mine |-> TRUE, older |-> {}]]
    <3>1. \A h \in Handler : redact'[h].at = IF h = g THEN "find" ELSE redact[h].at
      BY <1>0, <2>1
    <3>2. \A d \in Cycle : delivery'[d] = "processed" => delivery[d] = "processed"
      BY <2>1 DEF TypeOK
    <3>3. request' = request
      BY <1>9 DEF Receive
    <3> QED
      BY <2>1, <3>1, <3>2, <3>3
  <2>2. CASE /\ delivery[c] = "processed" /\ Acknowledge(c)
             /\ UNCHANGED <<delivery, redact>>
    <3>1. \A d \in Cycle \ {c} : notice'[d] = notice[d]
      BY <2>2 DEF Acknowledge, TypeOK
    <3>2. request' = request
      BY <1>9 DEF Receive
    <3> QED
      BY <2>2, <3>1, <3>2
  <2> QED
    BY <1>9, <2>1, <2>2 DEF Receive
<1>10. ASSUME NEW c \in Cycle, Send(c) \/ Sweep(c) PROVE Goal
  <2>1. UNCHANGED <<redact, request>>
    BY <1>10 DEF Send, Sweep
  <2>2. /\ \A d \in Cycle : notice'[d] = "acked" => notice[d] = "acked"
        /\ \A d \in Cycle : delivery'[d] = "processed" => delivery[d] = "processed"
    BY <1>10 DEF Send, Sweep, TypeOK
  <2> QED
    BY <2>1, <2>2
<1>11. CASE Uninstall \/ \E r \in Run : Install(r)
  <2>1. \A c \in Cycle : notice'[c] = "acked" => notice[c] = "acked"
    BY <1>11 DEF Uninstall, Install, TypeOK
  <2> QED
    BY <1>1, <1>11, <2>1 DEF Uninstall, Install
<1>12. ASSUME NEW r \in Run,
              Schedule(r) \/ Retry(r) \/ Request(r) \/ SyncStep(r) \/ SyncCrash(r)
       PROVE  Goal
  BY <1>1, <1>12
  DEF Schedule, Retry, Request, SyncStep, SyncCrash, Mark, ReadPage, LastPage, SyncThrows,
      SyncEnds, SyncEndLost, Release, eraseVars
<1>13. CASE UNCHANGED vars \/ Ingest \/ Expire \/ Age
  BY <1>1, <1>13 DEF vars, Ingest, Expire, Age, eraseVars
<1> QED
  BY <1>3, <1>4, <1>5, <1>6, <1>7, <1>8, <1>9, <1>10, <1>11, <1>12, <1>13 DEF Next, EraseStep

LEMMA StepPaid == TypeOK /\ Sweeping /\ Quiet /\ Paid /\ [Next]_vars => Paid'
<1> SUFFICES ASSUME TypeOK, Sweeping, Quiet, Paid, [Next]_vars PROVE Paid'
  OBVIOUS
<1>1. CASE Send(1)
  <2>1. Pending
    BY <1>1 DEF Send, Pending
  <2>2. owed'[1] = rows /\ rows' = rows /\ notice'[1] = "sent"
        /\ UNCHANGED <<delivery, request, redact>>
    BY <1>1, One DEF Send, TypeOK
  <2> QED
    BY <2>1, <2>2 DEF Quiet, Paid, Doing, AckedMeansErased
<1>2. CASE ~Send(1)
  <2>1. owed'[1] \subseteq owed[1] /\ owed'[1] \subseteq rows'
    BY <1>2, OwedShrinks DEF Paid
  <2>2. Cleared => Cleared'
    BY <2>1 DEF Cleared
  <2>3. ASSUME NEW h \in Handler, redact'[h].at \in Doing
        PROVE  owed'[1] \subseteq redact'[h].older
    <3>1. Moves(h)
      BY StepMoves
    <3>2. CASE redact'[h].older = rows
      BY <2>1, <3>2 DEF Paid
    <3>3. CASE /\ redact[h].at \in Doing
               /\ \A k \in redact[h].older : k \in redact'[h].older \/ k \notin owed'[1]
      BY <2>1, <3>3 DEF Paid
    <3> QED
      BY <2>3, <3>1, <3>2, <3>3 DEF Moves
  <2>4. ASSUME NEW h \in Handler, redact[h].at = "complete" PROVE Cleared
    BY <2>4 DEF Paid, Sweeping, Swept, Doing, Cleared
  <2>5. ASSUME NEW h \in Handler, redact'[h].at = "processed" PROVE Cleared'
    <3>1. redact[h].at \in {"processed", "complete"} \/ request = "completed"
      BY <2>5, Outcomes
    <3> QED
      BY <2>2, <2>4, <3>1 DEF Paid
  <2>6. request' = "completed" => Cleared'
    <3>1. \/ request' # "completed" \/ request = "completed"
          \/ \E h \in Handler : redact[h].at = "complete"
      BY Outcomes
    <3> QED
      BY <2>2, <2>4, <3>1 DEF Paid
  <2>7. ASSUME NEW c \in Cycle, delivery'[c] = "processed" PROVE Cleared'
    <3>1. \/ delivery[c] = "processed" \/ \E h \in Handler : redact[h].at = "processed"
      BY <2>7, Outcomes
    <3> QED
      BY <2>2, <3>1 DEF Paid
  <2>8. AckedMeansErased'
    <3>1. \/ notice'[1] # "acked" \/ notice[1] = "acked" \/ delivery[1] = "processed"
          \/ \E h \in Handler : redact[h].at = "processed"
      BY One, Outcomes
    <3> QED
      BY <2>2, <3>1, One DEF Paid, AckedMeansErased, Cleared
  <2> QED
    BY <2>1, <2>3, <2>5, <2>6, <2>7, <2>8 DEF Paid
<1> QED
  BY <1>1, <1>2

LEMMA InitPaid == Init => Quiet /\ Paid
<1> SUFFICES ASSUME Init PROVE Quiet /\ Paid
  OBVIOUS
<1>1. /\ owed[1] = {} /\ notice[1] = "none"
      /\ \A h \in Handler : redact[h].at = "idle"
  BY One DEF Init, Resting
<1>2. Quiet
  BY <1>1 DEF Init, Quiet, Pending
<1>3. Paid
  BY <1>1 DEF Init, Paid, Doing, Cleared, AckedMeansErased
<1> QED
  BY <1>2, <1>3

(* The first notice is acknowledged only when nothing is left of what the    *)
(* listed tables held when it was sent, whatever failed, overlapped or was   *)
(* repeated.                                                                 *)
THEOREM AcknowledgedIsErased == Spec => []AckedMeansErased
<1>1. Paid => AckedMeansErased
  BY DEF Paid
<1> QED
  BY <1>1, InitSweeps, InitPaid, StepSweeps, StepQuiet, StepPaid, TypeCorrect, PTL DEF Spec
=============================================================================
