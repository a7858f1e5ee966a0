------------------------- MODULE RecoverySendProofs -------------------------
(* What holds of the sending of recovery messages for any number of sends,   *)
(* carts and workers, any number of attempts and any number of faults.       *)
EXTENDS RecoverySend, TLAPS

----------------------------------------------------------------------------
(* Types.  A row that may be claimed has an attempt left, and so had every   *)
(* row a pass has listed or claimed.                                         *)

Location == {"off", "promoting", "sweeping", "listing", "choosing", "policy", "cart",
             "discount", "mailing", "recording", "failing"}
Handling == {"policy", "cart", "discount", "mailing", "recording"}
Waiting == {"absent", "queued"}
Before == 0..(MaxTries - 1)

RowsTyped ==
    /\ send \in [Send -> SendRow]
    /\ \A s \in Send : send[s].status \in Waiting => send[s].attempts \in Before

WorkTyped ==
    /\ pc \in [Worker -> Location]
    /\ task \in [Worker -> [send : Send \cup {None}, attempts : Before]]
    /\ listed \in [Worker -> SUBSET (Send \X Before)]
    /\ \A w \in Worker : pc[w] \in Handling <=> task[w].send \in Send

RestTyped ==
    /\ cart \in [Cart -> CartRow]
    /\ permitted \in BOOLEAN
    /\ mails \in [Send -> Nat]
    /\ emitted \subseteq Event /\ recorded \subseteq emitted
    /\ acked \subseteq recorded
    /\ handler \in [event : Event, at : {"insert", "update", "consent"}] \cup {Idle}
    /\ handler.at \in {"update", "consent"} => handler.event \in recorded
    /\ handler # Idle => handler.event \in emitted
    /\ faults \in 0..MaxFaults /\ changes \in 0..MaxChanges
    /\ unwilling \subseteq Send /\ unfit \subseteq Send

Typed == RowsTyped /\ WorkTyped /\ RestTyped

LEMMA TypedIsTypeOK == Typed => TypeOK
<1> SUFFICES ASSUME Typed PROVE TypeOK
  OBVIOUS
<1>1. Before \subseteq 0..MaxTries
  BY BoundAssumption DEF Before
<1>2. task \in [Worker -> [send : Send \cup {None}, attempts : 0..MaxTries]]
  <2>1. [send : Send \cup {None}, attempts : Before]
           \subseteq [send : Send \cup {None}, attempts : 0..MaxTries]
    BY <1>1
  <2> QED
    BY <2>1 DEF Typed, WorkTyped
<1>3. listed \in [Worker -> SUBSET (Send \X (0..MaxTries))]
  <2>1. Send \X Before \subseteq Send \X (0..MaxTries)
    BY <1>1
  <2>2. \A w \in Worker : listed[w] \subseteq Send \X (0..MaxTries)
    BY <2>1 DEF Typed, WorkTyped
  <2> QED
    BY <2>2 DEF Typed, WorkTyped
<1> QED
  BY <1>2, <1>3 DEF TypeOK, Typed, RowsTyped, WorkTyped, RestTyped, Location

LEMMA Counted ==
    /\ RestTyped /\ (Fault \/ UNCHANGED faults) => faults' \in 0..MaxFaults
    /\ RestTyped /\ (Change \/ UNCHANGED changes) => changes' \in 0..MaxChanges
  BY BoundAssumption DEF RestTyped, Fault, Change

(* A row is written, with an attempt left if it may be claimed.              *)
LEMMA RowWritten ==
    ASSUME RowsTyped, NEW s \in Send, NEW row \in SendRow,
           row.status \in Waiting => row.attempts \in Before,
           send' = [send EXCEPT ![s] = row]
    PROVE  RowsTyped'
  BY DEF RowsTyped

(* A worker goes on with the task it has, or without one.                    *)
LEMMA WorkerMoved ==
    ASSUME WorkTyped, NEW w \in Worker, NEW l \in Location, Goto(w, l), UNCHANGED listed,
           UNCHANGED task, l \in Handling <=> pc[w] \in Handling
    PROVE  WorkTyped'
  BY DEF WorkTyped, Goto

LEMMA WorkerFreed ==
    ASSUME WorkTyped, NEW w \in Worker, NEW l \in Location \ Handling, Goto(w, l),
           task' = [task EXCEPT ![w] = NoTask],
           UNCHANGED listed \/ listed' = [listed EXCEPT ![w] = {}]
    PROVE  WorkTyped'
<1>1. NoTask \in [send : Send \cup {None}, attempts : Before] /\ NoTask.send \notin Send
  BY BoundAssumption, NoneAssumption DEF NoTask, Before
<1>2. pc' \in [Worker -> Location]
  BY DEF WorkTyped, Goto
<1>3. task' \in [Worker -> [send : Send \cup {None}, attempts : Before]]
  BY <1>1 DEF WorkTyped
<1>4. listed' \in [Worker -> SUBSET (Send \X Before)]
  BY DEF WorkTyped
<1>5. \A v \in Worker : pc'[v] \in Handling <=> task'[v].send \in Send
  BY <1>1 DEF WorkTyped, Goto
<1> QED
  BY <1>2, <1>3, <1>4, <1>5 DEF WorkTyped

LEMMA FinishTyped ==
    ASSUME Typed, NEW w \in Worker, pc[w] \in Handling, NEW row \in SendRow,
           row.status \in Waiting => row.attempts \in Before, Finish(w, row), UNCHANGED listed
    PROVE  RowsTyped' /\ WorkTyped'
<1>1. task[w].send \in Send
  BY DEF Typed, WorkTyped
<1>2. RowsTyped'
  BY <1>1, RowWritten DEF Typed, Finish
<1>3. WorkTyped'
  BY WorkerFreed DEF Typed, Finish, Location, Handling
<1> QED
  BY <1>2, <1>3

LEMMA Rows ==
    ASSUME NEW r \in SendRow
    PROVE  /\ [r EXCEPT !.status = "queued", !.ready = FALSE] \in SendRow
           /\ [r EXCEPT !.status = "queued", !.ready = FALSE].attempts = r.attempts
           /\ \A st \in {"processing", "delivered", "failed", "cancelled", "sent"} :
                 /\ [r EXCEPT !.status = st, !.old = FALSE] \in SendRow
                 /\ [r EXCEPT !.status = st, !.old = FALSE].status \notin Waiting
           /\ [r EXCEPT !.ready = TRUE] \in SendRow
           /\ [r EXCEPT !.ready = TRUE].status = r.status
           /\ [r EXCEPT !.ready = TRUE].attempts = r.attempts
           /\ [r EXCEPT !.old = TRUE] \in SendRow
           /\ [r EXCEPT !.old = TRUE].status = r.status
           /\ [r EXCEPT !.old = TRUE].attempts = r.attempts
  BY DEF SendRow, Waiting

LEMMA CaughtRow ==
    ASSUME Typed, NEW w \in Worker, NEW retryable \in BOOLEAN, Caught(w, retryable)
    PROVE  \E row \in SendRow : /\ Finish(w, row)
                                /\ row.status \in {"queued", "failed"}
                                /\ row.status = "queued" => retryable
                                /\ row.status \in Waiting => row.attempts \in Before
<1> DEFINE tries == task[w].attempts + 1
           again == retryable /\ tries < MaxTries
           row == [status |-> IF again THEN "queued" ELSE "failed", attempts |-> tries,
                   ready |-> ~again, old |-> FALSE]
<1>1. tries \in 0..MaxTries /\ (again => tries \in Before)
  BY BoundAssumption DEF Typed, WorkTyped, Before
<1>2. row \in SendRow
  BY <1>1 DEF SendRow
<1>3. Finish(w, row)
  BY DEF Caught
<1> QED
  BY <1>1, <1>2, <1>3 DEF Waiting

LEMMA StepTyped == Typed /\ [Next]_vars => Typed'
<1> SUFFICES ASSUME Typed, [Next]_vars PROVE Typed'
  OBVIOUS
<1> USE DEF Typed
<1>1. CASE UNCHANGED vars
  BY <1>1 DEF vars, RowsTyped, WorkTyped, RestTyped
<1>2. ASSUME NEW s \in Send, Enqueue(s) PROVE Typed'
  <2> DEFINE row == [send[s] EXCEPT !.status = "queued", !.ready = FALSE]
  <2>1. RowsTyped'
    <3>1. send[s] \in SendRow /\ send[s].attempts \in Before
      BY <1>2 DEF Enqueue, RowsTyped, Waiting
    <3>2. row \in SendRow /\ row.attempts \in Before
      BY <3>1, Rows
    <3> QED
      BY <1>2, <3>2, RowWritten DEF Enqueue
  <2> QED
    BY <1>2, <2>1 DEF Enqueue, WorkTyped, RestTyped, workVars, shopVars, eventVars, pastVars
<1>3. ASSUME NEW s \in Send, Available(s) \/ Age(s) \/ AgeUnderWorker(s) PROVE Typed'
  <2>1. PICK row \in SendRow : /\ send' = [send EXCEPT ![s] = row]
                               /\ row.status = send[s].status
                               /\ row.attempts = send[s].attempts
    <3>1. \/ send' = [send EXCEPT ![s] = [send[s] EXCEPT !.ready = TRUE]]
          \/ send' = [send EXCEPT ![s] = [send[s] EXCEPT !.old = TRUE]]
      BY <1>3 DEF Available, Age, AgeUnderWorker
    <3>2. send[s] \in SendRow
      BY DEF RowsTyped
    <3> QED
      BY <3>1, <3>2, Rows
  <2>2. RowsTyped'
    BY <2>1, RowWritten DEF RowsTyped
  <2>3. faults' \in 0..MaxFaults
    BY <1>3, Counted DEF Available, Age, AgeUnderWorker
  <2> QED
    BY <1>3, <2>2, <2>3
    DEF Available, Age, AgeUnderWorker, WorkTyped, RestTyped, workVars, shopVars, eventVars,
        pastVars
<1>4. ASSUME NEW c \in Cart, Quieten(c) PROVE Typed'
  <2>1. cart' \in [Cart -> CartRow]
    BY <1>4 DEF Quieten, RestTyped, CartRow
  <2>2. unfit' \subseteq Send
    BY <1>4 DEF Quieten, RestTyped
  <2> QED
    BY <1>4, <2>1, <2>2 DEF Quieten, RowsTyped, WorkTyped, RestTyped, workVars, eventVars
<1>5. ASSUME NEW c \in Cart, NEW status \in {"pending", "abandoned", "recovered"},
             NEW quiet \in BOOLEAN, Observe(c, status, quiet)
      PROVE  Typed'
  <2>1. cart' \in [Cart -> CartRow]
    BY <1>5 DEF Observe, RestTyped, CartRow
  <2>2. unfit' \subseteq Send
    BY <1>5 DEF Observe, RestTyped
  <2>3. changes' \in 0..MaxChanges
    BY <1>5, Counted DEF Observe
  <2> QED
    BY <1>5, <2>1, <2>2, <2>3 DEF Observe, RowsTyped, WorkTyped, RestTyped, workVars, eventVars
<1>6. ASSUME NEW allowed \in BOOLEAN, SetPermission(allowed) PROVE Typed'
  <2>1. changes' \in 0..MaxChanges
    BY <1>6, Counted DEF SetPermission
  <2> QED
    BY <1>6, <2>1 DEF SetPermission, RowsTyped, WorkTyped, RestTyped, workVars, eventVars
<1>7. ASSUME NEW w \in Worker, StartPass(w) \/ EndPass(w) PROVE Typed'
  <2>1. WorkTyped'
    BY <1>7, WorkerMoved DEF StartPass, EndPass, Location, Handling
  <2> QED
    BY <1>7, <2>1 DEF StartPass, EndPass, RowsTyped, RestTyped, shopVars, eventVars, pastVars
<1>8. ASSUME NEW w \in Worker, Promote(w) PROVE Typed'
  <2>1. WorkTyped'
    BY <1>8, WorkerMoved DEF Promote, Location, Handling
  <2>2. cart' \in [Cart -> CartRow]
    BY <1>8 DEF Promote, RestTyped, CartRow
  <2> QED
    BY <1>8, <2>1, <2>2 DEF Promote, RowsTyped, RestTyped, eventVars
<1>9. ASSUME NEW w \in Worker, Sweep(w) PROVE Typed'
  <2>1. WorkTyped'
    BY <1>9, WorkerMoved DEF Sweep, Location, Handling
  <2>2. RowsTyped'
    <3>1. \A s \in Send : send'[s] \in SendRow /\
                          (send'[s].status \in Waiting => send'[s] = send[s])
      <4> SUFFICES ASSUME NEW s \in Send
                   PROVE  send'[s] \in SendRow
                          /\ (send'[s].status \in Waiting => send'[s] = send[s])
        OBVIOUS
      <4>1. \/ send'[s] = send[s]
            \/ send'[s] = [send[s] EXCEPT !.status = "failed", !.old = FALSE]
        BY <1>9 DEF Sweep
      <4>2. send[s] \in SendRow
        BY DEF RowsTyped
      <4> QED
        BY <4>1, <4>2, Rows
    <3> QED
      BY <1>9, <3>1 DEF Sweep, RowsTyped
  <2> QED
    BY <1>9, <2>1, <2>2 DEF Sweep, RestTyped, shopVars, eventVars, pastVars
<1>10. ASSUME NEW w \in Worker, List(w) PROVE Typed'
  <2>1. listed' \in [Worker -> SUBSET (Send \X Before)]
    BY <1>10 DEF List, RowsTyped, WorkTyped, Waiting
  <2>2. WorkTyped'
    BY <1>10, <2>1 DEF List, WorkTyped, Goto, Location, Handling
  <2> QED
    BY <1>10, <2>2 DEF List, RowsTyped, RestTyped, shopVars, eventVars, pastVars
<1>11. ASSUME NEW w \in Worker, NEW entry \in listed[w], Try(w, entry) PROVE Typed'
  <2> DEFINE s == entry[1]
  <2>0. entry \in Send \X Before /\ s \in Send /\ entry[2] \in Before
    BY DEF WorkTyped
  <2>1. listed' \in [Worker -> SUBSET (Send \X Before)]
    BY <1>11 DEF Try, WorkTyped
  <2>2. CASE UNCHANGED <<send, task, pastVars, pc>>
    BY <1>11, <2>1, <2>2 DEF Try, RowsTyped, WorkTyped, RestTyped, shopVars, eventVars, pastVars
  <2>3. CASE /\ send' = [send EXCEPT ![s] = [@ EXCEPT !.status = "processing", !.old = FALSE]]
             /\ task' = [task EXCEPT ![w] = [send |-> s, attempts |-> entry[2]]]
             /\ Goto(w, "policy")
             /\ unwilling' \subseteq unwilling \cup {s} /\ unfit' \subseteq unfit \cup {s}
    <3>1. RowsTyped'
      <4> DEFINE row == [send[s] EXCEPT !.status = "processing", !.old = FALSE]
      <4>1. row \in SendRow /\ row.status \notin Waiting
        BY <2>0, Rows DEF RowsTyped
      <4> QED
        BY <2>0, <2>3, <4>1, RowWritten
    <3>2. task' \in [Worker -> [send : Send \cup {None}, attempts : Before]]
      BY <2>0, <2>3 DEF WorkTyped
    <3>3. pc' \in [Worker -> Location]
      BY <2>3 DEF WorkTyped, Goto, Location
    <3>4. \A v \in Worker : pc'[v] \in Handling <=> task'[v].send \in Send
      BY <2>0, <2>3 DEF WorkTyped, Goto, Handling
    <3> QED
      BY <1>11, <2>0, <2>1, <2>3, <3>1, <3>2, <3>3, <3>4
      DEF Try, WorkTyped, RestTyped, shopVars, eventVars
  <2> QED
    BY <1>11, <2>2, <2>3 DEF Try
<1>12. ASSUME NEW w \in Worker, CheckPolicy(w) \/ CheckCart(w) PROVE Typed'
  <2>1. RowsTyped' /\ WorkTyped'
    <3>1. CASE \E l \in {"cart", "discount"} : Goto(w, l) /\ UNCHANGED <<send, task, listed>>
      BY <1>12, <3>1, WorkerMoved
      DEF CheckPolicy, CheckCart, RowsTyped, Location, Handling
    <3>2. CASE Cancel(w) /\ UNCHANGED listed
      <4>1. task[w].send \in Send /\ pc[w] \in Handling
        BY <1>12 DEF CheckPolicy, CheckCart, Handling, WorkTyped
      <4> DEFINE row == [send[task[w].send] EXCEPT !.status = "cancelled", !.old = FALSE]
      <4>2. row \in SendRow /\ row.status \notin Waiting
        BY <4>1, Rows DEF RowsTyped
      <4> QED
        BY <3>2, <4>1, <4>2, FinishTyped DEF Cancel
    <3> QED
      BY <1>12, <3>1, <3>2 DEF CheckPolicy, CheckCart, Step
  <2> QED
    BY <1>12, <2>1 DEF CheckPolicy, CheckCart, RestTyped, shopVars, eventVars, pastVars
<1>13. ASSUME NEW w \in Worker, CreateDiscount(w) \/ SendMail(w) PROVE Typed'
  <2>1. WorkTyped'
    BY <1>13, WorkerMoved DEF CreateDiscount, SendMail, Step, Location, Handling
  <2>2. mails' \in [Send -> Nat]
    BY <1>13 DEF CreateDiscount, SendMail, RestTyped
  <2> QED
    BY <1>13, <2>1, <2>2
    DEF CreateDiscount, SendMail, Step, RowsTyped, RestTyped, shopVars, eventVars, pastVars
<1>14. ASSUME NEW w \in Worker, RecordSent(w) PROVE Typed'
  <2>1. task[w].send \in Send /\ pc[w] \in Handling
    BY <1>14 DEF RecordSent, Handling, WorkTyped
  <2> DEFINE row == [send[task[w].send] EXCEPT !.status = "sent", !.old = FALSE]
  <2>2. row \in SendRow /\ row.status \notin Waiting
    BY <2>1, Rows DEF RowsTyped
  <2>3. RowsTyped' /\ WorkTyped'
    BY <1>14, <2>1, <2>2, FinishTyped DEF RecordSent
  <2> QED
    BY <1>14, <2>3 DEF RecordSent, RestTyped, shopVars, eventVars, pastVars
<1>15. ASSUME NEW w \in Worker, Throws(w) PROVE Typed'
  <2>1. PICK retryable \in BOOLEAN : Caught(w, retryable)
    BY <1>15 DEF Throws, RetryableAt
  <2>2. pc[w] \in Handling
    BY <1>15 DEF Throws, Handling
  <2>3. PICK row \in SendRow :
            Finish(w, row) /\ (row.status \in Waiting => row.attempts \in Before)
    BY <2>1, CaughtRow
  <2>4. RowsTyped' /\ WorkTyped'
    BY <1>15, <2>2, <2>3, FinishTyped DEF Throws
  <2>5. mails' \in [Send -> Nat]
    <3>1. \/ mails' = mails
          \/ mails' = [mails EXCEPT ![task[w].send] = @ + 1]
      BY <1>15 DEF Throws
    <3> QED
      BY <3>1 DEF RestTyped
  <2>6. faults' \in 0..MaxFaults
    BY <1>15, Counted DEF Throws
  <2> QED
    BY <1>15, <2>4, <2>5, <2>6 DEF Throws, RestTyped, shopVars, eventVars, pastVars
<1>16. ASSUME NEW w \in Worker, Crash(w) PROVE Typed'
  <2>1. WorkTyped'
    BY <1>16, WorkerFreed DEF Crash, Location, Handling
  <2>2. faults' \in 0..MaxFaults
    BY <1>16, Counted DEF Crash
  <2> QED
    BY <1>16, <2>1, <2>2 DEF Crash, RowsTyped, RestTyped, shopVars, eventVars, pastVars
<1>17. ASSUME NEW s \in Send, NEW kind \in Kind, Emit(s, kind) PROVE Typed'
  <2>1. emitted' \subseteq Event /\ emitted \subseteq emitted'
    BY <1>17 DEF Emit, RestTyped, Event
  <2>2. changes' \in 0..MaxChanges
    BY <1>17, Counted DEF Emit
  <2> QED
    BY <1>17, <2>1, <2>2 DEF Emit, RowsTyped, WorkTyped, RestTyped, workVars, pastVars
<1>18. ASSUME NEW e \in emitted, Receive(e) PROVE Typed'
  BY <1>18 DEF Receive, RowsTyped, WorkTyped, RestTyped, shopVars, workVars, pastVars
<1>19. CASE InsertEvent
  <2>1. handler \in [event : Event, at : {"insert"}] /\ handler.event \in emitted
    BY <1>19 DEF InsertEvent, RestTyped, Idle
  <2> QED
    BY <1>19, <2>1
    DEF InsertEvent, Acknowledge, Idle, RowsTyped, WorkTyped, RestTyped, shopVars, workVars,
        pastVars
<1>20. CASE ApplyStatus
  <2>1. /\ handler \in [event : Event, at : {"update"}]
        /\ handler.event \in recorded /\ handler.event \in emitted
    BY <1>20 DEF ApplyStatus, RestTyped, Idle
  <2> DEFINE e == handler.event
             row == [send[e.send] EXCEPT !.status = e.kind, !.old = FALSE]
  <2>2. e.send \in Send /\ e.kind \in Kind
    BY <2>1 DEF Event
  <2>3. RowsTyped'
    <3>1. CASE e.kind = "unsubscribed"
      BY <1>20, <3>1 DEF ApplyStatus, RowsTyped
    <3>2. CASE e.kind # "unsubscribed"
      <4>1. e.kind \in {"delivered", "failed"}
        BY <2>2, <3>2 DEF Kind
      <4>2. row \in SendRow /\ row.status \notin Waiting
        BY <2>2, <4>1, Rows DEF RowsTyped
      <4>3. send' = [send EXCEPT ![e.send] = row]
        BY <1>20, <3>2 DEF ApplyStatus
      <4> QED
        BY <2>2, <4>2, <4>3, RowWritten
    <3> QED
      BY <3>1, <3>2
  <2> QED
    BY <1>20, <2>1, <2>3
    DEF ApplyStatus, Acknowledge, Idle, WorkTyped, RestTyped, shopVars, workVars, pastVars
<1>21. CASE RevokeConsent
  <2>1. handler.event \in recorded
    BY <1>21 DEF RevokeConsent, RestTyped
  <2> QED
    BY <1>21, <2>1
    DEF RevokeConsent, Acknowledge, Idle, RowsTyped, WorkTyped, RestTyped, workVars, pastVars
<1>22. CASE HandlerFails
  <2>1. faults' \in 0..MaxFaults
    BY <1>22, Counted DEF HandlerFails
  <2> QED
    BY <1>22, <2>1
    DEF HandlerFails, Idle, RowsTyped, WorkTyped, RestTyped, shopVars, workVars, pastVars
<1> QED
  BY <1>1, <1>2, <1>3, <1>4, <1>5, <1>6, <1>7, <1>8, <1>9, <1>10, <1>11, <1>12, <1>13, <1>14,
     <1>15, <1>16, <1>17, <1>18, <1>19, <1>20, <1>21, <1>22
  DEF Next, Work, Handle

LEMMA InitTyped == Init => Typed
<1> SUFFICES ASSUME Init PROVE Typed
  OBVIOUS
<1>1. 0 \in Before /\ 0 \in 0..MaxTries /\ 0 \in 0..MaxFaults /\ 0 \in 0..MaxChanges
  BY BoundAssumption DEF Before
<1>2. RowsTyped
  BY <1>1 DEF Init, RowsTyped, SendRow
<1>3. WorkTyped
  BY <1>1, NoneAssumption DEF Init, WorkTyped, NoTask, Location, Handling
<1>4. RestTyped
  BY <1>1 DEF Init, RestTyped, CartRow, Idle
<1> QED
  BY <1>2, <1>3, <1>4 DEF Typed

(* The model's states are well formed; no send is given more attempts than   *)
(* the code's three.                                                         *)
THEOREM TypeCorrect == Spec => []TypeOK
<1>1. Spec => []Typed
  BY InitTyped, StepTyped, PTL DEF Spec
<1> QED
  BY <1>1, TypedIsTypeOK, PTL

----------------------------------------------------------------------------
(* A message has one worker, which claimed it from the queue and may put it  *)
(* back only while no mail has left.  That the sweep gives a message up, or  *)
(* an event changes its row, under the worker's hands does no harm: neither  *)
(* puts it back.                                                             *)

Unsent == {"policy", "cart", "discount", "mailing"}

OneHand ==
    /\ \A v, w \in Worker :
          task[v].send \in Send /\ task[v].send = task[w].send => v = w
    /\ \A w \in Worker :
          task[w].send \in Send => send[task[w].send].status \notin Waiting

Unmailed ==
    /\ \A s \in Send : send[s].status \in Waiting => mails[s] = 0
    /\ \A w \in Worker : pc[w] \in Unsent => mails[task[w].send] = 0

Once == OneHand /\ Unmailed /\ MailedOnce

(* Steps that claim and mail nothing and put nothing into the queue.         *)
LEMMA StillOnce ==
    ASSUME Typed, Once, UNCHANGED mails,
           \A w \in Worker : \/ task'[w] = task[w] /\ (pc'[w] \in Unsent => pc[w] \in Unsent)
                             \/ task'[w].send \notin Send /\ pc'[w] \notin Unsent,
           \A s \in Send : send'[s].status \in Waiting => send[s].status \in Waiting
    PROVE  Once'
  BY DEF Once, OneHand, Unmailed, MailedOnce

(* A worker writes its row and is done with it; only a row of which no mail  *)
(* has left goes back to the queue.                                          *)
LEMMA FinishOnce ==
    ASSUME Typed, Once, NEW w \in Worker, pc[w] \in Handling, NEW row, Finish(w, row),
           mails' \in [Send -> Nat],
           row.status \in Waiting => UNCHANGED mails /\ mails[task[w].send] = 0,
           \/ UNCHANGED mails
           \/ pc[w] \in Unsent /\ mails' = [mails EXCEPT ![task[w].send] = @ + 1]
    PROVE  Once'
<1> DEFINE s == task[w].send
<1>1. s \in Send /\ send' = [send EXCEPT ![s] = row] /\ send \in [Send -> SendRow]
  BY DEF Typed, WorkTyped, Finish, RowsTyped
<1>2. /\ task'[w].send \notin Send /\ pc'[w] = "choosing"
      /\ \A v \in Worker \ {w} : task'[v] = task[v] /\ pc'[v] = pc[v]
  BY NoneAssumption DEF Finish, Typed, WorkTyped, Goto, NoTask
<1>3. \A v \in Worker \ {w} : task[v].send \in Send => task[v].send # s
  BY <1>1 DEF Once, OneHand
<1>4. \A t \in Send \ {s} : send'[t] = send[t] /\ mails'[t] = mails[t]
  BY <1>1 DEF Typed, RestTyped
<1>5. send'[s] = row /\ send[s].status \notin Waiting
  BY <1>1 DEF Once, OneHand
<1>6. OneHand'
  BY <1>1, <1>2, <1>3, <1>4 DEF Once, OneHand
<1>7. Unmailed'
  <2>1. ASSUME NEW t \in Send, send'[t].status \in Waiting PROVE mails'[t] = 0
    <3>1. CASE t = s
      BY <1>5, <2>1, <3>1
    <3>2. CASE t # s
      BY <1>4, <2>1, <3>2 DEF Once, Unmailed
    <3> QED
      BY <3>1, <3>2
  <2>2. ASSUME NEW v \in Worker, pc'[v] \in Unsent PROVE mails'[task'[v].send] = 0
    <3>1. v # w
      BY <1>2, <2>2 DEF Unsent
    <3>2. task[v].send \in Send /\ pc[v] \in Unsent
      BY <1>2, <2>2, <3>1 DEF Typed, WorkTyped, Unsent, Handling
    <3> QED
      BY <1>2, <1>3, <1>4, <3>1, <3>2 DEF Once, Unmailed
  <2> QED
    BY <2>1, <2>2 DEF Unmailed
<1>8. MailedOnce'
  <2>1. CASE UNCHANGED mails
    BY <2>1 DEF Once, MailedOnce
  <2>2. CASE pc[w] \in Unsent /\ mails' = [mails EXCEPT ![s] = @ + 1]
    <3>1. mails[s] = 0 /\ mails'[s] = 1
      BY <1>1, <2>2 DEF Once, Unmailed, Typed, RestTyped
    <3> QED
      BY <1>4, <3>1 DEF Once, MailedOnce
  <2> QED
    BY <2>1, <2>2
<1> QED
  BY <1>6, <1>7, <1>8 DEF Once

LEMMA StepOnce == Typed /\ Once /\ [Next]_vars => Once'
<1> SUFFICES ASSUME Typed, Once, [Next]_vars PROVE Once'
  OBVIOUS
<1>1. CASE UNCHANGED <<send, mails, workVars>>
  BY <1>1, StillOnce DEF workVars
<1>2. ASSUME NEW s \in Send, Enqueue(s) \/ Available(s) \/ Age(s) \/ AgeUnderWorker(s)
      PROVE  Once'
  <2>1. \A t \in Send : send'[t].status \in Waiting => send[t].status \in Waiting
    <3>1. send[s] \in SendRow /\ send \in [Send -> SendRow]
      BY DEF Typed, RowsTyped
    <3>2. CASE Enqueue(s)
      BY <3>1, <3>2 DEF Enqueue, Waiting
    <3>3. \/ ~(Available(s) \/ Age(s) \/ AgeUnderWorker(s))
          \/ send' = [send EXCEPT ![s] = [send[s] EXCEPT !.ready = TRUE]]
          \/ send' = [send EXCEPT ![s] = [send[s] EXCEPT !.old = TRUE]]
      BY DEF Available, Age, AgeUnderWorker
    <3> QED
      BY <1>2, <3>1, <3>2, <3>3, Rows
  <2> QED
    BY <1>2, <2>1, StillOnce DEF Enqueue, Available, Age, AgeUnderWorker, workVars
<1>3. ASSUME NEW w \in Worker, StartPass(w) \/ EndPass(w) \/ Promote(w) \/ List(w)
      PROVE  Once'
  <2>1. \A v \in Worker : pc'[v] \in Unsent => pc[v] \in Unsent
    BY <1>3 DEF StartPass, EndPass, Promote, List, Goto, Typed, WorkTyped, Unsent
  <2> QED
    BY <1>3, <2>1, StillOnce DEF StartPass, EndPass, Promote, List
<1>4. ASSUME NEW w \in Worker, Sweep(w) PROVE Once'
  <2>1. \A v \in Worker : pc'[v] \in Unsent => pc[v] \in Unsent
    BY <1>4 DEF Sweep, Goto, Typed, WorkTyped, Unsent
  <2>2. \A t \in Send : send'[t].status \in Waiting => send[t].status \in Waiting
    <3>1. ASSUME NEW t \in Send PROVE \/ send'[t] = send[t]
                                      \/ send'[t].status \notin Waiting
      <4>1. send[t] \in SendRow
        BY DEF Typed, RowsTyped
      <4> QED
        BY <1>4, <4>1, Rows DEF Sweep
    <3> QED
      BY <3>1
  <2> QED
    BY <1>4, <2>1, <2>2, StillOnce DEF Sweep
<1>5. ASSUME NEW w \in Worker, NEW entry \in listed[w], Try(w, entry) PROVE Once'
  <2> DEFINE s == entry[1]
             row == [send[s] EXCEPT !.status = "processing", !.old = FALSE]
  <2>0. s \in Send /\ pc[w] = "choosing" /\ mails' = mails
    BY <1>5 DEF Try, Typed, WorkTyped
  <2>1. CASE UNCHANGED <<send, task, pastVars, pc>>
    BY <1>5, <2>1, <2>0, StillOnce
  <2>2. CASE /\ Claimable(s)
             /\ send' = [send EXCEPT ![s] = row]
             /\ task' = [task EXCEPT ![w] = [send |-> s, attempts |-> entry[2]]]
             /\ Goto(w, "policy")
    <3>1. row.status \notin Waiting
      BY <2>0, Rows DEF Typed, RowsTyped
    <3>2. mails[s] = 0 /\ \A v \in Worker : task[v].send # s
      BY <2>0, <2>2 DEF Once, OneHand, Unmailed, Claimable, Waiting
    <3>3. /\ task'[w].send = s /\ send'[s] = row
          /\ \A t \in Send \ {s} : send'[t] = send[t]
          /\ \A v \in Worker \ {w} : task'[v] = task[v] /\ pc'[v] = pc[v]
      BY <2>0, <2>2 DEF Typed, RowsTyped, WorkTyped, Goto
    <3>4. OneHand'
      <4>1. ASSUME NEW v \in Worker, task'[v].send \in Send
            PROVE  \/ v = w /\ task'[v].send = s
                   \/ v # w /\ task'[v] = task[v] /\ task[v].send # s
        BY <3>2, <3>3, <4>1
      <4>2. ASSUME NEW v \in Worker, task'[v].send \in Send
            PROVE  send'[task'[v].send].status \notin Waiting
        <5>1. CASE v = w
          BY <3>1, <3>3, <5>1
        <5>2. CASE v # w
          <6>1. task'[v] = task[v] /\ task[v].send \in Send \ {s}
            BY <4>1, <4>2, <5>2
          <6>2. send[task[v].send].status \notin Waiting
            BY <6>1 DEF Once, OneHand
          <6> QED
            BY <3>3, <6>1, <6>2
        <5> QED
          BY <5>1, <5>2
      <4>3. ASSUME NEW u \in Worker, NEW v \in Worker, task'[u].send \in Send,
                   task'[u].send = task'[v].send
            PROVE  u = v
        BY <4>1, <4>3 DEF Once, OneHand
      <4> QED
        BY <4>2, <4>3 DEF OneHand
    <3>5. Unmailed'
      BY <2>0, <3>1, <3>2, <3>3 DEF Once, Unmailed
    <3> QED
      BY <2>0, <3>4, <3>5 DEF Once, MailedOnce
  <2> QED
    BY <1>5, <2>1, <2>2 DEF Try
<1>6. ASSUME NEW w \in Worker, CheckPolicy(w) \/ CheckCart(w) PROVE Once'
  <2>0. pc[w] \in Unsent /\ pc[w] \in Handling /\ mails' = mails /\ listed' = listed
    BY <1>6 DEF CheckPolicy, CheckCart, Unsent, Handling
  <2>1. CASE \E l \in {"cart", "discount"} : Goto(w, l) /\ UNCHANGED <<send, task>>
    <3>1. \A v \in Worker : pc'[v] \in Unsent => pc[v] \in Unsent
      BY <2>0, <2>1 DEF Goto, Typed, WorkTyped
    <3> QED
      BY <2>0, <2>1, <3>1, StillOnce
  <2>2. CASE Cancel(w)
    <3> DEFINE row == [send[task[w].send] EXCEPT !.status = "cancelled", !.old = FALSE]
    <3>1. row.status \notin Waiting
      BY <2>0, Rows DEF Typed, RowsTyped, WorkTyped
    <3>2. mails' \in [Send -> Nat]
      BY <2>0 DEF Typed, RestTyped
    <3> QED
      BY <2>0, <2>2, <3>1, <3>2, FinishOnce DEF Cancel
  <2> QED
    BY <1>6, <2>1, <2>2 DEF CheckPolicy, CheckCart, Step
<1>7. ASSUME NEW w \in Worker, CreateDiscount(w) PROVE Once'
  <2>1. \A v \in Worker : pc'[v] \in Unsent => pc[v] \in Unsent
    BY <1>7 DEF CreateDiscount, Step, Goto, Typed, WorkTyped, Unsent
  <2> QED
    BY <1>7, <2>1, StillOnce DEF CreateDiscount, Step
<1>8. ASSUME NEW w \in Worker, SendMail(w) PROVE Once'
  <2> DEFINE s == task[w].send
  <2>1. /\ pc[w] = "mailing" /\ mails' = [mails EXCEPT ![s] = @ + 1]
        /\ Goto(w, "recording") /\ UNCHANGED <<send, task>>
    BY <1>8 DEF SendMail, Step
  <2>2. s \in Send /\ mails[s] = 0 /\ mails'[s] = 1
        /\ \A t \in Send \ {s} : mails'[t] = mails[t]
    BY <2>1 DEF Typed, WorkTyped, RestTyped, Once, Unmailed, Unsent, Handling
  <2>3. /\ pc'[w] = "recording" /\ \A v \in Worker \ {w} : pc'[v] = pc[v]
    BY <2>1 DEF Typed, WorkTyped, Goto
  <2>4. OneHand'
    BY <2>1 DEF Once, OneHand
  <2>5. Unmailed'
    <3>1. \A v \in Worker : pc[v] \in Unsent => task[v].send \in Send
      BY DEF Typed, WorkTyped, Unsent, Handling
    <3>2. \A v \in Worker \ {w} : task[v].send \in Send => task[v].send # s
      BY <2>2 DEF Once, OneHand
    <3>3. \A t \in Send : send'[t].status \in Waiting => t # s
      BY <2>1, <2>2 DEF Once, OneHand
    <3> QED
      BY <2>1, <2>2, <2>3, <3>1, <3>2, <3>3 DEF Once, Unmailed, Unsent
  <2>6. MailedOnce'
    BY <2>2 DEF Once, MailedOnce
  <2> QED
    BY <2>4, <2>5, <2>6 DEF Once
<1>9. ASSUME NEW w \in Worker, RecordSent(w) PROVE Once'
  <2> DEFINE row == [send[task[w].send] EXCEPT !.status = "sent", !.old = FALSE]
  <2>0. pc[w] \in Handling /\ mails' = mails /\ Finish(w, row)
    BY <1>9 DEF RecordSent, Handling
  <2>1. row.status \notin Waiting
    BY <2>0, Rows DEF Typed, RowsTyped, WorkTyped
  <2>2. mails' \in [Send -> Nat]
    BY <2>0 DEF Typed, RestTyped
  <2> QED
    BY <2>0, <2>1, <2>2, FinishOnce
<1>10. ASSUME NEW w \in Worker, Throws(w) PROVE Once'
  <2>1. \/ pc[w] = "mailing" /\ Caught(w, TRUE) /\ UNCHANGED mails
        \/ Caught(w, FALSE) /\ UNCHANGED mails
        \/ /\ pc[w] = "mailing" /\ Caught(w, FALSE)
           /\ mails' = [mails EXCEPT ![task[w].send] = @ + 1]
    BY <1>10 DEF Throws, RetryableAt
  <2>2. PICK row \in SendRow : /\ Finish(w, row)
                               /\ row.status \in {"queued", "failed"}
                               /\ row.status = "queued" => pc[w] = "mailing" /\ mails' = mails
    BY <2>1, CaughtRow
  <2>3. pc[w] \in Handling /\ (pc[w] = "mailing" => pc[w] \in Unsent)
    BY <1>10 DEF Throws, Handling, Unsent
  <2>4. row.status \in Waiting => mails' = mails /\ mails[task[w].send] = 0
    BY <2>2, <2>3 DEF Once, Unmailed, Waiting
  <2>5. mails' \in [Send -> Nat]
    <3>1. mails' = mails \/ mails' = [mails EXCEPT ![task[w].send] = @ + 1]
      BY <2>1
    <3> QED
      BY <3>1 DEF Typed, RestTyped
  <2> QED
    BY <2>1, <2>2, <2>3, <2>4, <2>5, FinishOnce
<1>11. ASSUME NEW w \in Worker, Crash(w) PROVE Once'
  <2>1. \A v \in Worker : \/ task'[v] = task[v] /\ pc'[v] = pc[v]
                          \/ task'[v].send \notin Send /\ pc'[v] \notin Unsent
    BY <1>11, NoneAssumption DEF Crash, Goto, Typed, WorkTyped, NoTask, Unsent
  <2> QED
    BY <1>11, <2>1, StillOnce DEF Crash
<1>12. CASE ApplyStatus
  <2> DEFINE e == handler.event
             row == [send[e.send] EXCEPT !.status = e.kind, !.old = FALSE]
  <2>1. e.send \in Send /\ e.kind \in Kind
    BY <1>12 DEF ApplyStatus, Typed, RestTyped, Idle, Event
  <2>2. \A t \in Send : send'[t].status \in Waiting => send[t].status \in Waiting
    <3>1. CASE e.kind = "unsubscribed"
      BY <1>12, <3>1 DEF ApplyStatus
    <3>2. CASE e.kind # "unsubscribed"
      <4>1. row.status \notin Waiting
        BY <2>1, <3>2, Rows DEF Kind, Typed, RowsTyped
      <4>2. send' = [send EXCEPT ![e.send] = row]
        BY <1>12, <3>2 DEF ApplyStatus
      <4> QED
        BY <2>1, <4>1, <4>2 DEF Typed, RowsTyped
    <3> QED
      BY <3>1, <3>2
  <2> QED
    BY <1>12, <2>2, StillOnce DEF ApplyStatus, workVars
<1> QED
  BY <1>1, <1>2, <1>3, <1>4, <1>5, <1>6, <1>7, <1>8, <1>9, <1>10, <1>11, <1>12
  DEF Next, Work, Handle, Quieten, Observe, SetPermission, Emit, Receive, InsertEvent,
      RevokeConsent, HandlerFails, vars, workVars

LEMMA InitOnce == Init => Once
  BY NoneAssumption DEF Init, Once, OneHand, Unmailed, MailedOnce, NoTask, Unsent

(* No send is mailed twice, for any number of overlapping passes, crashes,   *)
(* refusals and slow workers.                                                *)
THEOREM NeverMailedTwice == Spec => []MailedOnce
<1>1. Spec => []Typed
  BY InitTyped, StepTyped, PTL DEF Spec
<1>2. Once => MailedOnce
  BY DEF Once
<1> QED
  BY <1>1, <1>2, InitOnce, StepOnce, PTL DEF Spec

----------------------------------------------------------------------------
(* The grounds of a mail.  While consent holds no send is without it, and    *)
(* while a cart may be contacted its sends are fit; a worker that is past a  *)
(* check has seen this since its claim, and no other worker claims its send. *)

Willing ==
    /\ permitted => unwilling = {}
    /\ \A w \in Worker : pc[w] \in {"cart", "discount", "mailing"}
                            => task[w].send \notin unwilling
Fit ==
    /\ \A s \in Send : Contactable(cartOf[s]) => s \notin unfit
    /\ \A w \in Worker : pc[w] \in {"discount", "mailing"} => task[w].send \notin unfit
Grounds == Willing /\ Fit

(* Steps that take no send and let no worker past a check.                   *)
LEMMA StillWilling ==
    ASSUME Typed, Willing, unwilling' \subseteq unwilling,
           permitted' => permitted \/ unwilling' = {},
           \A w \in Worker : pc'[w] \in {"cart", "discount", "mailing"}
                                => /\ pc[w] \in {"cart", "discount", "mailing"}
                                   /\ task'[w] = task[w]
    PROVE  Willing'
  BY DEF Willing

LEMMA StillFit ==
    ASSUME Typed, Fit, unfit' \subseteq unfit,
           \A s \in Send : Contactable(cartOf[s])' => Contactable(cartOf[s]) \/ s \notin unfit',
           \A w \in Worker : pc'[w] \in {"discount", "mailing"}
                                => pc[w] \in {"discount", "mailing"} /\ task'[w] = task[w]
    PROVE  Fit'
  BY DEF Fit

LEMMA StepGrounds == Typed /\ Once /\ Grounds /\ [Next]_vars => Grounds'
<1> SUFFICES ASSUME Typed, Once, Grounds, [Next]_vars PROVE Grounds'
  OBVIOUS
<1> USE DEF Grounds
<1>1. CASE UNCHANGED <<cart, permitted, pastVars, workVars>>
  BY <1>1, StillWilling, StillFit DEF Contactable, pastVars, workVars
<1>2. ASSUME NEW c \in Cart, Quieten(c) PROVE Grounds'
  <2>1. ASSUME NEW s \in Send, Contactable(cartOf[s])'
        PROVE  Contactable(cartOf[s]) \/ s \notin unfit'
    <3>1. cart' = [cart EXCEPT ![c].quiet = TRUE] /\ cart \in [Cart -> CartRow]
      BY <1>2 DEF Quieten, Typed, RestTyped
    <3>2. CASE cartOf[s] = c
      BY <1>2, <2>1, <3>1, <3>2 DEF Quieten, About, Contactable, CartRow
    <3>3. CASE cartOf[s] # c
      BY <2>1, <3>1, <3>3 DEF Contactable
    <3> QED
      BY <3>2, <3>3
  <2> QED
    BY <1>2, <2>1, StillWilling, StillFit DEF Quieten, workVars
<1>3. ASSUME NEW c \in Cart, NEW status \in {"pending", "abandoned", "recovered"},
             NEW quiet \in BOOLEAN, Observe(c, status, quiet)
      PROVE  Grounds'
  <2>1. ASSUME NEW s \in Send, Contactable(cartOf[s])'
        PROVE  Contactable(cartOf[s]) \/ s \notin unfit'
    <3>1. cart' = [cart EXCEPT ![c] = [status |-> status, quiet |-> quiet]]
          /\ cart \in [Cart -> CartRow]
      BY <1>3 DEF Observe, Typed, RestTyped
    <3>2. CASE cartOf[s] = c
      <4>1. status = "abandoned" /\ quiet
        BY <2>1, <3>1, <3>2 DEF Contactable
      <4> QED
        BY <1>3, <3>2, <4>1 DEF Observe, About
    <3>3. CASE cartOf[s] # c
      BY <2>1, <3>1, <3>3 DEF Contactable
    <3> QED
      BY <3>2, <3>3
  <2> QED
    BY <1>3, <2>1, StillWilling, StillFit DEF Observe, workVars
<1>4. ASSUME NEW allowed \in BOOLEAN, SetPermission(allowed) PROVE Grounds'
  BY <1>4, StillWilling, StillFit DEF SetPermission, workVars, Contactable, Willing
<1>5. ASSUME NEW w \in Worker, Promote(w) PROVE Grounds'
  <2>1. ASSUME NEW s \in Send, Contactable(cartOf[s])'
        PROVE  Contactable(cartOf[s]) \/ s \notin unfit'
    BY <1>5, <2>1, CartAssumption DEF Promote, Promotable, Contactable
  <2>2. \A v \in Worker : pc'[v] = pc[v] \/ pc'[v] = "sweeping"
    BY <1>5 DEF Promote, Goto, Typed, WorkTyped
  <2> QED
    BY <1>5, <2>1, <2>2, StillWilling, StillFit DEF Promote
<1>6. ASSUME NEW w \in Worker, NEW l \in Location \ {"cart", "discount", "mailing"},
             Goto(w, l), UNCHANGED <<cart, permitted, pastVars>>,
             UNCHANGED task \/ task' = [task EXCEPT ![w] = NoTask]
      PROVE  Grounds'
  <2>1. \A v \in Worker : \/ pc'[v] = pc[v] /\ task'[v] = task[v]
                          \/ pc'[v] \notin {"cart", "discount", "mailing"}
    BY <1>6 DEF Goto, Typed, WorkTyped
  <2> QED
    BY <1>6, <2>1, StillWilling, StillFit DEF Contactable, pastVars
<1>7. ASSUME NEW w \in Worker, NEW entry \in listed[w], Try(w, entry) PROVE Grounds'
  <2> DEFINE s == entry[1]
  <2>0. s \in Send
    BY DEF Typed, WorkTyped
  <2>1. CASE UNCHANGED <<send, task, pastVars, pc>>
    BY <1>7, <2>1, StillWilling, StillFit DEF Try, shopVars, Contactable, pastVars
  <2>2. CASE /\ Claimable(s)
             /\ task' = [task EXCEPT ![w] = [send |-> s, attempts |-> entry[2]]]
             /\ unwilling' = IF permitted THEN unwilling \ {s} ELSE unwilling \cup {s}
             /\ unfit' = IF Contactable(cartOf[s]) THEN unfit \ {s} ELSE unfit \cup {s}
             /\ Goto(w, "policy")
    <3>1. \A v \in Worker : task[v].send # s
      BY <2>0, <2>2 DEF Once, OneHand, Claimable, Waiting
    <3>2. \A v \in Worker : \/ v # w /\ pc'[v] = pc[v] /\ task'[v] = task[v]
                            \/ v = w /\ pc'[v] = "policy"
      BY <2>2 DEF Typed, WorkTyped, Goto
    <3>3. UNCHANGED <<cart, permitted>>
      BY <1>7 DEF Try, shopVars
    <3>4. Willing'
      BY <2>2, <3>1, <3>2, <3>3 DEF Willing
    <3>5. Fit'
      BY <2>2, <3>1, <3>2, <3>3 DEF Fit, Contactable
    <3> QED
      BY <3>4, <3>5
  <2> QED
    BY <1>7, <2>1, <2>2 DEF Try
<1>8. ASSUME NEW w \in Worker, CheckPolicy(w) PROVE Grounds'
  <2>1. CASE permitted /\ Goto(w, "cart") /\ UNCHANGED task
    <3>1. /\ pc'[w] = "cart"
          /\ \A v \in Worker \ {w} : pc'[v] = pc[v]
      BY <2>1 DEF Goto, Typed, WorkTyped
    <3>2. UNCHANGED <<cart, permitted, pastVars>>
      BY <1>8 DEF CheckPolicy, shopVars
    <3>3. Willing'
      BY <2>1, <3>1, <3>2 DEF Willing, pastVars
    <3>4. Fit'
      BY <2>1, <3>1, <3>2, StillFit DEF Contactable, pastVars
    <3> QED
      BY <3>3, <3>4
  <2>2. CASE Cancel(w)
    BY <1>8, <1>6, <2>2 DEF CheckPolicy, Cancel, Finish, shopVars, Location
  <2> QED
    BY <1>8, <2>1, <2>2 DEF CheckPolicy, Step
<1>9. ASSUME NEW w \in Worker, CheckCart(w) PROVE Grounds'
  <2>1. CASE Contactable(cartOf[task[w].send]) /\ Goto(w, "discount") /\ UNCHANGED task
    <3>1. /\ pc[w] = "cart" /\ task[w].send \in Send
          /\ pc'[w] = "discount"
          /\ \A v \in Worker \ {w} : pc'[v] = pc[v]
      BY <1>9, <2>1 DEF CheckCart, Goto, Typed, WorkTyped, Handling
    <3>2. UNCHANGED <<cart, permitted, pastVars>>
      BY <1>9 DEF CheckCart, shopVars
    <3>3. Willing'
      BY <2>1, <3>1, <3>2, StillWilling DEF pastVars
    <3>4. Fit'
      BY <2>1, <3>1, <3>2 DEF Fit, Contactable, pastVars
    <3> QED
      BY <3>3, <3>4
  <2>2. CASE Cancel(w)
    BY <1>9, <1>6, <2>2 DEF CheckCart, Cancel, Finish, shopVars, Location
  <2> QED
    BY <1>9, <2>1, <2>2 DEF CheckCart, Step
<1>10. ASSUME NEW w \in Worker, CreateDiscount(w) PROVE Grounds'
  <2>1. /\ pc[w] = "discount" /\ pc'[w] = "mailing"
        /\ \A v \in Worker \ {w} : pc'[v] = pc[v]
    BY <1>10 DEF CreateDiscount, Step, Goto, Typed, WorkTyped
  <2> QED
    BY <1>10, <2>1, StillWilling, StillFit
    DEF CreateDiscount, Step, shopVars, pastVars, Contactable
<1>11. ASSUME NEW w \in Worker, StartPass(w) \/ EndPass(w) \/ Sweep(w) \/ List(w)
                                \/ SendMail(w) \/ RecordSent(w) \/ Crash(w)
       PROVE  Grounds'
  <2>1. /\ \E l \in Location \ {"cart", "discount", "mailing"} : Goto(w, l)
        /\ UNCHANGED <<cart, permitted, pastVars>>
        /\ UNCHANGED task \/ task' = [task EXCEPT ![w] = NoTask]
    BY <1>11 DEF StartPass, EndPass, Sweep, List, SendMail, RecordSent, Crash, Step, Finish,
       shopVars, Location
  <2> QED
    BY <1>6, <2>1
<1>12. ASSUME NEW w \in Worker, Throws(w) PROVE Grounds'
  <2>1. PICK retryable \in BOOLEAN : Caught(w, retryable)
    BY <1>12 DEF Throws, RetryableAt
  <2>2. PICK row \in SendRow : Finish(w, row)
    BY <2>1, CaughtRow
  <2> QED
    BY <1>12, <1>6, <2>2 DEF Throws, Finish, shopVars, Location
<1>13. CASE RevokeConsent
  BY <1>13, StillWilling, StillFit DEF RevokeConsent, workVars, pastVars, Contactable
<1>14. ASSUME NEW s \in Send, Enqueue(s) \/ Available(s) \/ Age(s) \/ AgeUnderWorker(s)
       PROVE  Grounds'
  BY <1>1, <1>14 DEF Enqueue, Available, Age, AgeUnderWorker, shopVars
<1>15. CASE \/ \E s \in Send, kind \in Kind : Emit(s, kind)
            \/ \E e \in emitted : Receive(e)
            \/ InsertEvent \/ ApplyStatus \/ HandlerFails
  BY <1>1, <1>15 DEF Emit, Receive, InsertEvent, ApplyStatus, HandlerFails, shopVars
<1>16. CASE UNCHANGED vars
  BY <1>1, <1>16 DEF vars, pastVars, workVars
<1> QED
  BY <1>2, <1>3, <1>4, <1>5, <1>7, <1>8, <1>9, <1>10, <1>11, <1>12, <1>13, <1>14, <1>15, <1>16
  DEF Next, Work, Handle

LEMMA InitGrounds == Init => Grounds
  BY DEF Init, Grounds, Willing, Fit

(* A mail leaves only where its worker saw, after the claim, that consent    *)
(* and policy allowed it and that the cart could be contacted.               *)
THEOREM MailsAreGrounded == Spec => MailHasGrounds
<1> DEFINE Grounded == \A s \in Send : mails'[s] > mails[s] => s \notin unwilling \cup unfit
<1>1. Typed /\ Grounds /\ [Next]_vars => [Grounded]_vars
  <2> SUFFICES ASSUME Typed, Grounds, Next, NEW s \in Send, mails'[s] > mails[s]
               PROVE  s \notin unwilling \cup unfit
    OBVIOUS
  <2>0. mails'[s] # mails[s]
    BY DEF Typed, RestTyped
  <2>1. PICK w \in Worker : SendMail(w) \/ Throws(w)
    BY <2>0
    DEF Next, Work, Handle, Enqueue, Available, Age, AgeUnderWorker, Quieten, Observe,
        SetPermission, StartPass, Crash, Promote, Sweep, List, Try, EndPass, CheckPolicy,
        CheckCart, CreateDiscount, RecordSent, Emit, Receive, InsertEvent, ApplyStatus,
        RevokeConsent, HandlerFails
  <2>2. pc[w] = "mailing" /\ mails' = [mails EXCEPT ![task[w].send] = @ + 1]
    BY <2>0, <2>1 DEF SendMail, Step, Throws
  <2>3. task[w].send = s
    BY <2>0, <2>2 DEF Typed, RestTyped
  <2> QED
    BY <2>2, <2>3 DEF Grounds, Willing, Fit
<1>2. Spec => []Typed
  BY InitTyped, StepTyped, PTL DEF Spec
<1>3. Spec => []Once
  BY <1>2, InitOnce, StepOnce, PTL DEF Spec
<1> QED
  BY <1>1, <1>2, <1>3, InitGrounds, StepGrounds, PTL DEF Spec, MailHasGrounds
=============================================================================
