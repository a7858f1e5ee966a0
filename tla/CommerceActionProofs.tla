------------------------ MODULE CommerceActionProofs ------------------------
(* What holds of product updates for any number of actions, requests,      *)
(* texts, retries, faults and edits.                                       *)
EXTENDS CommerceAction, TLAPS

----------------------------------------------------------------------------
(* Types. *)

LEMMA IdleFields ==
    /\ Idle.at = "idle" /\ Idle.action = None /\ Idle.from = "none" /\ Idle.to = "none"
    /\ Idle \notin ReqRecord
<1>1. Idle.at = "idle" /\ Idle.action = None /\ Idle.from = "none" /\ Idle.to = "none"
  BY DEF Idle
<1>2. \A q \in ReqRecord : q.action \in Action
  BY DEF ReqRecord
<1> QED
  BY <1>1, <1>2, NoneAssumption

LEMMA Fields ==
  ASSUME NEW r \in Request, TypeOK, req[r].at # "idle"
  PROVE  /\ req[r] \in ReqRecord
         /\ req[r].action \in Action /\ req[r].from \in Status /\ req[r].to \in Status
         /\ req[r].tries \in 0..MaxAttempts /\ req[r].applied \in BOOLEAN
<1>1. req[r] \in ReqRecord
  BY IdleFields DEF TypeOK
<1> QED
  BY <1>1 DEF ReqRecord

LEMMA MoveType ==
  ASSUME NEW r \in Request, TypeOK, NEW record \in ReqRecord \cup {Idle}, Move(r, record)
  PROVE  req' \in [Request -> ReqRecord \cup {Idle}]
  BY DEF TypeOK, Move

LEMMA FaultType == TypeOK /\ Fault => faults' \in 0..MaxFaults
  BY BoundAssumption DEF TypeOK, Fault

LEMMA BecomesType ==
  ASSUME TypeOK, NEW text \in Text, NEW by, Becomes(text, by)
  PROVE  product' \in Text /\ seen' \in [Action -> SUBSET Text] /\ disturbed' \subseteq Request
<1>1. \A a \in Action : (IF starts[a] > 0 THEN seen[a] \cup {text} ELSE {}) \in SUBSET Text
  BY DEF TypeOK
<1> QED
  BY <1>1 DEF TypeOK, Becomes, Active

LEMMA TransitionType ==
  ASSUME TypeOK, NEW a \in Action, NEW from, NEW to \in Status, Transition(a, from, to)
  PROVE  status' \in [Action -> Status] /\ stale' \subseteq Action
  BY DEF TypeOK, Transition, Claimed

----------------------------------------------------------------------------
(* The requests.  `from` and `to` are two ends of one edge of the status    *)
(* machine of commerceActionService.js, by the place the request has reached. *)

Forward == {"executing", "execution_uncertain"}
Backward == {"rolling_back", "rolled_back", "rollback_failed", "rollback_uncertain"}

Outcome(from) ==
    IF from = "executing" THEN {"executed", "failed", "execution_uncertain"}
    ELSE {"rolled_back", "rollback_failed", "rollback_uncertain"}

Found(from) ==
    IF from \in Forward THEN {"executed", "failed"} ELSE {"executed", "rolled_back"}

Edge(q) ==
    /\ q.at \in {"check", "claim"} =>
          \/ q.from = "awaiting_confirmation" /\ q.to = "executing"
          \/ q.from \in {"executed", "rollback_failed"} /\ q.to = "rolling_back"
    /\ q.at \in {"send", "settle"} => q.from \in InProgress
    /\ q.at = "send" => q.to = q.from
    /\ q.at = "settle" => q.to \in Outcome(q.from)
    /\ q.at \in {"look", "resolve"} => q.from \in InProgress \cup Uncertain
    /\ q.at = "resolve" => q.to \in Found(q.from)

\* A request is about an action that has been previewed.
Asked(q) == q.at # "idle" => q.action \in Action /\ status[q.action] # "none"

Requests == \A r \in Request : Edge(req[r]) /\ Asked(req[r])

\* The original text is recorded by the preview.
Previewed == \A a \in Action : status[a] # "none" => original[a] \in Text

Typed == TypeOK /\ Previewed /\ Requests

LEMMA TargetType ==
  ASSUME NEW r \in Request, Typed, req[r].at # "idle"
  PROVE  Target(r) \in Text
  BY Fields, DesiredAssumption DEF Typed, Previewed, Requests, Asked, Target

LEMMA IdleEdge == Edge(Idle) /\ Asked(Idle)
  BY IdleFields DEF Edge, Asked

LEMMA WritesStatus ==
  ASSUME NEW r \in Request, Typed, req[r].at \in {"claim", "settle", "resolve"}
  PROVE  req[r].to # "none"
  BY DEF Typed, Requests, Edge, Outcome, Found

LEMMA TransitionStatus ==
  ASSUME TypeOK, NEW a \in Action, NEW from, NEW to \in Status, Transition(a, from, to)
  PROVE  /\ status[a] = from => status'[a] = to
         /\ status[a] # from => status' = status
         /\ \A b \in Action : b # a => status'[b] = status[b]
  BY DEF TypeOK, Transition, Claimed

\* No action goes back to "none" or loses its original text.
Kept == \A a \in Action : status[a] # "none" => status'[a] # "none" /\ original'[a] = original[a]

\* A step that moves one request along.
Others(r) == \A q \in Request \ {r} : req'[q] = req[q]

LEMMA MoveOthers ==
  ASSUME NEW r \in Request, TypeOK, NEW record, Move(r, record)
  PROVE  req'[r] = record /\ Others(r)
  BY DEF TypeOK, Move, Others

LEMMA MoveRequests ==
  ASSUME NEW r \in Request, Typed, Others(r), Kept, Edge(req'[r]),
         req'[r].at # "idle" =>
            req'[r].action \in Action /\ status'[req'[r].action] # "none"
  PROVE  Requests'
<1>1. ASSUME NEW q \in Request
      PROVE  Edge(req'[q]) /\ (req'[q].at # "idle" =>
                req'[q].action \in Action /\ status'[req'[q].action] # "none")
  <2>1. CASE q # r
    <3>1. req'[q] = req[q]
      BY <2>1 DEF Others
    <3> QED
      BY <3>1 DEF Typed, Requests, Asked, Kept
  <2>2. CASE q = r
    BY <2>2
  <2> QED
    BY <2>1, <2>2
<1> QED
  BY <1>1 DEF Requests, Asked, Edge

LEMMA SameRequests == Typed /\ UNCHANGED req /\ Kept => Requests'
<1> SUFFICES ASSUME Typed, UNCHANGED req, Kept, NEW q \in Request
             PROVE  Edge(req'[q]) /\ Asked(req[q])'
  BY DEF Requests, Edge, Asked
<1>1. req'[q] = req[q]
  OBVIOUS
<1>2. Edge(req'[q])
  BY <1>1 DEF Typed, Requests
<1>3. Asked(req[q])'
  BY <1>1 DEF Typed, Requests, Asked, Kept
<1> QED
  BY <1>2, <1>3

LEMMA SameRow == UNCHANGED <<status, original>> => Kept
  BY DEF Kept

----------------------------------------------------------------------------
(* What each operation does to its request. *)

LEMMA BeginStep ==
  ASSUME NEW r \in Request, NEW a \in Action, Typed,
         NEW at \in {"check", "look"}, NEW to \in Status, Begin(r, a, at, to)
  PROVE  /\ Others(r)
         /\ req' \in [Request -> ReqRecord \cup {Idle}]
         /\ req'[r].at = at /\ req'[r].action = a
         /\ req'[r].from = status[a] /\ req'[r].to = to
<1> DEFINE Loose == [at : {"idle", "check", "look"}, action : Action \cup {None},
                     from : Status, to : Status, tries : 0..MaxAttempts, applied : BOOLEAN]
           one == [Idle EXCEPT !.at = at]
           two == [one EXCEPT !.action = a]
           three == [two EXCEPT !.from = status[a]]
           record == [three EXCEPT !.to = to]
<1>1. 0 \in 0..MaxAttempts /\ status[a] \in Status
  BY BoundAssumption DEF Typed, TypeOK
<1>2. Idle \in Loose
  BY <1>1 DEF Idle, Status
<1>3. one \in Loose /\ one.at = at
  BY <1>2
<1> HIDE DEF one
<1>4. two \in Loose /\ two.at = at /\ two.action = a
  BY <1>3
<1> HIDE DEF two
<1>5. three \in Loose /\ three.at = at /\ three.action = a /\ three.from = status[a]
  BY <1>1, <1>4
<1> HIDE DEF three
<1>6. /\ record \in ReqRecord /\ record.at = at /\ record.action = a
      /\ record.from = status[a] /\ record.to = to
  BY <1>1, <1>5 DEF ReqRecord
<1>7. Move(r, record)
  BY DEF Begin, three, two, one
<1> HIDE DEF record
<1> QED
  BY <1>6, <1>7, MoveOthers, MoveType DEF Typed

\* A request that stops is forgotten.
LEMMA StopStep ==
  ASSUME NEW r \in Request, Typed, Move(r, Idle)
  PROVE  Others(r) /\ req'[r] = Idle /\ req' \in [Request -> ReqRecord \cup {Idle}]
  BY MoveOthers, MoveType DEF Typed

LEMMA CheckStep ==
  ASSUME NEW r \in Request, Typed, CheckProduct(r)
  PROVE  /\ Others(r)
         /\ req' \in [Request -> ReqRecord \cup {Idle}]
         /\ \/ req'[r] = Idle
            \/ /\ AssertCurrent(r)
               /\ req'[r].at = "claim" /\ req'[r].action = req[r].action
               /\ req'[r].from = req[r].from /\ req'[r].to = req[r].to
<1>1. CASE AssertCurrent(r)
  <2> DEFINE record == [req[r] EXCEPT !.at = "claim"]
  <2>1. record \in ReqRecord
    BY Fields DEF CheckProduct, Typed, ReqRecord
  <2>2. Move(r, record)
    BY <1>1 DEF CheckProduct
  <2>3. req'[r] = record /\ Others(r) /\ req' \in [Request -> ReqRecord \cup {Idle}]
    BY <2>1, <2>2, MoveOthers, MoveType DEF Typed
  <2>4. /\ record.at = "claim" /\ record.action = req[r].action
        /\ record.from = req[r].from /\ record.to = req[r].to
    BY Fields DEF CheckProduct, Typed, ReqRecord
  <2> QED
    BY <1>1, <2>3, <2>4
<1>2. CASE ~AssertCurrent(r)
  BY <1>2, StopStep DEF CheckProduct
<1> QED
  BY <1>1, <1>2

LEMMA ClaimStep ==
  ASSUME NEW r \in Request, Typed, ClaimAction(r), Claimed(req[r].action, req[r].from)
  PROVE  /\ Others(r)
         /\ req' \in [Request -> ReqRecord \cup {Idle}]
         /\ req'[r].at = "send" /\ req'[r].action = req[r].action
         /\ req'[r].from = req[r].to /\ req'[r].to = req[r].to
<1> DEFINE record == [req[r] EXCEPT !.at = "send", !.from = req[r].to]
<1>1. record \in ReqRecord
  BY Fields DEF ClaimAction, Typed, ReqRecord
<1>2. Move(r, record)
  BY DEF ClaimAction
<1>3. req'[r] = record /\ Others(r) /\ req' \in [Request -> ReqRecord \cup {Idle}]
  BY <1>1, <1>2, MoveOthers, MoveType DEF Typed
<1>4. /\ record.at = "send" /\ record.action = req[r].action
      /\ record.from = req[r].to /\ record.to = req[r].to
  BY Fields DEF ClaimAction, Typed, ReqRecord
<1> QED
  BY <1>3, <1>4

LEMMA SendStep ==
  ASSUME NEW r \in Request, Typed, Send(r)
  PROVE  /\ Others(r)
         /\ req' \in [Request -> ReqRecord \cup {Idle}]
         /\ req'[r].action = req[r].action /\ req'[r].from = req[r].from
         /\ \/ req'[r].at = "send" /\ req'[r].to = req[r].to
            \/ /\ req'[r].at = "settle"
               /\ \/ req'[r].to \in {Refused(r), Unclear(r)}
                  \/ req'[r].to = Done(r) /\ Becomes(Target(r), {r})

<1>0. req[r].at = "send"
  BY DEF Send, Answered, Rejected, Lost
<1>1. /\ req[r] \in ReqRecord
      /\ \A to \in Status : [req[r] EXCEPT !.at = "settle", !.to = to] \in ReqRecord
      /\ \A to \in Status :
            [req[r] EXCEPT !.at = "settle", !.to = to, !.applied = TRUE] \in ReqRecord
  BY <1>0, Fields DEF Typed, ReqRecord
<1>2. /\ Done(r) \in Status /\ Refused(r) \in Status /\ Unclear(r) \in Status
  BY DEF Done, Refused, Unclear, Status
<1>3. ASSUME Answered(r)
      PROVE  /\ Others(r)
             /\ req' \in [Request -> ReqRecord \cup {Idle}]
             /\ req'[r].action = req[r].action /\ req'[r].from = req[r].from
             /\ req'[r].at = "settle" /\ req'[r].to = Done(r)
  <2> DEFINE record == [req[r] EXCEPT !.at = "settle", !.to = Done(r), !.applied = TRUE]
  <2>1. record \in ReqRecord
    BY <1>1, <1>2
  <2>2. Move(r, record)
    BY <1>3 DEF Answered
  <2>3. /\ record.action = req[r].action /\ record.from = req[r].from
        /\ record.at = "settle" /\ record.to = Done(r)
    BY <1>1 DEF ReqRecord
  <2> QED
    BY <2>1, <2>2, <2>3, MoveOthers, MoveType DEF Typed
<1>4. ASSUME Rejected(r)
      PROVE  /\ Others(r)
             /\ req' \in [Request -> ReqRecord \cup {Idle}]
             /\ req'[r].action = req[r].action /\ req'[r].from = req[r].from
             /\ req'[r].at = "settle" /\ req'[r].to = Refused(r)
  <2> DEFINE record == [req[r] EXCEPT !.at = "settle", !.to = Refused(r)]
  <2>1. record \in ReqRecord
    BY <1>1, <1>2
  <2>2. Move(r, record)
    BY <1>4 DEF Rejected
  <2>3. /\ record.action = req[r].action /\ record.from = req[r].from
        /\ record.at = "settle" /\ record.to = Refused(r)
    BY <1>1 DEF ReqRecord
  <2> QED
    BY <2>1, <2>2, <2>3, MoveOthers, MoveType DEF Typed
<1>5. ASSUME Lost(r)
      PROVE  /\ Others(r)
             /\ req' \in [Request -> ReqRecord \cup {Idle}]
             /\ req'[r].action = req[r].action /\ req'[r].from = req[r].from
             /\ \/ req'[r].at = "send" /\ req'[r].to = req[r].to
                \/ req'[r].at = "settle" /\ req'[r].to = Unclear(r)
  <2>1. PICK done \in BOOLEAN :
          LET after == [req[r] EXCEPT !.applied = done] IN
          \/ /\ req[r].tries + 1 < MaxAttempts
             /\ Move(r, [after EXCEPT !.tries = @ + 1])
          \/ Move(r, [after EXCEPT !.at = "settle", !.to = Unclear(r)])
    <3>1. PICK reached \in {"applied", "nothing", "flying"} :
            LET after == [req[r] EXCEPT !.applied = @ \/ reached = "applied"] IN
            \/ /\ req[r].tries + 1 < MaxAttempts
               /\ Move(r, [after EXCEPT !.tries = @ + 1])
            \/ Move(r, [after EXCEPT !.at = "settle", !.to = Unclear(r)])
      BY <1>5 DEF Lost
    <3>2. WITNESS (req[r].applied \/ reached = "applied") \in BOOLEAN
    <3> QED
      BY <3>1
  <2> DEFINE after == [req[r] EXCEPT !.applied = done]
  <2>2. /\ after \in ReqRecord /\ after.action = req[r].action /\ after.from = req[r].from
        /\ after.at = "send" /\ after.to = req[r].to /\ after.tries = req[r].tries
    BY <1>0, <1>1 DEF ReqRecord
  <2> HIDE DEF after
  <2>3. CASE req[r].tries + 1 < MaxAttempts /\ Move(r, [after EXCEPT !.tries = @ + 1])
    <3> DEFINE record == [after EXCEPT !.tries = after.tries + 1]
    <3>1. after.tries + 1 \in 0..MaxAttempts
      BY <2>2, <2>3, BoundAssumption DEF ReqRecord
    <3>2. /\ record \in ReqRecord /\ record.action = after.action /\ record.from = after.from
          /\ record.at = after.at /\ record.to = after.to
      BY <2>2, <3>1 DEF ReqRecord
    <3>3. Move(r, record)
      BY <2>3
    <3> QED
      BY <2>2, <3>2, <3>3, MoveOthers, MoveType DEF Typed
  <2>4. CASE Move(r, [after EXCEPT !.at = "settle", !.to = Unclear(r)])
    <3> DEFINE record == [after EXCEPT !.at = "settle", !.to = Unclear(r)]
    <3>1. /\ record \in ReqRecord /\ record.action = after.action /\ record.from = after.from
          /\ record.at = "settle" /\ record.to = Unclear(r)
      BY <1>2, <2>2 DEF ReqRecord
    <3> QED
      BY <2>2, <2>4, <3>1, MoveOthers, MoveType DEF Typed
  <2> QED
    BY <2>1, <2>3, <2>4 DEF after
<1> QED
  BY <1>3, <1>4, <1>5 DEF Send, Answered

----------------------------------------------------------------------------
(* Types are kept. *)

LEMMA PreviewedStep ==
  ASSUME Typed, Kept,
         \A a \in Action : status[a] = "none" /\ status'[a] # "none" => original'[a] \in Text
  PROVE  Previewed'
  BY DEF Typed, Previewed, Kept

LEMMA TransitionKept ==
  ASSUME Typed, NEW a \in Action, NEW from, NEW to \in Status, Transition(a, from, to),
         to # "none", UNCHANGED original
  PROVE  /\ Kept
         /\ \A b \in Action :
               status'[b] # "none" => status[b] # "none" \/ (b = a /\ from = "none")
  BY TransitionStatus DEF Typed, TypeOK, Kept

\* A step that leaves the rows alone.
LEMMA RowsSame ==
  ASSUME Typed, UNCHANGED rowVars
  PROVE  Kept /\ Previewed' /\ \A a \in Action : status'[a] = status[a]
  BY DEF rowVars, Typed, Previewed, Kept

\* A step by which a request writes its status and goes on to `send` or stops.
LEMMA TransitionTyped ==
  ASSUME NEW r \in Request, Typed, req[r].at \in {"claim", "settle", "resolve"},
         Transition(req[r].action, req[r].from, req[r].to), UNCHANGED original
  PROVE  /\ status' \in [Action -> Status] /\ stale' \subseteq Action
         /\ Kept /\ Previewed'
<1>1. /\ req[r].action \in Action /\ req[r].from \in Status /\ req[r].to \in Status
      /\ req[r].to # "none" /\ status[req[r].action] # "none"
  BY Fields, WritesStatus DEF Typed, Requests, Asked
<1>2. status' \in [Action -> Status] /\ stale' \subseteq Action
  BY <1>1, TransitionType DEF Typed
<1>3. Kept
  BY <1>1, TransitionKept
<1>4. \A b \in Action : status'[b] # "none" => status[b] # "none"
  BY <1>1, TransitionStatus DEF Typed
<1> QED
  BY <1>2, <1>3, <1>4, PreviewedStep

LEMMA PreviewTyped == ASSUME NEW a \in Action, Typed, Preview(a) PROVE Typed'
<1>1. TypeOK'
  BY DEF Preview, Typed, TypeOK, Status, shopVars
<1>2. Kept
  BY DEF Preview, Typed, TypeOK, Kept
<1>3. Previewed'
  BY DEF Preview, Typed, TypeOK, Previewed
<1>4. Requests'
  BY <1>2, SameRequests DEF Preview
<1> QED
  BY <1>1, <1>3, <1>4 DEF Typed

LEMMA ClockTyped == ASSUME NEW a \in Action, Typed, Expire(a) \/ GrowStale(a) PROVE Typed'
<1>0. UNCHANGED <<status, original, req, product, flying, edits, undoing, seen, disturbed,
                  starts>>
  BY DEF Expire, GrowStale, shopVars
<1>1. faults' \in 0..MaxFaults
  BY FaultType DEF Typed, TypeOK, Expire, GrowStale
<1>2. expired' \subseteq Action /\ stale' \subseteq Action
  BY DEF Expire, GrowStale, Typed, TypeOK
<1>3. TypeOK'
  BY <1>0, <1>1, <1>2 DEF Typed, TypeOK
<1>4. Kept /\ Previewed'
  BY <1>0 DEF Typed, Previewed, Kept
<1> QED
  BY <1>0, <1>3, <1>4, SameRequests DEF Typed

LEMMA BeginTyped ==
  ASSUME NEW r \in Request, NEW a \in Action, Typed,
         ConfirmAction(r, a) \/ RollbackAction(r, a) \/ ReconcileAction(r, a)
  PROVE  Typed'
<1>1. PICK at \in {"check", "look"}, to \in Status : Begin(r, a, at, to)
  BY DEF ConfirmAction, RollbackAction, ReconcileAction, Status
<1>2. req' \in [Request -> ReqRecord \cup {Idle}]
  BY <1>1, BeginStep
<1>3. UNCHANGED rowVars /\ UNCHANGED <<product, flying, edits, undoing, seen, faults, starts>>
      /\ disturbed' \subseteq disturbed
  BY <1>1 DEF Begin
<1>4. TypeOK'
  BY <1>2, <1>3 DEF Typed, TypeOK, rowVars
<1>5. Kept /\ Previewed' /\ \A b \in Action : status'[b] = status[b]
  BY <1>3, RowsSame
<1>6. /\ Others(r) /\ req'[r].action = a /\ req'[r].from = status[a]
      /\ \/ /\ req'[r].at = "check" /\ status[a] = "awaiting_confirmation"
            /\ req'[r].to = "executing"
         \/ /\ req'[r].at = "check" /\ status[a] \in {"executed", "rollback_failed"}
            /\ req'[r].to = "rolling_back"
         \/ req'[r].at = "look" /\ status[a] \in InProgress \cup Uncertain
  <2>1. CASE ConfirmAction(r, a)
    BY <2>1, BeginStep DEF ConfirmAction, Status
  <2>2. CASE RollbackAction(r, a)
    BY <2>2, BeginStep DEF RollbackAction, Status
  <2>3. CASE ReconcileAction(r, a)
    BY <2>3, BeginStep DEF ReconcileAction, Reconcilable, Status
  <2> QED
    BY <2>1, <2>2, <2>3
<1>7. Edge(req'[r]) /\ status'[a] # "none"
  BY <1>5, <1>6 DEF Edge, InProgress, Uncertain
<1>8. Requests'
  BY <1>5, <1>6, <1>7, MoveRequests
<1> QED
  BY <1>4, <1>5, <1>8 DEF Typed

\* A step by which a request stops.
LEMMA StopRequests ==
  ASSUME NEW r \in Request, Typed, Move(r, Idle), Kept
  PROVE  Requests' /\ req' \in [Request -> ReqRecord \cup {Idle}]
<1>1. Others(r) /\ req'[r] = Idle /\ req' \in [Request -> ReqRecord \cup {Idle}]
  BY StopStep
<1> QED
  BY <1>1, IdleEdge, IdleFields, MoveRequests

LEMMA CheckTyped == ASSUME NEW r \in Request, Typed, CheckProduct(r) PROVE Typed'
<1>0. UNCHANGED <<rowVars, shopVars, faults, starts>>
  BY DEF CheckProduct
<1>1. Kept /\ Previewed' /\ \A b \in Action : status'[b] = status[b]
  BY <1>0, RowsSame
<1>2. req' \in [Request -> ReqRecord \cup {Idle}] /\ Others(r)
  BY CheckStep
<1>3. TypeOK'
  BY <1>0, <1>2 DEF Typed, TypeOK, rowVars, shopVars
<1>4. CASE req'[r] = Idle
  BY <1>1, <1>2, <1>3, <1>4, IdleEdge, IdleFields, MoveRequests DEF Typed
<1>5. CASE req'[r] # Idle
  <2>1. /\ req'[r].at = "claim" /\ req'[r].action = req[r].action
        /\ req'[r].from = req[r].from /\ req'[r].to = req[r].to
    BY <1>5, CheckStep
  <2>2. Edge(req[r]) /\ Asked(req[r]) /\ req[r].at = "check"
    BY DEF Typed, Requests, CheckProduct
  <2>3. Edge(req'[r])
    BY <2>1, <2>2 DEF Edge
  <2>4. Requests'
    BY <1>1, <1>2, <2>1, <2>2, <2>3, MoveRequests DEF Asked
  <2> QED
    BY <1>1, <1>3, <2>4 DEF Typed
<1> QED
  BY <1>4, <1>5

LEMMA ClaimTyped == ASSUME NEW r \in Request, Typed, ClaimAction(r) PROVE Typed'
<1> DEFINE a == req[r].action
<1>1. /\ status' \in [Action -> Status] /\ stale' \subseteq Action
      /\ Kept /\ Previewed'
  BY TransitionTyped DEF ClaimAction
<1>2. a \in Action /\ req[r].at = "claim" /\ status[a] # "none" /\ Edge(req[r])
  BY Fields DEF ClaimAction, Typed, Requests, Asked
<1>3. CASE Claimed(a, req[r].from)
  <2>1. /\ Others(r) /\ req' \in [Request -> ReqRecord \cup {Idle}]
        /\ req'[r].at = "send" /\ req'[r].action = a
        /\ req'[r].from = req[r].to /\ req'[r].to = req[r].to
    BY <1>3, ClaimStep
  <2>2. starts' \in [Action -> Nat]
    BY <1>3 DEF ClaimAction, Typed, TypeOK
  <2>3. undoing' \subseteq Action
    BY <1>2, <1>3 DEF ClaimAction, Typed, TypeOK
  <2>4. seen' \in [Action -> SUBSET Text]
    BY <1>3 DEF ClaimAction, Typed, TypeOK
  <2>5. TypeOK'
    BY <1>1, <2>1, <2>2, <2>3, <2>4 DEF ClaimAction, Typed, TypeOK
  <2>6. Edge(req'[r])
    BY <1>2, <2>1 DEF Edge, InProgress
  <2>7. status'[a] # "none"
    BY <1>1, <1>2 DEF Kept
  <2>8. Requests'
    BY <1>1, <1>2, <2>1, <2>6, <2>7, MoveRequests
  <2> QED
    BY <1>1, <2>5, <2>8 DEF Typed
<1>4. CASE ~Claimed(a, req[r].from)
  <2>1. Move(r, Idle) /\ UNCHANGED <<starts, undoing, seen>>
    BY <1>4 DEF ClaimAction
  <2>2. Requests' /\ req' \in [Request -> ReqRecord \cup {Idle}]
    BY <1>1, <2>1, StopRequests
  <2> QED
    BY <1>1, <2>1, <2>2 DEF ClaimAction, Typed, TypeOK
<1> QED
  BY <1>3, <1>4

LEMMA SendTyped == ASSUME NEW r \in Request, Typed, Send(r) PROVE Typed'
<1>0. UNCHANGED <<rowVars, edits, starts, undoing>> /\ req[r].at = "send"
  BY DEF Send, Answered, Rejected, Lost, shopVars
<1>1. Kept /\ Previewed' /\ \A b \in Action : status'[b] = status[b]
  BY <1>0, RowsSame
<1>2. Target(r) \in Text
  BY <1>0, TargetType
<1>3. product' \in Text /\ seen' \in [Action -> SUBSET Text] /\ disturbed' \subseteq Request
  <2>1. Becomes(Target(r), {r}) \/ UNCHANGED <<product, seen, disturbed>>
    BY DEF Send, Answered, Rejected, Lost, shopVars
  <2> QED
    BY <1>2, <2>1, BecomesType DEF Typed, TypeOK
<1>4. flying' \subseteq Text
  BY <1>2 DEF Send, Answered, Rejected, Lost, shopVars, Typed, TypeOK
<1>5. faults' \in 0..MaxFaults
  BY FaultType DEF Send, Answered, Rejected, Lost, Typed, TypeOK
<1>6. /\ Others(r) /\ req' \in [Request -> ReqRecord \cup {Idle}]
      /\ req'[r].action = req[r].action /\ req'[r].from = req[r].from
      /\ \/ req'[r].at = "send" /\ req'[r].to = req[r].to
         \/ req'[r].at = "settle" /\ req'[r].to \in {Done(r), Refused(r), Unclear(r)}
  BY SendStep
<1>7. TypeOK'
  BY <1>0, <1>3, <1>4, <1>5, <1>6 DEF Typed, TypeOK, rowVars
<1>8. /\ Edge(req[r]) /\ req[r].action \in Action /\ status[req[r].action] # "none"
      /\ req[r].from \in InProgress /\ req[r].to = req[r].from
  BY <1>0 DEF Typed, Requests, Asked, Edge
<1>9. {Done(r), Refused(r), Unclear(r)} \subseteq Outcome(req[r].from)
  BY <1>8 DEF Done, Refused, Unclear, Executing, Outcome, InProgress
<1>10. Edge(req'[r])
  BY <1>6, <1>8, <1>9 DEF Edge
<1>11. Requests'
  BY <1>1, <1>6, <1>8, <1>10, MoveRequests
<1> QED
  BY <1>1, <1>7, <1>11 DEF Typed

LEMMA WriteTyped == ASSUME NEW r \in Request, Typed, Settle(r) \/ Resolve(r) PROVE Typed'
<1>1. /\ status' \in [Action -> Status] /\ stale' \subseteq Action
      /\ Kept /\ Previewed'
  BY TransitionTyped DEF Settle, Resolve
<1>2. Requests' /\ req' \in [Request -> ReqRecord \cup {Idle}]
  BY <1>1, StopRequests DEF Settle, Resolve
<1> QED
  BY <1>1, <1>2 DEF Settle, Resolve, shopVars, Typed, TypeOK

LEMMA LookStep ==
  ASSUME NEW r \in Request, Typed, LookAtProduct(r)
  PROVE  /\ Others(r)
         /\ req' \in [Request -> ReqRecord \cup {Idle}]
         /\ \/ req'[r] = Idle
            \/ /\ req'[r].at = "resolve" /\ req'[r].action = req[r].action
               /\ req'[r].from = req[r].from
               /\ req'[r].to \in Verdict(req[r].action, req[r].from)
<1> DEFINE verdict == Verdict(req[r].action, req[r].from)
<1>1. CASE verdict = {}
  BY <1>1, StopStep DEF LookAtProduct
<1>2. CASE verdict # {}
  <2>1. PICK to \in verdict : Move(r, [req[r] EXCEPT !.at = "resolve", !.to = to])
    BY <1>2 DEF LookAtProduct
  <2> DEFINE record == [req[r] EXCEPT !.at = "resolve", !.to = to]
  <2>2. to \in Status
    BY DEF Verdict, Status
  <2>3. /\ record \in ReqRecord /\ record.at = "resolve" /\ record.action = req[r].action
        /\ record.from = req[r].from /\ record.to = to
    BY <2>2, Fields DEF LookAtProduct, Typed, ReqRecord
  <2> QED
    BY <2>1, <2>3, MoveOthers, MoveType DEF Typed
<1> QED
  BY <1>1, <1>2

LEMMA LookTyped == ASSUME NEW r \in Request, Typed, LookAtProduct(r) PROVE Typed'
<1>0. UNCHANGED <<rowVars, shopVars, faults, starts>> /\ req[r].at = "look"
  BY DEF LookAtProduct
<1>1. Kept /\ Previewed' /\ \A b \in Action : status'[b] = status[b]
  BY <1>0, RowsSame
<1>2. req' \in [Request -> ReqRecord \cup {Idle}] /\ Others(r)
  BY LookStep
<1>3. TypeOK'
  BY <1>0, <1>2 DEF Typed, TypeOK, rowVars, shopVars
<1>4. CASE req'[r] = Idle
  BY <1>1, <1>2, <1>3, <1>4, IdleEdge, IdleFields, MoveRequests DEF Typed
<1>5. CASE req'[r] # Idle
  <2>1. /\ req'[r].at = "resolve" /\ req'[r].action = req[r].action
        /\ req'[r].from = req[r].from
        /\ req'[r].to \in Verdict(req[r].action, req[r].from)
    BY <1>5, LookStep
  <2>2. Edge(req[r]) /\ Asked(req[r])
    BY DEF Typed, Requests
  <2>3. req[r].from \in InProgress \cup Uncertain
    BY <1>0, <2>2 DEF Edge
  <2>4. req'[r].to \in Found(req[r].from)
    BY <2>1, <2>3 DEF Verdict, Found, Forward, InProgress, Uncertain
  <2>5. Edge(req'[r])
    BY <2>1, <2>3, <2>4 DEF Edge
  <2>6. Requests'
    BY <1>0, <1>1, <1>2, <2>1, <2>2, <2>5, MoveRequests DEF Asked
  <2> QED
    BY <1>1, <1>3, <2>6 DEF Typed
<1> QED
  BY <1>4, <1>5

LEMMA CrashTyped == ASSUME NEW r \in Request, Typed, Crash(r) PROVE Typed'
<1>0. UNCHANGED <<rowVars, shopVars, starts>> /\ Move(r, Idle)
  BY DEF Crash
<1>1. Kept /\ Previewed'
  BY <1>0, RowsSame
<1>2. Requests' /\ req' \in [Request -> ReqRecord \cup {Idle}]
  BY <1>0, <1>1, StopRequests
<1>3. faults' \in 0..MaxFaults
  BY FaultType DEF Crash, Typed
<1> QED
  BY <1>0, <1>1, <1>2, <1>3 DEF Typed, TypeOK, rowVars, shopVars

LEMMA ShopTyped == ASSUME NEW text \in Text, Typed, Land(text) \/ Edit(text) PROVE Typed'
<1>0. UNCHANGED <<rowVars, req, faults, starts, undoing>>
  BY DEF Land, Edit
<1>1. Kept /\ Previewed'
  BY <1>0, RowsSame
<1>2. Requests'
  BY <1>0, <1>1, SameRequests
<1>3. product' \in Text /\ seen' \in [Action -> SUBSET Text] /\ disturbed' \subseteq Request
  BY BecomesType DEF Land, Edit, Typed, TypeOK
<1>4. flying' \subseteq Text
  BY DEF Land, Edit, Typed, TypeOK
<1>5. edits' \in 0..MaxEdits
  BY BoundAssumption DEF Land, Edit, Typed, TypeOK
<1> QED
  BY <1>0, <1>1, <1>2, <1>3, <1>4, <1>5 DEF Typed, TypeOK, rowVars

LEMMA SameTyped == Typed /\ UNCHANGED vars => Typed'
<1> SUFFICES ASSUME Typed, UNCHANGED vars PROVE Typed'
  OBVIOUS
<1>1. Kept /\ Previewed'
  BY RowsSame DEF vars, rowVars
<1>2. Requests'
  BY <1>1, SameRequests DEF vars
<1> QED
  BY <1>1, <1>2 DEF vars, Typed, TypeOK

LEMMA StepTyped == Typed /\ [Next]_vars => Typed'
<1> SUFFICES ASSUME Typed, [Next]_vars PROVE Typed'
  OBVIOUS
<1>1. CASE UNCHANGED vars
  BY <1>1, SameTyped
<1>2. CASE \E a \in Action : Preview(a) \/ Expire(a) \/ GrowStale(a)
  BY <1>2, PreviewTyped, ClockTyped
<1>3. CASE \E r \in Request, a \in Action :
              ConfirmAction(r, a) \/ RollbackAction(r, a) \/ ReconcileAction(r, a)
  BY <1>3, BeginTyped
<1>4. CASE \E r \in Request : Serve(r) \/ Crash(r)
  BY <1>4, CheckTyped, ClaimTyped, SendTyped, WriteTyped, LookTyped, CrashTyped DEF Serve
<1>5. CASE \E text \in Text : Land(text) \/ Edit(text)
  BY <1>5, ShopTyped
<1> QED
  BY <1>1, <1>2, <1>3, <1>4, <1>5 DEF Next

LEMMA InitTyped == Init => Typed
<1> SUFFICES ASSUME Init PROVE Typed
  OBVIOUS
<1>1. "none" \in Status
  BY DEF Status
<1>2. TypeOK
  BY <1>1, BoundAssumption DEF Init, TypeOK
<1>3. Previewed
  BY DEF Init, Previewed
<1>4. Requests
  BY IdleEdge DEF Init, Requests
<1> QED
  BY <1>2, <1>3, <1>4 DEF Typed

(* Every variable keeps its type: a status is one of the ten labels, and a  *)
(* row that has one has kept the text its preview found.                    *)
THEOREM TypeCorrect == Spec => []TypeOK
<1>1. Typed => TypeOK
  BY DEF Typed
<1> QED
  BY <1>1, InitTyped, StepTyped, PTL DEF Spec

----------------------------------------------------------------------------
(* The inductive invariant.  A status is told by whoever writes it, long     *)
(* after what it tells of happened; so the invariant follows the evidence    *)
(* from the step that saw it to the request that carries it to the row.      *)

\* Rows: where a status stands on the way there and back, and what it tells.
Row(a) ==
    /\ starts[a] <= 1
    /\ starts[a] = 0 <=> status[a] \in {"none", "awaiting_confirmation"}
    /\ status[a] \in Backward => a \in undoing
    /\ a \in undoing => status[a] \in Backward \cup {"executed"}
    /\ starts[a] > 0 => product \in seen[a]
    /\ status[a] = "executed" => desired[a] \in seen[a]
    /\ status[a] = "rolled_back" => original[a] \in seen[a]

\* Requests: what a request is about to tell has been seen, or is of an
\* execution whose rollback has begun, when its update can no longer match.
Told(q) ==
    /\ q.at # "idle" /\ q.from # "awaiting_confirmation" => starts[q.action] > 0
    /\ q.at # "idle" /\ q.from \in Backward => q.action \in undoing
    /\ q.at \in {"settle", "resolve"} /\ q.to = "executed" =>
          \/ desired[q.action] \in seen[q.action]
          \/ q.from \in Forward /\ q.action \in undoing
    /\ q.at \in {"settle", "resolve"} /\ q.to = "rolled_back" =>
          q.action \in undoing /\ original[q.action] \in seen[q.action]

\* What a request checked is still so, unless somebody came between.
Steady(r) ==
    req[r].at \in {"claim", "send"} /\ r \notin disturbed
        => product \in {desired[req[r].action], original[req[r].action]}

IInv ==
    /\ Typed
    /\ \A a \in Action : Row(a)
    /\ \A r \in Request : Told(req[r]) /\ Steady(r)

\* Evidence is kept: only the first rollback starts a row's record anew.
Grows ==
    \A a \in Action :
        /\ starts[a] > 0 => starts'[a] > 0
        /\ a \in undoing => a \in undoing' /\ seen[a] \subseteq seen'[a]
        /\ starts[a] > 0 => seen[a] \subseteq seen'[a] \/ a \in undoing'

LEMMA ToldFrame ==
  ASSUME IInv, Grows, Kept, NEW q \in Request, req'[q] = req[q]
  PROVE  Told(req[q])'
<1> DEFINE a == req[q].action
<1>1. CASE req[q].at = "idle"
  BY <1>1 DEF Told
<1>2. CASE req[q].at # "idle"
  <2>1. /\ a \in Action /\ status[a] # "none" /\ Edge(req[q]) /\ Told(req[q])
    BY <1>2, Fields DEF IInv, Typed, Requests, Asked
  <2>2. original'[a] = original[a]
    BY <2>1 DEF Kept
  <2>3. req[q].from # "awaiting_confirmation" => starts'[a] > 0
    BY <1>2, <2>1 DEF Told, Grows
  <2>4. req[q].from \in Backward => a \in undoing'
    BY <1>2, <2>1 DEF Told, Grows
  <2>5. ASSUME req[q].at \in {"settle", "resolve"}, req[q].to = "executed"
        PROVE  desired[a] \in seen'[a] \/ (req[q].from \in Forward /\ a \in undoing')
    <3>1. req[q].from \in InProgress \cup Uncertain
      BY <2>1, <2>5 DEF Edge
    <3>2. starts[a] > 0
      BY <1>2, <2>1, <3>1 DEF Told, InProgress, Uncertain
    <3>3. CASE req[q].from \in Backward
      BY <1>2, <2>1, <2>5, <3>3 DEF Told, Grows, Forward, Backward
    <3>4. CASE req[q].from \in Forward
      BY <1>2, <2>1, <2>5, <3>2, <3>4 DEF Told, Grows
    <3> QED
      BY <3>1, <3>3, <3>4 DEF InProgress, Uncertain, Forward, Backward
  <2>6. ASSUME req[q].at \in {"settle", "resolve"}, req[q].to = "rolled_back"
        PROVE  a \in undoing' /\ original'[a] \in seen'[a]
    BY <2>1, <2>2, <2>6 DEF Told, Grows
  <2> QED
    BY <2>3, <2>4, <2>5, <2>6 DEF Told
<1> QED
  BY <1>1, <1>2

\* A step that moves one request, or none.
LEMMA ToldStep ==
  ASSUME IInv, Grows, Kept, NEW r \in Request, Others(r), Told(req[r])'
  PROVE  \A q \in Request : Told(req[q])'
<1> SUFFICES ASSUME NEW q \in Request PROVE Told(req[q])'
  OBVIOUS
<1>1. CASE q = r
  BY <1>1
<1>2. CASE q # r
  <2>1. req'[q] = req[q]
    BY <1>2 DEF Others
  <2> QED
    BY <2>1, ToldFrame
<1> QED
  BY <1>1, <1>2

LEMMA ToldIdle ==
  ASSUME NEW r \in Request, req'[r] = Idle
  PROVE  Told(req[r])' /\ Steady(r)'
  BY IdleFields DEF Told, Steady

\* A request that another step leaves alone.
LEMMA SteadyFrame ==
  ASSUME IInv, Kept, NEW q \in Request, req'[q] = req[q],
         q \in disturbed => q \in disturbed',
         product' # product /\ q \in Active => q \in disturbed'
  PROVE  Steady(q)'
<1> SUFFICES ASSUME req[q].at \in {"claim", "send"}, q \notin disturbed'
             PROVE  product' \in {desired[req[q].action], original'[req[q].action]}
  BY DEF Steady
<1>1. q \in Active
  BY IdleFields DEF Active
<1>2. product' = product /\ product \in {desired[req[q].action], original[req[q].action]}
  BY <1>1 DEF IInv, Steady
<1>3. req[q].action \in Action /\ status[req[q].action] # "none"
  BY DEF IInv, Typed, Requests, Asked
<1> QED
  BY <1>2, <1>3 DEF Kept

LEMMA SteadySame ==
  ASSUME IInv, Kept, NEW r \in Request, Others(r), Steady(r)',
         product' = product, disturbed \ {r} \subseteq disturbed'
  PROVE  \A q \in Request : Steady(q)'
<1> SUFFICES ASSUME NEW q \in Request PROVE Steady(q)'
  OBVIOUS
<1>1. CASE q = r
  BY <1>1
<1>2. CASE q # r
  <2>1. req'[q] = req[q] /\ (q \in disturbed => q \in disturbed')
    BY <1>2 DEF Others
  <2> QED
    BY <2>1, SteadyFrame
<1> QED
  BY <1>1, <1>2

LEMMA RowSame ==
  ASSUME IInv, UNCHANGED <<status, original, product, starts, undoing, seen>>
  PROVE  \A a \in Action : Row(a)'
  BY DEF IInv, Row

LEMMA GrowsSame == UNCHANGED <<starts, undoing, seen>> => Grows
  BY DEF Grows

\* The product changes: every row that records it records the new text too.
LEMMA BecomesGrows ==
  ASSUME IInv, NEW text \in Text, NEW by, Becomes(text, by), UNCHANGED <<starts, undoing>>
  PROVE  /\ Grows
         /\ \A a \in Action : starts[a] > 0 => text \in seen'[a] /\ seen[a] \subseteq seen'[a]
<1>1. \A a \in Action : starts[a] > 0 => seen'[a] = seen[a] \cup {text}
  BY DEF Becomes, IInv, Typed, TypeOK
<1>2. \A a \in Action : a \in undoing => starts[a] > 0
  <2>1. ASSUME NEW a \in Action, a \in undoing PROVE starts[a] > 0
    <3>1. status[a] \notin {"none", "awaiting_confirmation"}
      BY <2>1 DEF IInv, Row, Backward
    <3>2. starts[a] \in Nat /\ starts[a] # 0
      BY <3>1 DEF IInv, Row, Typed, TypeOK
    <3> QED
      BY <3>2
  <2> QED
    BY <2>1
<1> QED
  BY <1>1, <1>2 DEF Grows

LEMMA BecomesRow ==
  ASSUME IInv, NEW text \in Text, NEW by, Becomes(text, by),
         UNCHANGED <<status, original, starts, undoing>>
  PROVE  \A a \in Action : Row(a)'
<1> SUFFICES ASSUME NEW a \in Action PROVE Row(a)'
  OBVIOUS
<1>1. Row(a) /\ starts[a] \in Nat
  BY DEF IInv, Typed, TypeOK
<1>2. starts[a] > 0 => text \in seen'[a] /\ seen[a] \subseteq seen'[a]
  BY BecomesGrows
<1>3. product' = text
  BY DEF Becomes
<1>4. status[a] \in {"executed", "rolled_back"} => starts[a] > 0
  BY <1>1 DEF Row
<1> QED
  BY <1>1, <1>2, <1>3, <1>4 DEF Row

----------------------------------------------------------------------------
(* Each operation keeps the invariant. *)

Rows == \A a \in Action : Row(a)
Tellings == \A r \in Request : Told(req[r]) /\ Steady(r)

LEMMA Together ==
  ASSUME Typed', Rows', \A r \in Request : Told(req[r])', \A r \in Request : Steady(r)'
  PROVE  IInv'
  BY DEF IInv, Rows

\* Steps that only move a request: what it is about to write must be told.
LEMMA MoveStep ==
  ASSUME IInv, NEW r \in Request, Others(r), Typed',
         UNCHANGED <<status, original, product, starts, undoing, seen>>,
         disturbed \ {r} \subseteq disturbed',
         Told(req[r])', Steady(r)'
  PROVE  IInv'
<1>1. Rows'
  BY RowSame DEF Rows
<1>2. Grows /\ Kept
  BY GrowsSame, SameRow
<1>3. \A q \in Request : Told(req[q])'
  BY <1>2, ToldStep
<1>4. \A q \in Request : Steady(q)'
  BY <1>2, SteadySame
<1> QED
  BY <1>1, <1>3, <1>4, Together

LEMMA StillStep ==
  ASSUME IInv, Typed', UNCHANGED <<req, product, disturbed>>, Rows', Grows, Kept
  PROVE  IInv'
<1>1. ASSUME NEW q \in Request PROVE Told(req[q])' /\ Steady(q)'
  <2>1. req'[q] = req[q]
    OBVIOUS
  <2> QED
    BY <2>1, ToldFrame, SteadyFrame
<1> QED
  BY <1>1, Together

LEMMA PreviewInv == ASSUME NEW a \in Action, IInv, Preview(a) PROVE IInv'
<1>1. Typed'
  BY PreviewTyped DEF IInv
<1>2. UNCHANGED <<req, product, disturbed, starts, undoing, seen>>
  BY DEF Preview, shopVars
<1>3. Kept
  BY DEF Preview, IInv, Typed, TypeOK, Kept
<1>4. Grows
  BY <1>2, GrowsSame
<1>5. ASSUME NEW b \in Action PROVE Row(b)'
  <2>1. CASE b = a
    <3>1. status'[b] = "awaiting_confirmation" /\ status[b] = "none"
      BY <2>1 DEF Preview, IInv, Typed, TypeOK
    <3> QED
      BY <1>2, <2>1, <3>1 DEF IInv, Row, Backward
  <2>2. CASE b # a
    <3>1. status'[b] = status[b] /\ original'[b] = original[b]
      BY <2>2 DEF Preview, IInv, Typed, TypeOK
    <3> QED
      BY <1>2, <3>1 DEF IInv, Row
  <2> QED
    BY <2>1, <2>2
<1> QED
  BY <1>1, <1>2, <1>3, <1>4, <1>5, StillStep DEF Rows

LEMMA ClockInv == ASSUME NEW a \in Action, IInv, Expire(a) \/ GrowStale(a) PROVE IInv'
<1>1. Typed'
  BY ClockTyped DEF IInv
<1>2. UNCHANGED <<status, original, req, product, disturbed, starts, undoing, seen>>
  BY DEF Expire, GrowStale, shopVars
<1> QED
  BY <1>1, <1>2, StillStep, RowSame, SameRow, GrowsSame DEF Rows

LEMMA BeginInv ==
  ASSUME NEW r \in Request, NEW a \in Action, IInv,
         ConfirmAction(r, a) \/ RollbackAction(r, a) \/ ReconcileAction(r, a)
  PROVE  IInv'
<1>0. Typed /\ Typed'
  BY BeginTyped DEF IInv
<1>1. PICK at \in {"check", "look"}, to \in Status :
         Begin(r, a, at, to) /\ (at = "check" => status[a] \in
            {"awaiting_confirmation", "executed", "rollback_failed"})
         /\ (at = "look" => status[a] \in InProgress \cup Uncertain)
  BY DEF ConfirmAction, RollbackAction, ReconcileAction, Reconcilable, Status
<1>2. /\ Others(r) /\ req'[r].at = at /\ req'[r].action = a /\ req'[r].from = status[a]
      /\ UNCHANGED <<status, original, product, starts, undoing, seen>>
      /\ disturbed' = disturbed \ {r}
  BY <1>0, <1>1, BeginStep DEF Begin, rowVars
<1>3. starts[a] \in Nat /\ Row(a)
  BY <1>0 DEF IInv, Typed, TypeOK
<1>4. status[a] # "awaiting_confirmation" => starts[a] > 0
  BY <1>1, <1>3 DEF Row, InProgress, Uncertain
<1>5. Told(req[r])'
  BY <1>2, <1>3, <1>4 DEF Told, Row
<1>6. Steady(r)'
  BY <1>2 DEF Steady
<1> QED
  BY <1>0, <1>2, <1>5, <1>6, MoveStep

LEMMA CheckInv == ASSUME NEW r \in Request, IInv, CheckProduct(r) PROVE IInv'
<1>0. Typed /\ Typed'
  BY CheckTyped DEF IInv
<1>1. UNCHANGED <<status, original, product, starts, undoing, seen, disturbed>> /\ Others(r)
  BY <1>0, CheckStep DEF CheckProduct, rowVars, shopVars
<1>2. CASE req'[r] = Idle
  BY <1>0, <1>1, <1>2, ToldIdle, MoveStep
<1>3. CASE req'[r] # Idle
  <2>1. /\ AssertCurrent(r)
        /\ req'[r].at = "claim" /\ req'[r].action = req[r].action
        /\ req'[r].from = req[r].from /\ req'[r].to = req[r].to
    BY <1>0, <1>3, CheckStep
  <2>2. req[r].at = "check" /\ Told(req[r])
    BY DEF IInv, CheckProduct
  <2>3. Told(req[r])'
    BY <1>1, <2>1, <2>2 DEF Told
  <2>4. Steady(r)'
    BY <1>1, <2>1 DEF Steady, AssertCurrent
  <2> QED
    BY <1>0, <1>1, <2>3, <2>4, MoveStep
<1> QED
  BY <1>2, <1>3

LEMMA LookInv == ASSUME NEW r \in Request, IInv, LookAtProduct(r) PROVE IInv'
<1>0. Typed /\ Typed'
  BY LookTyped DEF IInv
<1>1. UNCHANGED <<status, original, product, starts, undoing, seen, disturbed>> /\ Others(r)
  BY <1>0, LookStep DEF LookAtProduct, rowVars, shopVars
<1>2. CASE req'[r] = Idle
  BY <1>0, <1>1, <1>2, ToldIdle, MoveStep
<1>3. CASE req'[r] # Idle
  <2> DEFINE a == req[r].action
             from == req[r].from
  <2>1. /\ req'[r].at = "resolve" /\ req'[r].action = a /\ req'[r].from = from
        /\ req'[r].to \in Verdict(a, from)
    BY <1>0, <1>3, LookStep
  <2>2. req[r].at = "look" /\ Told(req[r]) /\ a \in Action /\ from \in InProgress \cup Uncertain
    BY DEF IInv, Typed, Requests, Asked, Edge, LookAtProduct
  <2>3. starts[a] > 0 /\ (from \in Backward => a \in undoing)
    BY <2>2 DEF Told, InProgress, Uncertain
  <2>4. product \in seen[a]
    BY <2>2, <2>3 DEF IInv, Row
  <2>5. req'[r].to = "executed" => desired[a] \in seen[a]
    BY <2>1, <2>4 DEF Verdict
  <2>6. req'[r].to = "rolled_back" => original[a] \in seen[a] /\ from \in Backward
    BY <2>1, <2>2, <2>4 DEF Verdict, InProgress, Uncertain, Backward
  <2>7. Told(req[r])'
    BY <1>1, <2>1, <2>3, <2>5, <2>6 DEF Told
  <2>8. Steady(r)'
    BY <2>1 DEF Steady
  <2> QED
    BY <1>0, <1>1, <2>7, <2>8, MoveStep
<1> QED
  BY <1>2, <1>3

LEMMA ClaimInv == ASSUME NEW r \in Request, IInv, ClaimAction(r) PROVE IInv'
<1> DEFINE from == req[r].from
           to == req[r].to
<1>1. Typed /\ Typed'
  BY ClaimTyped DEF IInv
<1>2. req[r].action \in Action
  BY <1>1, Fields DEF ClaimAction, Typed
<1>3. PICK a \in Action : a = req[r].action
  BY <1>2
<1>4. /\ req[r].at = "claim" /\ req[r].action = a /\ status[a] # "none" /\ to \in Status
      /\ Told(req[r]) /\ Steady(r) /\ Row(a) /\ starts[a] \in Nat
      /\ \/ from = "awaiting_confirmation" /\ to = "executing"
         \/ from \in {"executed", "rollback_failed"} /\ to = "rolling_back"
  BY <1>3, Fields DEF ClaimAction, IInv, Typed, TypeOK, Requests, Asked, Edge
<1>5. Transition(a, from, to) /\ UNCHANGED <<original, product, disturbed>>
  BY <1>3 DEF ClaimAction
<1>6. CASE status[a] # from
  <2>1. Move(r, Idle) /\ UNCHANGED <<starts, undoing, seen, status>>
    BY <1>1, <1>4, <1>5, <1>6, TransitionStatus DEF ClaimAction, Claimed, Typed
  <2>2. Others(r) /\ req'[r] = Idle
    BY <1>1, <2>1, StopStep
  <2> QED
    BY <1>1, <1>5, <2>1, <2>2, ToldIdle, MoveStep
<1>7. CASE status[a] = from
  <2>0. Claimed(a, from)
    BY <1>7 DEF Claimed
  <2>1. /\ Others(r) /\ req'[r].at = "send" /\ req'[r].action = a
        /\ req'[r].from = to /\ req'[r].to = to
    BY <1>1, <1>3, <2>0, ClaimStep
  <2>2. status'[a] = to /\ \A b \in Action : b # a => status'[b] = status[b]
    BY <1>1, <1>4, <1>5, <1>7, TransitionStatus DEF Typed
  <2>3. /\ starts'[a] = IF to = "executing" THEN starts[a] + 1 ELSE starts[a]
        /\ \A b \in Action : b # a => starts'[b] = starts[b]
    BY <1>1, <1>4, <2>0 DEF ClaimAction, Typed, TypeOK
  <2>4. undoing' = IF to = "executing" THEN undoing ELSE undoing \cup {a}
    BY <1>3, <2>0 DEF ClaimAction
  <2>5. /\ seen'[a] = IF a \in undoing THEN seen[a] ELSE {product}
        /\ \A b \in Action : b # a => seen'[b] = seen[b]
    BY <1>1, <1>4, <2>0 DEF ClaimAction, Typed, TypeOK
  <2>6. ASSUME to = "executing" PROVE Row(a)' /\ Grows /\ Told(req[r])'
    <3>1. starts[a] = 0 /\ a \notin undoing
      BY <1>4, <1>7, <2>6 DEF Row, Backward
    <3>2. starts'[a] = 1 /\ undoing' = undoing /\ product \in seen'[a]
      BY <2>3, <2>4, <2>5, <2>6, <3>1
    <3>3. Row(a)'
      BY <1>5, <2>2, <2>6, <3>1, <3>2 DEF Row, Backward
    <3>4. Grows
      BY <1>4, <2>3, <2>5, <3>1, <3>2 DEF Grows
    <3>5. Told(req[r])'
      BY <2>1, <2>6, <3>2 DEF Told, Backward
    <3> QED
      BY <3>3, <3>4, <3>5
  <2>7. ASSUME to = "rolling_back" PROVE Row(a)' /\ Grows /\ Told(req[r])'
    <3>1. starts[a] > 0
      BY <1>4, <1>7, <2>7 DEF Told
    <3>2. starts'[a] = starts[a] /\ a \in undoing' /\ undoing \subseteq undoing'
      BY <2>3, <2>4, <2>7
    <3>3. product \in seen[a]
      BY <1>4, <3>1 DEF Row
    <3>4. Row(a)'
      BY <1>4, <1>5, <2>2, <2>5, <2>7, <3>1, <3>2, <3>3 DEF Row, Backward
    <3>5. Grows
      BY <2>3, <2>5, <3>2 DEF Grows
    <3>6. Told(req[r])'
      BY <2>1, <2>7, <3>1, <3>2 DEF Told
    <3> QED
      BY <3>4, <3>5, <3>6
  <2>8. Row(a)' /\ Grows /\ Told(req[r])'
    BY <1>4, <2>6, <2>7
  <2>9. ASSUME NEW b \in Action, b # a PROVE Row(b)'
    <3>1. b \in undoing' <=> b \in undoing
      BY <2>4, <2>9
    <3> QED
      BY <1>5, <2>2, <2>3, <2>5, <2>9, <3>1 DEF IInv, Row
  <2>10. Kept
    BY <1>4, <1>5, <2>2 DEF Kept
  <2>11. Steady(r)'
    BY <1>4, <1>5, <2>1 DEF Steady
  <2>12. \A q \in Request : Told(req[q])'
    BY <2>1, <2>8, <2>10, ToldStep
  <2>13. \A q \in Request : Steady(q)'
    BY <1>5, <2>1, <2>10, <2>11, SteadySame
  <2> QED
    BY <1>1, <2>8, <2>9, <2>12, <2>13, Together DEF Rows
<1> QED
  BY <1>6, <1>7

LEMMA SendInv == ASSUME NEW r \in Request, IInv, Send(r) PROVE IInv'
<1>0. Typed /\ Typed'
  BY SendTyped DEF IInv
<1>1. req[r].action \in Action
  BY <1>0, Fields DEF Typed, Send, Answered, Rejected, Lost
<1>2. PICK a \in Action : a = req[r].action
  BY <1>1
<1>3. /\ UNCHANGED <<status, original, starts, undoing>> /\ req[r].at = "send"
      /\ Becomes(Target(r), {r}) \/ UNCHANGED <<product, seen, disturbed>>
  BY DEF Send, Answered, Rejected, Lost, rowVars, shopVars
<1>4. /\ Edge(req[r]) /\ Told(req[r]) /\ Steady(r) /\ Row(a) /\ starts[a] \in Nat
      /\ req[r].from \in InProgress /\ req[r].to = req[r].from
  BY <1>2, <1>3 DEF IInv, Typed, TypeOK, Requests, Edge
<1>5. Target(r) \in Text
  BY <1>0, <1>3, TargetType
<1>6. Rows' /\ Grows
  <2>1. CASE Becomes(Target(r), {r})
    BY <1>3, <1>5, <2>1, BecomesRow, BecomesGrows DEF Rows
  <2>2. CASE UNCHANGED <<product, seen, disturbed>>
    BY <1>3, <2>2, RowSame, GrowsSame DEF Rows
  <2> QED
    BY <1>3, <2>1, <2>2
<1>7. Kept
  BY <1>3, SameRow
<1>8. /\ Others(r) /\ req'[r].action = a /\ req'[r].from = req[r].from
      /\ \/ req'[r].at = "send" /\ req'[r].to = req[r].to
         \/ /\ req'[r].at = "settle"
            /\ \/ req'[r].to \in {Refused(r), Unclear(r)}
               \/ req'[r].to = Done(r) /\ Becomes(Target(r), {r})
  BY <1>0, <1>2, SendStep
<1>9. starts[a] > 0 /\ (req[r].from \in Backward => a \in undoing)
  BY <1>2, <1>3, <1>4 DEF Told, InProgress
<1>10. Told(req[r])'
  <2>1. ASSUME req'[r].at = "settle", req'[r].to = "executed" PROVE desired[a] \in seen'[a]
    <3>1. Becomes(Target(r), {r}) /\ req[r].from = "executing"
      BY <1>4, <1>8, <2>1 DEF Refused, Unclear, Done, Executing, InProgress
    <3>2. Target(r) = desired[a]
      BY <1>2, <3>1 DEF Target, Executing
    <3> QED
      BY <1>3, <1>5, <1>9, <3>1, <3>2, BecomesGrows
  <2>2. ASSUME req'[r].at = "settle", req'[r].to = "rolled_back"
        PROVE  a \in undoing /\ original[a] \in seen'[a]
    <3>1. Becomes(Target(r), {r}) /\ req[r].from = "rolling_back"
      BY <1>4, <1>8, <2>2 DEF Refused, Unclear, Done, Executing, InProgress
    <3>2. Target(r) = original[a]
      BY <1>2, <1>4, <3>1 DEF Target, Executing
    <3> QED
      BY <1>3, <1>5, <1>9, <3>1, <3>2, BecomesGrows DEF Backward
  <2> QED
    BY <1>3, <1>8, <1>9, <2>1, <2>2 DEF Told
<1>11. \A q \in Request : Told(req[q])'
  BY <1>6, <1>7, <1>8, <1>10, ToldStep
<1>12. ASSUME NEW q \in Request PROVE Steady(q)'
  <2>1. CASE q # r
    <3>1. req'[q] = req[q]
      BY <1>8, <2>1 DEF Others
    <3>2. q \in disturbed => q \in disturbed'
      BY <1>3 DEF Becomes
    <3>3. product' # product /\ q \in Active => q \in disturbed'
      BY <1>3, <2>1 DEF Becomes
    <3> QED
      BY <1>7, <3>1, <3>2, <3>3, SteadyFrame
  <2>2. CASE q = r
    <3>1. CASE Becomes(Target(r), {r})
      BY <1>2, <1>3, <1>8, <2>2, <3>1 DEF Steady, Becomes, Target
    <3>2. CASE UNCHANGED <<product, seen, disturbed>>
      BY <1>2, <1>3, <1>4, <1>8, <2>2, <3>2 DEF Steady
    <3> QED
      BY <1>3, <3>1, <3>2
  <2> QED
    BY <2>1, <2>2
<1> QED
  BY <1>0, <1>6, <1>11, <1>12, Together

LEMMA WriteInv == ASSUME NEW r \in Request, IInv, Settle(r) \/ Resolve(r) PROVE IInv'
<1> DEFINE from == req[r].from
           to == req[r].to
<1>0. Typed /\ Typed'
  BY WriteTyped DEF IInv
<1>1. req[r].action \in Action /\ to \in Status
  BY <1>0, Fields DEF Settle, Resolve, Typed
<1>2. PICK a \in Action : a = req[r].action
  BY <1>1
<1>3. /\ Transition(a, from, to) /\ Move(r, Idle)
      /\ UNCHANGED <<original, product, starts, undoing, seen, disturbed>>
  BY <1>2 DEF Settle, Resolve, shopVars
<1>4. Others(r) /\ req'[r] = Idle
  BY <1>0, <1>3, StopStep
<1>5. CASE status[a] # from
  <2>1. UNCHANGED status
    BY <1>0, <1>1, <1>3, <1>5, TransitionStatus DEF Typed
  <2> QED
    BY <1>0, <1>3, <1>4, <2>1, ToldIdle, MoveStep
<1>6. CASE status[a] = from
  <2>1. status'[a] = to /\ \A b \in Action : b # a => status'[b] = status[b]
    BY <1>0, <1>1, <1>3, <1>6, TransitionStatus DEF Typed
  <2>2. /\ Edge(req[r]) /\ Told(req[r]) /\ Row(a) /\ starts[a] \in Nat
        /\ req[r].at \in {"settle", "resolve"}
    BY <1>2 DEF IInv, Typed, TypeOK, Requests, Settle, Resolve
  <2>3. /\ from \in InProgress \cup Uncertain
        /\ to \in Outcome(from) \cup Found(from)
        /\ req[r].at = "settle" => from \in InProgress
    BY <2>2 DEF Edge
  <2>4. starts[a] > 0 /\ starts[a] <= 1
    BY <1>2, <2>2, <2>3 DEF Told, Row, InProgress, Uncertain
  <2>5. ASSUME from \in Backward PROVE Row(a)'
    <3>1. a \in undoing /\ to \in Backward \cup {"executed"}
      BY <1>2, <1>6, <2>2, <2>3, <2>5
         DEF Row, Edge, Outcome, Found, InProgress, Uncertain, Backward, Forward
    <3>2. /\ to = "executed" => desired[a] \in seen[a]
          /\ to = "rolled_back" => original[a] \in seen[a]
      BY <1>2, <2>2, <2>5 DEF Told, Forward, Backward
    <3>3. Row(a)'
      BY <1>3, <2>1, <2>2, <2>4, <3>1, <3>2 DEF Row, Backward
    <3> QED
      BY <3>3
  <2>6. ASSUME from \in Forward PROVE Row(a)'
    <3>1. a \notin undoing
      BY <1>6, <2>2, <2>6 DEF Row, Forward, Backward
    <3>2. to \in {"executed", "failed", "execution_uncertain"}
      BY <2>2, <2>3, <2>6 DEF Edge, Outcome, Found, Forward, InProgress
    <3>3. to = "executed" => desired[a] \in seen[a]
      BY <1>2, <2>2, <3>1 DEF Told
    <3>4. Row(a)'
      BY <1>3, <2>1, <2>2, <2>4, <3>1, <3>2, <3>3 DEF Row, Backward
    <3> QED
      BY <3>4
  <2>7. Row(a)'
    BY <2>3, <2>5, <2>6 DEF InProgress, Uncertain, Forward, Backward
  <2>8. ASSUME NEW b \in Action, b # a PROVE Row(b)'
    BY <1>3, <2>1, <2>8 DEF IInv, Row
  <2>9. Kept /\ Grows
    <3>1. status'[a] # "none"
      BY <2>1, <2>2, WritesStatus, <1>0
    <3> QED
      BY <1>3, <2>1, <3>1 DEF Kept, Grows
  <2>10. Told(req[r])' /\ Steady(r)'
    BY <1>4, ToldIdle
  <2>11. \A q \in Request : Told(req[q])'
    BY <1>4, <2>9, <2>10, ToldStep
  <2>12. \A q \in Request : Steady(q)'
    BY <1>3, <1>4, <2>9, <2>10, SteadySame
  <2> QED
    BY <1>0, <2>7, <2>8, <2>11, <2>12, Together DEF Rows
<1> QED
  BY <1>5, <1>6

LEMMA CrashInv == ASSUME NEW r \in Request, IInv, Crash(r) PROVE IInv'
<1>1. Typed /\ Typed'
  BY CrashTyped DEF IInv
<1>2. /\ UNCHANGED <<status, original, product, starts, undoing, seen, disturbed>>
      /\ Move(r, Idle)
  BY DEF Crash, rowVars, shopVars
<1>3. Others(r) /\ req'[r] = Idle
  BY <1>1, <1>2, StopStep
<1> QED
  BY <1>1, <1>2, <1>3, ToldIdle, MoveStep

LEMMA ShopInv == ASSUME NEW text \in Text, IInv, Land(text) \/ Edit(text) PROVE IInv'
<1>1. Typed'
  BY ShopTyped DEF IInv
<1>2. /\ UNCHANGED <<status, original, req, starts, undoing>>
      /\ Becomes(text, {}) \/ UNCHANGED <<product, seen, disturbed>>
  BY DEF Land, Edit, rowVars
<1>3. Kept
  BY <1>2, SameRow
<1>4. CASE Becomes(text, {})
  <2>1. Rows' /\ Grows
    BY <1>2, <1>4, BecomesRow, BecomesGrows DEF Rows
  <2>2. ASSUME NEW q \in Request PROVE Told(req[q])' /\ Steady(q)'
    <3>1. req'[q] = req[q]
      BY <1>2
    <3>2. /\ q \in disturbed => q \in disturbed'
          /\ product' # product /\ q \in Active => q \in disturbed'
      BY <1>4 DEF Becomes
    <3> QED
      BY <1>3, <2>1, <3>1, <3>2, ToldFrame, SteadyFrame
  <2> QED
    BY <1>1, <2>1, <2>2, Together
<1>5. CASE UNCHANGED <<product, seen, disturbed>>
  BY <1>1, <1>2, <1>3, <1>5, StillStep, RowSame, GrowsSame DEF Rows
<1> QED
  BY <1>2, <1>4, <1>5

LEMMA StepInv == IInv /\ [Next]_vars => IInv'
<1> SUFFICES ASSUME IInv, [Next]_vars PROVE IInv'
  OBVIOUS
<1>1. CASE UNCHANGED vars
  <2>1. Typed'
    BY <1>1, SameTyped DEF IInv
  <2> QED
    BY <1>1, <2>1, StillStep, RowSame, SameRow, GrowsSame DEF vars, Rows
<1>2. CASE \E a \in Action : Preview(a) \/ Expire(a) \/ GrowStale(a)
  BY <1>2, PreviewInv, ClockInv
<1>3. CASE \E r \in Request, a \in Action :
              ConfirmAction(r, a) \/ RollbackAction(r, a) \/ ReconcileAction(r, a)
  BY <1>3, BeginInv
<1>4. CASE \E r \in Request : Serve(r) \/ Crash(r)
  BY <1>4, CheckInv, ClaimInv, SendInv, WriteInv, LookInv, CrashInv DEF Serve
<1>5. CASE \E text \in Text : Land(text) \/ Edit(text)
  BY <1>5, ShopInv
<1> QED
  BY <1>1, <1>2, <1>3, <1>4, <1>5 DEF Next

LEMMA InitInv == Init => IInv
<1> SUFFICES ASSUME Init PROVE IInv
  OBVIOUS
<1>1. Typed
  BY InitTyped
<1>2. \A a \in Action : Row(a)
  BY DEF Init, Row, Backward
<1>3. \A r \in Request : Told(req[r]) /\ Steady(r)
  BY IdleFields DEF Init, Told, Steady
<1> QED
  BY <1>1, <1>2, <1>3 DEF IInv

LEMMA Invariant == Spec => []IInv
  BY InitInv, StepInv, PTL DEF Spec

----------------------------------------------------------------------------
(* The theorems. *)

(* A status tells what happened in Shopify, for any number of actions,       *)
(* requests, lost answers, mutations still on their way, crashes and edits:  *)
(* whoever wrote "executed" or "rolled_back" (executeAction, rollbackAction, *)
(* reconcileAction), the product had that text after the claim.              *)
THEOREM StatusesAreHonest == Spec => []StatusIsHonest
<1>1. IInv => StatusIsHonest
  BY DEF IInv, Row, StatusIsHonest
<1> QED
  BY <1>1, Invariant, PTL

(* A confirmed preview is executed once: the conditional update of           *)
(* `transition` lets one request leave awaiting_confirmation, and no status  *)
(* leads back to it.                                                         *)
THEOREM ExecutedOnce == Spec => []ExecutesOnce
<1>1. IInv => ExecutesOnce
  BY DEF IInv, Row, ExecutesOnce
<1> QED
  BY <1>1, Invariant, PTL

(* A mutation overwrites a text that is neither the one before the action    *)
(* nor the one after it only if somebody changed the product between         *)
(* assertCurrentDescription and the call: what was edited before is kept.    *)
THEOREM EarlierEditsAreKept == Spec => EarlierEditKept
<1>1. IInv /\ [Next]_vars =>
        [\A r \in Request :
            LET texts == {desired[req[r].action], original[req[r].action]} IN
            Send(r) /\ product' # product /\ product \notin texts => r \in disturbed]_vars
  <2> SUFFICES ASSUME IInv, NEW r \in Request, Send(r),
                      product \notin {desired[req[r].action], original[req[r].action]}
               PROVE  r \in disturbed
    OBVIOUS
  <2>1. req[r].at = "send" /\ Steady(r)
    BY DEF IInv, Send, Answered, Rejected, Lost
  <2> QED
    BY <2>1 DEF Steady
<1> QED
  BY <1>1, Invariant, PTL DEF Spec, EarlierEditKept
=============================================================================
