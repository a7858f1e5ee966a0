------------------------- MODULE FinancialIntegrity -------------------------
(* The money and status rules of financialIntegrity.js, on verified amounts. *)
EXTENDS Integers
CONSTANT None       \* SQL null: no row, no refund evidence

Least(a, b) == IF a < b THEN a ELSE b
Most(a, b) == IF a < b THEN b ELSE a
Minus(a, b) == a - Least(a, b)      \* Math.max(0, a - b)

\* Faulty variant: the payload's refund evidence replaces the stored one.
ReconcileOrderMoney_LastWins(payload, stored) ==
    [total |-> payload.net, refunded |-> payload.refunded]

\* Faulty variant: a refund the payload has not seen is not deducted.
ReconcileOrderMoney_NetAsSent(payload, stored) ==
    [total |-> payload.net,
     refunded |-> IF payload.refunded = None THEN stored
                  ELSE IF stored = None THEN payload.refunded
                  ELSE Most(stored, payload.refunded)]

\* reconcileOrderMoney
ReconcileOrderMoney(payload, stored) ==
    LET effective == IF payload.refunded = None THEN stored
                     ELSE IF stored = None THEN payload.refunded
                     ELSE Most(stored, payload.refunded)
        seen == IF payload.refunded = None THEN 0 ELSE payload.refunded
    IN  IF effective = None
        THEN [total |-> payload.net, refunded |-> None]
        ELSE [total |-> Minus(payload.net, Minus(effective, seen)), refunded |-> effective]

\* Faulty variant: the stored status alone decides.
ResolveRecoveryStatus_NoTomb(existing, tombstone) ==
    IF existing # None /\ existing.status = "cancelled" THEN "cancelled" ELSE "completed"

\* resolveOrderRecoveryStatus
ResolveRecoveryStatus(existing, tombstone) ==
    IF tombstone \/ (existing # None /\ existing.status = "cancelled")
    THEN "cancelled" ELSE "completed"
=============================================================================
