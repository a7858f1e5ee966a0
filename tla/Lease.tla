------------------------------- MODULE Lease -------------------------------
(***************************************************************************)
(* What a leased lock promises, whatever stores it.  A client works from   *)
(* the moment it takes the lock until it gives the lock up or dies; the    *)
(* lock is taken only while it is free or its holder's lease has run out,  *)
(* and nobody but the holder gives it up.                                  *)
(***************************************************************************)
CONSTANTS Client,       \* whoever may ask for the lock
          NoOne         \* "nobody holds the lock"

VARIABLES holder,       \* the client whose claim is recorded, or NoOne
          fresh,        \* the clients whose claim has not run out
          active        \* the clients that work as if they held the lock

vars == <<holder, fresh, active>>

Init == holder = NoOne /\ fresh = {} /\ active = {}

Available == holder = NoOne \/ holder \notin fresh

Take(c) ==
    /\ Available
    /\ holder' = c
    /\ fresh' = fresh \cup {c}
    /\ active' \in {active, active \cup {c}}    \* the winner may never learn

\* The lock becomes free only if the leaving client is the one recorded.
GiveUp(c) ==
    /\ holder' = IF holder = c THEN NoOne ELSE holder
    /\ active' = active \ {c}
    /\ UNCHANGED fresh

Die(S) == active' = active \ S /\ UNCHANGED <<holder, fresh>>

Expire(c) == fresh' = fresh \ {c} /\ UNCHANGED <<holder, active>>

Next ==
    \/ \E c \in Client : Take(c) \/ (c \in active /\ GiveUp(c)) \/ Expire(c)
    \/ \E S \in SUBSET Client : Die(S)

Spec == Init /\ [][Next]_vars
=============================================================================
