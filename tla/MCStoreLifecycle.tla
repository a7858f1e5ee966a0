-------------------------- MODULE MCStoreLifecycle --------------------------
(* StoreLifecycle with two sync runs and two concurrent redact deliveries. *)
EXTENDS StoreLifecycle

CONSTANTS run1, run2, handler1, handler2

MCRun == {run1, run2}
MCHandler == {handler1, handler2}
=============================================================================
