-------------------------- MODULE MCStoreLifecycle --------------------------
(* Model values for the instances of StoreLifecycle that TLC checks.        *)
EXTENDS StoreLifecycle, TLC

CONSTANTS s1, s2, q1, q2
=============================================================================
