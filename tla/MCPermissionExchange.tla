------------------------ MODULE MCPermissionExchange ------------------------
(* Model values for the instances of PermissionExchange that TLC checks.    *)
EXTENDS PermissionExchange, TLC

CONSTANTS b1, b2
=============================================================================
