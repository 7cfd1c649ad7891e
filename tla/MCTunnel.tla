------------------------------ MODULE MCTunnel ------------------------------
(* Model values for the instances of Tunnel that TLC checks.                *)
EXTENDS Tunnel, TLC

CONSTANTS p1, p2
=============================================================================
