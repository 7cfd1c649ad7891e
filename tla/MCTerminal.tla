----------------------------- MODULE MCTerminal -----------------------------
(* Model values for the instances of Terminal that TLC checks.              *)
EXTENDS Terminal

CONSTANTS s1, s2
=============================================================================
