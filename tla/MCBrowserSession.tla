-------------------------- MODULE MCBrowserSession --------------------------
(* Model values for the instances of BrowserSession that TLC checks.        *)
EXTENDS BrowserSession, TLC

CONSTANTS s1, s2
=============================================================================
