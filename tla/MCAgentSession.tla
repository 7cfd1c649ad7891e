--------------------------- MODULE MCAgentSession ---------------------------
(* AgentSession on small instances: the names the configurations bind, and  *)
(* the states the larger ones stop at.                                      *)
EXTENDS AgentSession, TLC

CONSTANTS t1, t2, r1

MCSymmetry == Permutations(Turns)

\* The transaction that fails is that of the second event of a session, so that
\* a takeover may count on below what the first turn has emitted.
SecondEventFails == fails > 0 => \E e \in failed : e.seq = 2

\* A stream breaks or the transaction of an event of the backend fails, not both.
OneFault ==
    /\ fails + breaks <= 1
    /\ fails > 0 => \E e \in failed : e.type = "backend"
=============================================================================
