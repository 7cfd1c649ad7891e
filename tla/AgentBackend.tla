---------------------------- MODULE AgentBackend ----------------------------
(***************************************************************************)
(* What agent.Session promises the agent manager of a run, whatever CLI is *)
(* behind it (internal/agent/agent.go): after a start that succeeded there *)
(* is one Result, then the channel of results is closed, then the channel  *)
(* of events; "aborted" is only said of a run that was cancelled.          *)
(***************************************************************************)
CONSTANT Statuses    \* values of Result.Status

VARIABLES phase,     \* new, running, refused, judged, sealed, closed
          cancelled, \* the context of the run has been cancelled
          outcome    \* the status in the Result, or "none"

vars == <<phase, cancelled, outcome>>

Init == phase = "new" /\ cancelled = FALSE /\ outcome = "none"

\* Execute returns a session or an error, and has then cancelled its context.
Execute ==
    /\ phase = "new"
    /\ \/ phase' = "running" /\ UNCHANGED cancelled
       \/ phase' = "refused" /\ cancelled' = TRUE
    /\ UNCHANGED outcome

Cancel == phase # "new" /\ cancelled' = TRUE /\ UNCHANGED <<phase, outcome>>

\* The one Result.
Judge(s) ==
    /\ phase = "running"
    /\ s = "aborted" => cancelled
    /\ phase' = "judged" /\ outcome' = s
    /\ UNCHANGED cancelled

\* The context is released before the channels are closed.
CloseResult ==
    /\ phase = "judged"
    /\ phase' = "sealed" /\ cancelled' = TRUE
    /\ UNCHANGED outcome

CloseEvents == phase = "sealed" /\ phase' = "closed" /\ UNCHANGED <<cancelled, outcome>>

Next == Execute \/ Cancel \/ (\E s \in Statuses : Judge(s)) \/ CloseResult \/ CloseEvents

Spec == Init /\ [][Next]_vars
=============================================================================
