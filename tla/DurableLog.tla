----------------------------- MODULE DurableLog -----------------------------
(***************************************************************************)
(* What the event store of one session promises.  Stored events are never  *)
(* rewritten, renumbered or removed, and no number is stored twice.  An    *)
(* event may fail to be stored and leave its number out: whoever numbers   *)
(* events counts on from a number given out before, so below an event      *)
(* every number is a stored one's or a failed one's.  The last number is   *)
(* that of the event stored last, which is what the next writer counts on  *)
(* from, whatever happens to the processes that write.                     *)
(***************************************************************************)
EXTENDS Integers

VARIABLES entries,  \* the stored events
          failed,   \* events that could not be stored
          last      \* the number of the event stored last

Init == entries = {} /\ failed = {} /\ last = 0

\* The next event of a writer: numbered above numbers given out before.
Follows(e) ==
    \A n \in 1..e.seq - 1 : \E f \in entries \cup failed : f.seq = n

Append(e) ==
    /\ Follows(e)
    /\ \A f \in entries : f.seq # e.seq
    /\ entries' = entries \cup {e}
    /\ last' = e.seq
    /\ UNCHANGED failed

Fail(e) ==
    /\ Follows(e)
    /\ failed' = failed \cup {e}
    /\ UNCHANGED <<entries, last>>

Next == \/ \E e \in entries' \ entries : Append(e)
        \/ \E e \in failed' \ failed : Fail(e)

Spec == Init /\ [][Next]_<<entries, failed, last>>
=============================================================================
