--------------------------- MODULE StoreLifecycle ---------------------------
(***************************************************************************)
(* The client's store (internal/client/store) over the restarts of the     *)
(* client process: Open with its migrations and its sweep, the writer      *)
(* goroutine behind Write, the readers that share the connection pool with *)
(* it, and Close.  The process may die between any two steps; the database *)
(* file is what stays.                                                     *)
(*                                                                         *)
(* A member of Sessions is one agent session with the goroutine that       *)
(* writes about it: it starts a turn (CreateSession, or MarkSessionRunning *)
(* when the row is there), later finishes it (FinishSession), and so on.   *)
(* Event rows are the subject of AgentSession.                             *)
(***************************************************************************)
EXTENDS Integers, Sequences, FiniteSets

CONSTANTS Sessions,
          Readers,      \* goroutines that run Query
          LastVersion,  \* the version the migrations lead to (3 in the code)
          QueueCap,     \* capacity of writeCh (64 in the code)
          MaxConns      \* size of the connection pool (8 in the code)

ASSUME ConstantsAssumption ==
    /\ LastVersion \in Nat \ {0}
    /\ QueueCap \in Nat \ {0}
    /\ MaxConns \in Nat \ {0}

\* A migration is named by its fromV.
Migrations == 1..(LastVersion - 1)

NoCall == [op |-> "finish", at |-> "idle"]

VARIABLES
    \* the file
    tables,    \* which of the CREATE TABLE scripts have run: v1, meta
    columns,   \* migrations whose ALTER TABLE is in the schema
    version,   \* the version row of schema_meta; 0: no row
    status,    \* sessions.status of each session; absent: no row
    \* the process
    pc,        \* where Open, or the process after it, is
    mig,       \* cur in migrate, then the fromV at hand
    queue,     \* writeCh: the sessions whose operation is waiting
    writer,    \* writeLoop: idle, begin (an op is taken), reply
    job,       \* the session whose op it is
    outcome,   \* what the transaction returned: ok or error
    call,      \* each session's goroutine: its operation and where it is
    reader,    \* Query: idle, or holding a connection
    started,   \* sessions this process has started a turn of
    sweep,     \* history: how the sweep of this process ended
    told       \* history: the last outcome a caller was told of, by session

file    == <<tables, columns, version, status>>
loop    == <<queue, writer, job, outcome>>
callers == <<call, started, told>>
vars    == <<file, pc, mig, loop, callers, reader, sweep>>

Init ==
    /\ tables = {}
    /\ columns = {}
    /\ version = 0
    /\ status = [s \in Sessions |-> "absent"]
    /\ pc = "down"
    /\ mig = 0
    /\ queue = <<>>
    /\ writer = "idle"
    /\ job = {}
    /\ outcome = "ok"
    /\ call = [s \in Sessions |-> NoCall]
    /\ reader = [r \in Readers |-> "idle"]
    /\ started = {}
    /\ sweep = "none"
    /\ told = [s \in Sessions |-> "none"]

\* What of the process dies with it.
Gone ==
    /\ queue' = <<>>
    /\ writer' = "idle"
    /\ job' = {}
    /\ outcome' = "ok"
    /\ call' = [s \in Sessions |-> NoCall]
    /\ reader' = [r \in Readers |-> "idle"]
    /\ started' = {}
    /\ mig' = 0
    /\ sweep' = "none"
    /\ UNCHANGED <<file, told>>

-----------------------------------------------------------------------------
(* Open: migrate and sweepStaleRunning.                                    *)

\* The client is started; one that could not open its store has exited.
Start ==
    /\ pc \in {"down", "failed"}
    /\ pc' = "schema"
    /\ UNCHANGED <<file, mig, loop, callers, reader, sweep>>

\* CREATE TABLE IF NOT EXISTS, both scripts one after the other.
CreateTables ==
    /\ \/ pc = "schema" /\ pc' = "meta" /\ tables' = tables \cup {"v1"}
       \/ pc = "meta" /\ pc' = "read" /\ tables' = tables \cup {"meta"}
    /\ UNCHANGED <<columns, version, status, mig, loop, callers, reader, sweep>>

\* readVersion; 0 stands for the missing row.  Migrations below the version are
\* skipped.
ReadVersion ==
    /\ pc = "read"
    /\ pc' = IF version = 0 THEN "seed" ELSE "apply"
    /\ mig' = version
    /\ UNCHANGED <<file, loop, callers, reader, sweep>>

\* Mutant: a fresh file is declared to be of the latest version.
SeedLatest ==
    /\ pc = "seed"
    /\ pc' = "apply"
    /\ mig' = LastVersion
    /\ version' = LastVersion
    /\ UNCHANGED <<tables, columns, status, loop, callers, reader, sweep>>

\* No version row: the file is of version 1, whatever it is.
SeedVersion ==
    /\ pc = "seed"
    /\ pc' = "apply"
    /\ mig' = 1
    /\ version' = 1
    /\ UNCHANGED <<tables, columns, status, loop, callers, reader, sweep>>

\* applyMigration commits the ALTER TABLE.
ApplyMigration ==
    /\ pc = "apply"
    /\ mig \in Migrations \ columns
    /\ pc' = "version"
    /\ columns' = columns \cup {mig}
    /\ UNCHANGED <<tables, version, status, mig, loop, callers, reader, sweep>>

\* The column is there already: the transaction is rolled back, the error is
\* taken for success, and the Commit that follows returns ErrTxDone.  Open
\* fails and main exits.
ApplyAgain ==
    /\ pc = "apply"
    /\ mig \in Migrations \cap columns
    /\ pc' = "failed"
    /\ mig' = 0
    /\ UNCHANGED <<file, loop, callers, reader, sweep>>

WriteVersion ==
    /\ pc = "version"
    /\ pc' = "apply"
    /\ mig' = mig + 1
    /\ version' = mig + 1
    /\ UNCHANGED <<tables, columns, status, loop, callers, reader, sweep>>

\* Mutant: the sweep settles one row at a time and is run once.
SweepOne ==
    /\ pc = "apply"
    /\ mig \notin Migrations
    /\ pc' = "open"
    /\ \/ sweep' = "done" /\ \E s \in Sessions :
            status' = [status EXCEPT ![s] = IF @ = "running" THEN "interrupted" ELSE @]
       \/ sweep' = "failed" /\ UNCHANGED status
    /\ UNCHANGED <<tables, columns, version, mig, loop, callers, reader>>

\* The rows after the UPDATE of sweepStaleRunning.
Swept == [s \in Sessions |-> IF status[s] = "running" THEN "interrupted" ELSE status[s]]

\* sweepStaleRunning, then go s.writeLoop(); when the UPDATE fails Open warns
\* and the store is opened as the dead process left it.
Sweep ==
    /\ pc = "apply"
    /\ mig \notin Migrations
    /\ pc' = "open"
    /\ \/ sweep' = "done" /\ status' = Swept
       \/ sweep' = "failed" /\ UNCHANGED status
    /\ UNCHANGED <<tables, columns, version, mig, loop, callers, reader>>

-----------------------------------------------------------------------------
(* Write.  Every caller passes context.Background(), so nobody gives up.   *)

Up == pc \in {"open", "closing", "exited"}

\* The goroutine of s calls CreateSession, MarkSessionRunning or FinishSession.
Request(s) ==
    LET op == IF call[s].op = "start" THEN "finish" ELSE "start"
    IN /\ Up
       /\ call[s].at = "idle"
       /\ call' = [call EXCEPT ![s] = [op |-> op, at |-> "send"]]
       /\ started' = IF op = "start" THEN started \cup {s} ELSE started
       /\ told' = [told EXCEPT ![s] = "none"]
       /\ UNCHANGED <<file, pc, mig, loop, reader, sweep>>

\* Mutant: the channel takes whatever comes.
EnqueueUnbounded(s) ==
    /\ call[s].at = "send"
    /\ pc = "open"
    /\ queue' = Append(queue, s)
    /\ call' = [call EXCEPT ![s].at = "wait"]
    /\ UNCHANGED <<file, pc, mig, writer, job, outcome, started, told, reader, sweep>>

\* s.writeCh <- op
Enqueue(s) ==
    /\ call[s].at = "send"
    /\ pc = "open"
    /\ Len(queue) < QueueCap
    /\ queue' = Append(queue, s)
    /\ call' = [call EXCEPT ![s].at = "wait"]
    /\ UNCHANGED <<file, pc, mig, writer, job, outcome, started, told, reader, sweep>>

\* A send on the closed channel panics and takes the process down.
EnqueuePanics(s) ==
    /\ call[s].at = "send"
    /\ pc \in {"closing", "exited"}
    /\ pc' = "down"
    /\ Gone

-----------------------------------------------------------------------------
(* writeLoop and Query.                                                    *)

Take ==
    /\ writer = "idle"
    /\ queue # <<>>
    /\ writer' = "begin"
    /\ job' = {Head(queue)}
    /\ queue' = Tail(queue)
    /\ UNCHANGED <<file, pc, mig, outcome, callers, reader, sweep>>

\* A connection of the pool is free.
ConnFree == Cardinality({r \in Readers : reader[r] = "read"}) < MaxConns

\* The row after the operation: INSERT or UPDATE; an UPDATE of a row that is
\* not there changes nothing and is no error.
After(s) ==
    IF call[s].op = "start" THEN "running"
    ELSE IF status[s] = "absent" THEN "absent" ELSE "completed"

\* Mutant: an error of the operation is lost.
RunTxUnchecked ==
    /\ writer = "begin"
    /\ ConnFree
    /\ writer' = "reply"
    /\ outcome' = "ok"
    /\ \/ status' = [s \in Sessions |-> IF s \in job THEN After(s) ELSE status[s]]
       \/ UNCHANGED status
    /\ UNCHANGED <<tables, columns, version, pc, mig, queue, job, callers, reader, sweep>>

\* BeginTx, fn and Commit; or an error and Rollback.
RunTx ==
    /\ writer = "begin"
    /\ ConnFree
    /\ writer' = "reply"
    /\ \/ /\ outcome' = "ok"
          /\ status' = [s \in Sessions |-> IF s \in job THEN After(s) ELSE status[s]]
       \/ /\ outcome' = "error"
          /\ UNCHANGED status
    /\ UNCHANGED <<tables, columns, version, pc, mig, queue, job, callers, reader, sweep>>

\* What the caller of s has been told when its operation returned without error.
Told(s) == IF call[s].op = "start" THEN "running" ELSE "finished"

\* Mutant: the writer goes on after an error without answering.
ReplyOnSuccess ==
    /\ writer = "reply"
    /\ writer' = "idle"
    /\ job' = {}
    /\ IF outcome = "ok"
       THEN /\ call' = [s \in Sessions |-> IF s \in job THEN [call[s] EXCEPT !.at = "idle"]
                                           ELSE call[s]]
            /\ told' = [s \in Sessions |-> IF s \in job THEN Told(s) ELSE told[s]]
       ELSE UNCHANGED <<call, told>>
    /\ UNCHANGED <<file, pc, mig, queue, outcome, started, reader, sweep>>

\* op.resp <- err; the caller returns.
Reply ==
    /\ writer = "reply"
    /\ writer' = "idle"
    /\ job' = {}
    /\ call' = [s \in Sessions |-> IF s \in job THEN [call[s] EXCEPT !.at = "idle"]
                                   ELSE call[s]]
    /\ told' = [s \in Sessions |-> IF s \in job /\ outcome = "ok" THEN Told(s) ELSE told[s]]
    /\ UNCHANGED <<file, pc, mig, queue, outcome, started, reader, sweep>>

\* Query holds its connection as long as its function runs: ReplayEvents
\* writes to the stream of a browser meanwhile.
Query(r) ==
    /\ Up
    /\ pc # "exited"
    /\ reader[r] = "idle"
    /\ ConnFree
    /\ reader' = [reader EXCEPT ![r] = "read"]
    /\ UNCHANGED <<file, pc, mig, loop, callers, sweep>>

QueryEnds(r) ==
    /\ reader[r] = "read"
    /\ reader' = [reader EXCEPT ![r] = "idle"]
    /\ UNCHANGED <<file, pc, mig, loop, callers, sweep>>

-----------------------------------------------------------------------------
(* The end of the process.                                                 *)

\* Dialer.Run has returned and main's deferred Close closes writeCh ...
Close ==
    /\ pc = "open"
    /\ pc' = "closing"
    /\ UNCHANGED <<file, mig, loop, callers, reader, sweep>>

\* ... and returns when writeLoop has emptied the channel and is done.
CloseDone ==
    /\ pc = "closing"
    /\ queue = <<>>
    /\ writer = "idle"
    /\ pc' = "exited"
    /\ UNCHANGED <<file, mig, loop, callers, reader, sweep>>

\* main returns, or the process is killed anywhere.
Die ==
    /\ pc # "down"
    /\ pc' = "down"
    /\ Gone

-----------------------------------------------------------------------------
Migrate == CreateTables \/ ReadVersion \/ SeedVersion \/ ApplyMigration
           \/ ApplyAgain \/ WriteVersion
Open == Migrate \/ Sweep
WriteLoop == Take \/ RunTx \/ Reply

Next ==
    \/ Start \/ Open \/ WriteLoop \/ Close \/ CloseDone \/ Die
    \/ \E s \in Sessions : Request(s) \/ Enqueue(s) \/ EnqueuePanics(s)
    \/ \E r \in Readers : Query(r) \/ QueryEnds(r)

Spec == Init /\ [][Next]_vars

\* The writer runs; senders blocked on a channel are served in the order they
\* came and waiters of the connection pool are all served in the end, hence the
\* strong fairness.  A query ends: its browser reads, or its stream breaks.
Fairness ==
    /\ WF_vars(Open)
    /\ WF_vars(Take) /\ WF_vars(Reply) /\ SF_vars(RunTx)
    /\ WF_vars(CloseDone)
    /\ \A s \in Sessions : SF_vars(Enqueue(s)) /\ WF_vars(EnqueuePanics(s))
    /\ \A r \in Readers : WF_vars(QueryEnds(r))

FairSpec == Spec /\ Fairness

-----------------------------------------------------------------------------
(* Properties.                                                             *)

\* The type invariant.
TypeOK ==
    /\ tables \subseteq {"v1", "meta"}
    /\ columns \subseteq Migrations
    /\ version \in 0..LastVersion
    /\ status \in [Sessions -> {"absent", "running", "completed", "interrupted"}]
    /\ pc \in {"down", "schema", "meta", "read", "seed", "apply", "version",
               "open", "closing", "exited", "failed"}
    /\ mig \in 0..LastVersion
    /\ queue \in Seq(Sessions)
    /\ Len(queue) <= QueueCap
    /\ writer \in {"idle", "begin", "reply"}
    /\ job \subseteq Sessions
    /\ outcome \in {"ok", "error"}
    /\ call \in [Sessions -> [op : {"start", "finish"}, at : {"idle", "send", "wait"}]]
    /\ reader \in [Readers -> {"idle", "read"}]
    /\ started \subseteq Sessions
    /\ sweep \in {"none", "done", "failed"}
    /\ told \in [Sessions -> {"none", "running", "finished"}]

\* Wherever the process died, the version row never promises a column the
\* schema does not have, and a store that is open has them all (migrate).
SchemaMatchesVersion ==
    /\ version # 0 => 1..(version - 1) \subseteq columns
    /\ Up => version = LastVersion

\* Unless the sweep failed, which Open only logs, a row says "running" only for
\* a session this very process has started: what a dead process left running is
\* settled before the first request (sweepStaleRunning, before
\* go s.writeLoop()), also when an earlier process could not settle it.
NoStaleRunning ==
    Up /\ sweep = "done" => \A s \in Sessions : status[s] = "running" => s \in started

\* What Write reported as done is in the file, across crashes and restarts: a
\* turn reported as started is running, or swept once its process is gone; one
\* reported as finished is never taken for running or interrupted again.
AckedIsDurable ==
    \A s \in Sessions :
        /\ told[s] = "running" => status[s] \in {"running", "interrupted"}
        /\ told[s] = "running" /\ s \in started => status[s] = "running"
        /\ told[s] = "finished" => status[s] \notin {"running", "interrupted"}

\* Every Write returns, or its process is gone: neither a failed operation, nor
\* a full channel, nor readers that hold every connection keep it waiting for
\* good.
WriteSettles ==
    \A s \in Sessions : call[s].at \in {"send", "wait"} ~> call[s].at = "idle"

\* "Every migration must be idempotent (running it again is no error)"
\* (schema.go:38) and "duplicate column ...: the migration has been applied in
\* part; count it as success" (schema.go:124-125): Open never fails on a file
\* that an earlier Open left behind.
MigrationRepeatable == pc # "failed"
=============================================================================
