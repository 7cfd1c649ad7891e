---------------------------- MODULE AgentSession ----------------------------
(***************************************************************************)
(* The client side AgentManager (internal/client/handlers/agent.go) with   *)
(* the two tables it persists to (internal/client/store), for ONE Lujiang  *)
(* session id.  Sessions with different ids share neither map entry, row   *)
(* nor event rows, so one id is the whole story.                           *)
(*                                                                         *)
(* A member of Turns is one call of HandleStart together with the          *)
(* agentSession object it builds and the goroutine consumeEvents it        *)
(* launches; the first turn creates the session, the others continue it    *)
(* (continue_session_id).  A member of Resumes is one call of              *)
(* HandleResume.  Each of these calls owns one yamux stream and registers  *)
(* at most one watcher, so streams and watcher channels carry the name of  *)
(* the call.                                                               *)
(***************************************************************************)
EXTENDS Integers, Sequences, FiniteSets

CONSTANTS Turns,      \* calls of HandleStart
          Resumes,    \* calls of HandleResume
          NoTurn,     \* nil
          BufCap,     \* capacity of a watcher channel (256 in the code)
          EventCap,   \* capacity of sess.Events (256 in the code)
          MaxEvents,  \* bound: events a backend produces in one turn
          MaxSince,   \* bound: last_seq a resuming browser may present
          MaxBreaks,  \* bound: streams whose far end disappears
          MaxCrashes, \* bound: crashes of the client process
          MaxFails    \* bound: transactions SQLite refuses (disk, lock, I/O)

ASSUME ConstantsAssumption ==
    /\ NoTurn \notin Turns
    /\ Turns \cap Resumes = {}
    /\ BufCap \in Nat \ {0}
    /\ EventCap \in Nat \ {0}
    /\ MaxEvents \in Nat
    /\ MaxSince \in Nat
    /\ MaxBreaks \in Nat
    /\ MaxCrashes \in Nat
    /\ MaxFails \in Nat

Streams == Turns \cup Resumes

EventTypes == {"created", "prompt", "running", "backend", "status", "idle"}

\* A proto.AgentEvent.  The idle event HandleResume synthesises has seq 0.
Event == [seq : Nat, turn : Turns \cup {NoTurn}, type : EventTypes]

NoEvent == [seq |-> 0, turn |-> NoTurn, type |-> "created"]
SynthIdle == [seq |-> 0, turn |-> NoTurn, type |-> "idle"]

Statuses == {"none", "running", "completed", "aborted", "interrupted"}

StartPCs == {"idle", "exec", "install", "mark", "respond", "watch",
             "created", "prompt", "running", "spawn", "pump", "done", "failed"}
ResumePCs == {"idle", "lookup", "respond", "replay", "attach", "insert",
              "rereplay", "pump", "synth", "done", "failed", "recovered"}
ConsumerPCs == {"none", "loop", "finish", "idle", "close", "release", "done"}

VARIABLES
    row,        \* the sessions row: exists, ended_at set, status, last_seq
    log,        \* the events rows of the session
    sessions,   \* m.sessions[id]: the registered turn, or nil
    seq,        \* entry.seq
    finished,   \* entries whose finished flag is set
    cancelled,  \* entries whose run context is cancelled
    watchers,   \* entry.watchers
    chan,       \* contents of every watcher channel
    closed,     \* watcher channels that have been closed
    pending,    \* the event emit() has stored and not yet broadcast
    backend,    \* the backend goroutine: none, running, exited, closed
    events,     \* number of events waiting in sess.Events
    result,     \* sess.Result: empty, or the status in it, or taken
    produced,   \* number of events the backend has produced
    pc,         \* where each HandleStart / HandleResume call is
    cpc,        \* where each consumeEvents goroutine is
    view,       \* local variables of each call
    out,        \* event frames written to each stream
    broken,     \* streams whose far end is gone
    breaks,     \* how often that happened
    crashes,    \* crashes of the client so far
    fails,      \* how many transactions have been refused so far
    lost,       \* history: events refused for their number being taken
    failed,     \* history: events whose transaction failed otherwise
    dropped     \* history: streams broadcast skipped for a full channel

store   == <<row, log, fails, lost, failed>>
manager == <<sessions, seq, finished, cancelled, watchers, pending>>
agent   == <<backend, events, result, produced>>
flow    == <<chan, closed, out, dropped>>
ctrl    == <<pc, cpc, view>>
env     == <<broken, breaks, crashes>>
vars    == <<store, manager, agent, flow, ctrl, env>>

-----------------------------------------------------------------------------
\* isContinue and startSeq of HandleStart; since, lastSeq and ended of
\* HandleResume, whose entry is looked up later.
StartLocals(cont, from) ==
    [cont |-> cont, from |-> from, last |-> 0, ended |-> FALSE, entry |-> NoTurn]
ResumeLocals(since, last, ended) ==
    [cont |-> FALSE, from |-> since, last |-> last, ended |-> ended, entry |-> NoTurn]

Init ==
    /\ row = [exists |-> FALSE, ended |-> FALSE, status |-> "none", lastSeq |-> 0]
    /\ log = {}
    /\ fails = 0
    /\ lost = {}
    /\ failed = {}
    /\ sessions = NoTurn
    /\ seq = [t \in Turns |-> 0]
    /\ finished = {}
    /\ cancelled = {}
    /\ watchers = [t \in Turns |-> {}]
    /\ pending = [t \in Turns |-> NoEvent]
    /\ backend = [t \in Turns |-> "none"]
    /\ events = [t \in Turns |-> 0]
    /\ result = [t \in Turns |-> "empty"]
    /\ produced = [t \in Turns |-> 0]
    /\ chan = [s \in Streams |-> <<>>]
    /\ closed = {}
    /\ out = [s \in Streams |-> <<>>]
    /\ dropped = {}
    /\ pc = [s \in Streams |-> "idle"]
    /\ cpc = [t \in Turns |-> "none"]
    /\ view = [s \in Streams |-> StartLocals(FALSE, 0)]
    /\ broken = {}
    /\ breaks = 0
    /\ crashes = 0

Goto(s, l) == pc' = [pc EXCEPT ![s] = l]
CGoto(t, l) == cpc' = [cpc EXCEPT ![t] = l]

-----------------------------------------------------------------------------
(* emit(entry, ev), in the two steps other goroutines can come between:    *)
(* number and store the event, then hand it to the watchers.               *)

\* The primary key (session_id, seq) holds this number already.
Taken(e) == \E f \in log : f.seq = e.seq

\* A transaction fails for a reason of its own: a full disk, a busy database.
Refused == fails < MaxFails /\ fails' = fails + 1

\* A statement about the sessions row whose error the caller ignores or logs.
WriteRow(r) ==
    \/ row' = r /\ UNCHANGED fails
    \/ Refused /\ UNCHANGED row

\* Mutant: last_seq is updated although the insert was refused.
AppendEventNoTx(e) ==
    /\ row' = [row EXCEPT !.lastSeq = e.seq]
    /\ UNCHANGED <<fails, failed>>
    /\ IF Taken(e) THEN lost' = lost \cup {e} /\ UNCHANGED log
                   ELSE log' = log \cup {e} /\ UNCHANGED lost

\* Store.AppendEvent: one transaction inserts the event and advances last_seq,
\* or does neither, and emit ignores its error.  The insert is refused when the
\* number is taken and when there is no sessions row to refer to.
AppendEvent(e) ==
    \/ /\ Taken(e)
       /\ lost' = lost \cup {e}
       /\ UNCHANGED <<row, log, fails, failed>>
    \/ /\ ~Taken(e)
       /\ row.exists
       /\ log' = log \cup {e}
       /\ row' = [row EXCEPT !.lastSeq = e.seq]
       /\ UNCHANGED <<fails, lost, failed>>
    \/ /\ ~Taken(e)
       /\ Refused \/ (~row.exists /\ UNCHANGED fails)
       /\ failed' = failed \cup {e}
       /\ UNCHANGED <<row, log, lost>>

Emit(t, type) ==
    LET e == [seq |-> seq[t] + 1, turn |-> t, type |-> type]
    IN /\ pending[t] = NoEvent
       /\ seq' = [seq EXCEPT ![t] = @ + 1]
       /\ AppendEvent(e)
       /\ pending' = [pending EXCEPT ![t] = e]
       /\ UNCHANGED <<sessions, finished, cancelled, watchers>>

\* broadcast: a non-blocking send to every watcher, dropping on a full buffer.
Broadcast(t) ==
    LET full == {s \in watchers[t] : Len(chan[s]) >= BufCap}
        e == pending[t]
    IN /\ e # NoEvent
       /\ pending' = [pending EXCEPT ![t] = NoEvent]
       /\ chan' = [s \in Streams |-> IF s \in watchers[t] \ full
                                     THEN Append(chan[s], e) ELSE chan[s]]
       /\ dropped' = dropped \cup full
       /\ UNCHANGED <<store, sessions, seq, finished, cancelled, watchers,
                      agent, closed, out, ctrl, env>>

-----------------------------------------------------------------------------
(* HandleStart                                                             *)

\* A request without continue_session_id: a fresh id, numbering from 0.
StartNew(t) ==
    /\ \A s \in Turns : pc[s] = "idle"
    /\ Goto(t, "exec")
    /\ view' = [view EXCEPT ![t] = StartLocals(FALSE, 0)]
    /\ UNCHANGED <<store, manager, agent, flow, cpc, env>>

\* A request that continues the session: SessionInfo must find the row, and
\* last_seq becomes the number the new entry counts on from.
StartContinue(t) ==
    /\ pc[t] = "idle"
    /\ row.exists
    /\ Goto(t, "exec")
    /\ view' = [view EXCEPT ![t] = StartLocals(TRUE, row.lastSeq)]
    /\ UNCHANGED <<store, manager, agent, flow, cpc, env>>

\* backend.Execute starts the CLI ...
StartExecute(t) ==
    /\ pc[t] = "exec"
    /\ Goto(t, "install")
    /\ backend' = [backend EXCEPT ![t] = "running"]
    /\ UNCHANGED <<store, manager, events, result, produced, flow, cpc, view, env>>

\* ... or fails, and the handler answers with an AgentError.
StartExecuteFails(t) ==
    /\ pc[t] = "exec"
    /\ Goto(t, "failed")
    /\ UNCHANGED <<store, manager, agent, flow, cpc, view, env>>

\* Under m.mu: a registered predecessor is removed and its run cancelled,
\* then the new entry takes its place.
StartInstall(t) ==
    /\ pc[t] = "install"
    /\ Goto(t, "mark")
    /\ sessions' = t
    /\ cancelled' = IF sessions = NoTurn THEN cancelled ELSE cancelled \cup {sessions}
    /\ seq' = [seq EXCEPT ![t] = view[t].from]
    /\ UNCHANGED <<store, finished, watchers, pending, agent, flow, cpc, view, env>>

\* CreateSession for a new session, MarkSessionRunning for a continued one; the
\* error is ignored.
StartMark(t) ==
    /\ pc[t] = "mark"
    /\ Goto(t, "respond")
    /\ WriteRow(IF view[t].cont
                THEN [row EXCEPT !.ended = FALSE, !.status = "running"]
                ELSE [exists |-> TRUE, ended |-> FALSE, status |-> "none", lastSeq |-> 0])
    /\ UNCHANGED <<log, lost, failed, manager, agent, flow, cpc, view, env>>

\* Mutant: release by id, whichever entry is registered.
ReleaseById(t) ==
    /\ sessions' = NoTurn
    /\ cancelled' = cancelled \cup {t}
    /\ UNCHANGED <<seq, finished, watchers, pending>>

\* m.release(id, entry): only the registered entry is taken out of the map.
Release(t) ==
    /\ sessions' = IF sessions = t THEN NoTurn ELSE sessions
    /\ cancelled' = cancelled \cup {t}
    /\ UNCHANGED <<seq, finished, watchers, pending>>

\* Mutant: the opening events are emitted before a watcher is registered.
StartRespondThenEmit(t) ==
    /\ pc[t] = "respond"
    /\ t \notin broken
    /\ Goto(t, IF view[t].cont THEN "prompt" ELSE "created")
    /\ UNCHANGED <<store, manager, agent, flow, cpc, view, env>>

StartRespond(t) ==
    /\ pc[t] = "respond"
    /\ t \notin broken
    /\ Goto(t, "watch")
    /\ UNCHANGED <<store, manager, agent, flow, cpc, view, env>>

\* The response cannot be written: the entry is released, no consumer starts.
StartRespondFails(t) ==
    /\ pc[t] = "respond"
    /\ t \in broken
    /\ Goto(t, "failed")
    /\ Release(t)
    /\ UNCHANGED <<store, agent, flow, cpc, view, env>>

\* addWatcher(256), before the first emit.
StartWatch(t) ==
    /\ pc[t] = "watch"
    /\ Goto(t, IF view[t].cont THEN "prompt" ELSE "created")
    /\ watchers' = IF t \in finished THEN watchers
                   ELSE [watchers EXCEPT ![t] = @ \cup {t}]
    /\ UNCHANGED <<store, sessions, seq, finished, cancelled, pending,
                   agent, flow, cpc, view, env>>

\* The opening events: created and prompt, or prompt and status=running.
StartEmit(t) ==
    /\ pc[t] \in {"created", "prompt", "running"}
    /\ Emit(t, pc[t])
    /\ Goto(t, CASE pc[t] = "created" -> "prompt"
                 [] pc[t] = "prompt" /\ view[t].cont -> "running"
                 [] OTHER -> "spawn")
    /\ UNCHANGED <<agent, flow, cpc, view, env>>

\* go m.consumeEvents(entry, sess)
StartConsumer(t) ==
    /\ pc[t] = "spawn"
    /\ pending[t] = NoEvent
    /\ Goto(t, "pump")
    /\ CGoto(t, "loop")
    /\ UNCHANGED <<store, manager, agent, flow, view, env>>

-----------------------------------------------------------------------------
(* The loop from watcher channel to stream, shared by both handlers, with  *)
(* the deferred removeWatcher of the caller.                               *)

RemoveWatcher(s) ==
    watchers' = [t \in Turns |-> watchers[t] \ {s}]

PumpFrame(s) ==
    /\ pc[s] = "pump"
    /\ chan[s] # <<>>
    /\ s \notin broken
    /\ chan' = [chan EXCEPT ![s] = Tail(@)]
    /\ out' = [out EXCEPT ![s] = Append(@, Head(chan[s]))]
    /\ UNCHANGED <<store, manager, agent, closed, dropped, ctrl, env>>

PumpWriteFails(s) ==
    /\ pc[s] = "pump"
    /\ chan[s] # <<>>
    /\ s \in broken
    /\ Goto(s, "failed")
    /\ chan' = [chan EXCEPT ![s] = <<>>]
    /\ RemoveWatcher(s)
    /\ UNCHANGED <<store, sessions, seq, finished, cancelled, pending, agent,
                   closed, out, dropped, cpc, view, env>>

\* The channel is closed and drained: the range loop ends.
PumpEnds(s) ==
    /\ pc[s] = "pump"
    /\ chan[s] = <<>>
    /\ s \in closed
    /\ Goto(s, "done")
    /\ RemoveWatcher(s)
    /\ UNCHANGED <<store, sessions, seq, finished, cancelled, pending, agent,
                   flow, cpc, view, env>>

-----------------------------------------------------------------------------
(* The backend goroutine behind sess.Events and sess.Result.               *)

\* trySend: dropped when the channel is full.
BackendEvent(t) ==
    /\ backend[t] = "running"
    /\ produced[t] < MaxEvents
    /\ produced' = [produced EXCEPT ![t] = @ + 1]
    /\ events' = [events EXCEPT ![t] = IF @ < EventCap THEN @ + 1 ELSE @]
    /\ UNCHANGED <<store, manager, backend, result, flow, ctrl, env>>

\* The process is gone: the single Result is sent (the channel has room).
BackendExit(t) ==
    /\ backend[t] = "running"
    /\ backend' = [backend EXCEPT ![t] = "exited"]
    /\ result' = [result EXCEPT ![t] = IF t \in cancelled THEN "aborted" ELSE "completed"]
    /\ UNCHANGED <<store, manager, events, produced, flow, ctrl, env>>

\* The deferred closes of both channels.
BackendClose(t) ==
    /\ backend[t] = "exited"
    /\ backend' = [backend EXCEPT ![t] = "closed"]
    /\ UNCHANGED <<store, manager, events, result, produced, flow, ctrl, env>>

-----------------------------------------------------------------------------
(* consumeEvents: a select over both channels, any ready case may be taken *)

AtLoop(t) == cpc[t] = "loop" /\ pending[t] = NoEvent

\* Mutant: the select is taken as if an event were always there.
ConsumeEventUnguarded(t) ==
    /\ AtLoop(t)
    /\ events' = [events EXCEPT ![t] = @ - 1]
    /\ Emit(t, "backend")
    /\ UNCHANGED <<backend, result, produced, flow, ctrl, env>>

ConsumeEvent(t) ==
    /\ AtLoop(t)
    /\ events[t] > 0
    /\ events' = [events EXCEPT ![t] = @ - 1]
    /\ Emit(t, "backend")
    /\ UNCHANGED <<backend, result, produced, flow, ctrl, env>>

ConsumeResult(t) ==
    /\ AtLoop(t)
    /\ result[t] \in {"completed", "aborted"}
    /\ Emit(t, "status")
    /\ CGoto(t, "finish")
    /\ UNCHANGED <<agent, flow, pc, view, env>>

\* FinishSession, after the status event has been broadcast; the error is
\* ignored, and without a row the update touches none.
ConsumeFinish(t) ==
    /\ cpc[t] = "finish"
    /\ pending[t] = NoEvent
    /\ WriteRow(IF row.exists THEN [row EXCEPT !.ended = TRUE, !.status = result[t]] ELSE row)
    /\ result' = [result EXCEPT ![t] = "taken"]
    /\ CGoto(t, "loop")
    /\ UNCHANGED <<log, lost, failed, manager, backend, events, produced, flow,
                   pc, view, env>>

\* Events is closed and empty: emit session.idle.
ConsumeClosed(t) ==
    /\ AtLoop(t)
    /\ backend[t] = "closed"
    /\ events[t] = 0
    /\ Emit(t, "idle")
    /\ CGoto(t, "idle")
    /\ UNCHANGED <<agent, flow, pc, view, env>>

SetFinished(t) ==
    /\ cpc[t] = "idle"
    /\ pending[t] = NoEvent
    /\ finished' = finished \cup {t}
    /\ CGoto(t, "close")
    /\ UNCHANGED <<store, sessions, seq, cancelled, watchers, pending,
                   agent, flow, pc, view, env>>

\* Mutant: the channels are closed and stay in the map.
CloseAllKeepsWatchers(t) ==
    /\ cpc[t] = "close"
    /\ closed' = closed \cup watchers[t]
    /\ CGoto(t, "release")
    /\ UNCHANGED <<store, manager, agent, chan, out, dropped, pc, view, env>>

\* Mutant: the channels leave the map without being closed.
CloseAllForgetsClose(t) ==
    /\ cpc[t] = "close"
    /\ watchers' = [watchers EXCEPT ![t] = {}]
    /\ CGoto(t, "release")
    /\ UNCHANGED <<store, sessions, seq, finished, cancelled, pending,
                   agent, flow, pc, view, env>>

CloseAllWatchers(t) ==
    /\ cpc[t] = "close"
    /\ closed' = closed \cup watchers[t]
    /\ watchers' = [watchers EXCEPT ![t] = {}]
    /\ CGoto(t, "release")
    /\ UNCHANGED <<store, sessions, seq, finished, cancelled, pending,
                   agent, chan, out, dropped, pc, view, env>>

ConsumeRelease(t) ==
    /\ cpc[t] = "release"
    /\ Release(t)
    /\ CGoto(t, "done")
    /\ UNCHANGED <<store, agent, flow, pc, view, env>>

-----------------------------------------------------------------------------
(* HandleResume                                                            *)

\* SessionInfo: the row must exist; ended and last_seq are remembered.  A
\* browser presents the number of an event it has seen, or 0.
ResumeInfo(r, since) ==
    /\ pc[r] = "idle"
    /\ row.exists
    /\ since \in {0} \cup UNION {1..seq[t] : t \in Turns}
    /\ Goto(r, "lookup")
    /\ view' = [view EXCEPT ![r] = ResumeLocals(since, row.lastSeq, row.ended)]
    /\ UNCHANGED <<store, manager, agent, flow, cpc, env>>

ResumeLookup(r) ==
    /\ pc[r] = "lookup"
    /\ Goto(r, "respond")
    /\ view' = [view EXCEPT ![r].entry = sessions]
    /\ UNCHANGED <<store, manager, agent, flow, cpc, env>>

ResumeRespond(r) ==
    /\ pc[r] = "respond"
    /\ Goto(r, IF r \in broken THEN "failed" ELSE "replay")
    /\ UNCHANGED <<store, manager, agent, flow, cpc, view, env>>

\* The rows ReplayEvents(since) reads.  The query is one read transaction:
\* the rows are those of a single moment ...
Rows(since) == {e \in log : e.seq > since}

\* How many of the rows E come before row e by number.
Before(E, e) == Cardinality({f \in E : f.seq < e.seq})

\* Mutant: the rows come with the latest first.
ReplayLatestFirst(since) ==
    LET E == Rows(since)
        n == Cardinality(E)
    IN [i \in 1..n |-> CHOOSE e \in E : Before(E, e) = n - i]

\* ... in the order of their numbers (ORDER BY seq).
Replay(since) ==
    LET E == Rows(since)
    IN [i \in 1..Cardinality(E) |-> CHOOSE e \in E : Before(E, e) = i - 1]

ResumeReplay(r) ==
    /\ pc[r] = "replay"
    /\ IF r \in broken
       THEN /\ Goto(r, "failed")
            /\ UNCHANGED out
       ELSE /\ out' = [out EXCEPT ![r] = @ \o Replay(view[r].from)]
            /\ Goto(r, CASE view[r].entry # NoTurn /\ ~view[r].ended -> "attach"
                         [] view[r].ended -> "synth"
                         [] OTHER -> "done")
    /\ UNCHANGED <<store, manager, agent, chan, closed, dropped, cpc, view, env>>

\* Mutant: no second replay when the session has finished meanwhile.
ResumeAttachNoReplay(r) ==
    /\ pc[r] = "attach"
    /\ Goto(r, IF view[r].entry \in finished THEN "recovered" ELSE "insert")
    /\ UNCHANGED <<store, manager, agent, flow, cpc, view, env>>

\* addWatcher's first look at finished, without the lock.
ResumeAttach(r) ==
    /\ pc[r] = "attach"
    /\ Goto(r, IF view[r].entry \in finished THEN "rereplay" ELSE "insert")
    /\ UNCHANGED <<store, manager, agent, flow, cpc, view, env>>

\* Mutant: the insert without the second look at finished.
ResumeInsertUnchecked(r) ==
    /\ pc[r] = "insert"
    /\ Goto(r, "pump")
    /\ watchers' = [watchers EXCEPT ![view[r].entry] = @ \cup {r}]
    /\ UNCHANGED <<store, sessions, seq, finished, cancelled, pending,
                   agent, flow, cpc, view, env>>

\* addWatcher under watchersMu: the flag is read again before the insert.
ResumeInsert(r) ==
    /\ pc[r] = "insert"
    /\ IF view[r].entry \in finished
       THEN /\ Goto(r, "rereplay")
            /\ UNCHANGED watchers
       ELSE /\ Goto(r, "pump")
            /\ watchers' = [watchers EXCEPT ![view[r].entry] = @ \cup {r}]
    /\ UNCHANGED <<store, sessions, seq, finished, cancelled, pending,
                   agent, flow, cpc, view, env>>

\* The session ended during the replay: replay again from last_seq.
ResumeRereplay(r) ==
    /\ pc[r] = "rereplay"
    /\ out' = IF r \in broken THEN out
              ELSE [out EXCEPT ![r] = @ \o Replay(view[r].last)]
    /\ Goto(r, IF r \in broken THEN "failed" ELSE "recovered")
    /\ UNCHANGED <<store, manager, agent, chan, closed, dropped, cpc, view, env>>

\* An ended session: a session.idle that is not stored closes the stream.
ResumeSynthIdle(r) ==
    /\ pc[r] = "synth"
    /\ out' = IF r \in broken THEN out ELSE [out EXCEPT ![r] = Append(@, SynthIdle)]
    /\ Goto(r, "done")
    /\ UNCHANGED <<store, manager, agent, chan, closed, dropped, cpc, view, env>>

-----------------------------------------------------------------------------
(* HandleInterrupt, and what the environment does to the client.           *)

Interrupt ==
    /\ sessions # NoTurn
    /\ sessions \notin cancelled
    /\ cancelled' = cancelled \cup {sessions}
    /\ UNCHANGED <<store, sessions, seq, finished, watchers, pending,
                   agent, flow, ctrl, env>>

Over == {"idle", "done", "failed", "recovered"}

\* The browser, the server or the tunnel is gone: later writes fail.
BreakStream(s) ==
    /\ pc[s] \notin Over
    /\ s \notin broken
    /\ breaks < MaxBreaks
    /\ breaks' = breaks + 1
    /\ broken' = broken \cup {s}
    /\ UNCHANGED <<store, manager, agent, flow, ctrl, crashes>>

\* Nothing is under way and the row, if there is one, says ended.
Settled ==
    /\ \A s \in Streams : pc[s] \in Over
    /\ \A t \in Turns : cpc[t] \in {"none", "done"}
    /\ row.exists => row.ended

\* The process dies with everything in memory and is started again: Open runs
\* sweepStaleRunning before anything else touches the store (a sweep that
\* fails is only logged).  What the dead calls had in their variables is
\* forgotten; what the browsers got stays.
\* A crash of a settled process would only use up the bound.
Crash ==
    /\ crashes < MaxCrashes
    /\ ~Settled
    /\ crashes' = crashes + 1
    /\ WriteRow(IF row.exists /\ (~row.ended \/ row.status = "running")
                THEN [row EXCEPT !.ended = TRUE, !.status = "interrupted"] ELSE row)
    /\ sessions' = NoTurn
    /\ pc' = [s \in Streams |-> IF pc[s] \in Over THEN pc[s] ELSE "failed"]
    /\ broken' = broken \cup {s \in Streams : pc[s] \notin Over}
    /\ cpc' = [t \in Turns |-> IF cpc[t] = "none" THEN "none" ELSE "done"]
    /\ backend' = [t \in Turns |-> IF backend[t] = "none" THEN "none" ELSE "closed"]
    /\ cancelled' = {t \in Turns : backend[t] # "none"}
    /\ finished' = {t \in Turns : cpc[t] # "none"}
    /\ pending' = [t \in Turns |-> NoEvent]
    /\ watchers' = [t \in Turns |-> {}]
    /\ chan' = [s \in Streams |-> <<>>]
    /\ events' = [t \in Turns |-> 0]
    /\ result' = [t \in Turns |-> IF backend[t] = "none" THEN "empty" ELSE "taken"]
    /\ UNCHANGED <<log, lost, failed, seq, produced, closed, out, dropped, view, breaks>>

-----------------------------------------------------------------------------
HandleStart(t) ==
    \/ StartNew(t) \/ StartContinue(t)
    \/ StartExecute(t) \/ StartExecuteFails(t)
    \/ StartInstall(t) \/ StartMark(t)
    \/ StartRespond(t) \/ StartRespondFails(t)
    \/ StartWatch(t) \/ StartEmit(t) \/ StartConsumer(t)

Pump(s) == PumpFrame(s) \/ PumpWriteFails(s) \/ PumpEnds(s)

Backend(t) == BackendEvent(t) \/ BackendExit(t) \/ BackendClose(t)

ConsumeEvents(t) ==
    \/ ConsumeEvent(t) \/ ConsumeResult(t) \/ ConsumeFinish(t) \/ ConsumeClosed(t)
    \/ SetFinished(t) \/ CloseAllWatchers(t) \/ ConsumeRelease(t)

ResumeSteps(r) ==
    \/ ResumeLookup(r) \/ ResumeRespond(r) \/ ResumeReplay(r) \/ ResumeAttach(r)
    \/ ResumeInsert(r) \/ ResumeRereplay(r) \/ ResumeSynthIdle(r)

HandleResume(r) ==
    \/ \E since \in 0..MaxSince : ResumeInfo(r, since)
    \/ ResumeSteps(r)

Next ==
    \/ \E t \in Turns : HandleStart(t) \/ Broadcast(t) \/ Backend(t) \/ ConsumeEvents(t)
    \/ \E r \in Resumes : HandleResume(r)
    \/ \E s \in Streams : Pump(s) \/ BreakStream(s)
    \/ Interrupt
    \/ Crash

Spec == Init /\ [][Next]_vars

\* The scheduler runs every goroutine that can move, and the far end of a
\* stream reads what is written.  Nothing makes the browser send a request and
\* nothing makes a backend process exit, except the cancellation of its run:
\* exec.CommandContext kills it, cmd.WaitDelay being the backstop.
Fairness ==
    /\ \A t \in Turns :
        /\ WF_vars(Broadcast(t))
        /\ WF_vars(ConsumeEvents(t))
        /\ WF_vars(BackendClose(t))
        /\ WF_vars(t \in cancelled /\ BackendExit(t))
        /\ WF_vars(HandleStart(t) /\ pc[t] # "idle")
    /\ \A r \in Resumes : WF_vars(ResumeSteps(r))
    /\ \A s \in Streams : WF_vars(Pump(s))

FairSpec == Spec /\ Fairness

-----------------------------------------------------------------------------
(* Properties.                                                             *)

\* The type invariant.
TypeOK ==
    /\ row \in [exists : BOOLEAN, ended : BOOLEAN, status : Statuses, lastSeq : Nat]
    /\ log \subseteq Event
    /\ fails \in Nat
    /\ lost \subseteq Event
    /\ failed \subseteq Event
    /\ sessions \in Turns \cup {NoTurn}
    /\ seq \in [Turns -> Nat]
    /\ finished \subseteq Turns
    /\ cancelled \subseteq Turns
    /\ watchers \in [Turns -> SUBSET Streams]
    /\ pending \in [Turns -> Event]
    /\ backend \in [Turns -> {"none", "running", "exited", "closed"}]
    /\ events \in [Turns -> Nat]
    /\ result \in [Turns -> {"empty", "completed", "aborted", "taken"}]
    /\ produced \in [Turns -> Nat]
    /\ chan \in [Streams -> Seq(Event)]
    /\ closed \subseteq Streams
    /\ out \in [Streams -> Seq(Event)]
    /\ dropped \subseteq Streams
    /\ pc \in [Streams -> StartPCs \cup ResumePCs]
    /\ cpc \in [Turns -> ConsumerPCs]
    /\ view \in [Streams -> [cont : BOOLEAN, from : Nat, last : Nat,
                             ended : BOOLEAN, entry : Turns \cup {NoTurn}]]
    /\ broken \subseteq Streams
    /\ breaks \in Nat
    /\ crashes \in Nat

\* An event bears the number.
Numbered(n, E) == \E e \in E : e.seq = n

\* The number n and all below it are borne by events of E.
Accounted(n, E) == \A m \in 1..n : Numbered(m, E)

\* No number is stored twice, although two entries of one session may be
\* emitting at once during a takeover; a hole below a stored event is the number
\* of an event whose transaction failed, nothing else; and last_seq names a
\* stored event (emit, AppendEvent).
HolesAreFailures ==
    /\ \A e, f \in log : e.seq = f.seq => e = f
    /\ \A e \in log : e.seq # 0 /\ Accounted(e.seq, log \cup failed)
    /\ row.lastSeq = 0 \/ Numbered(row.lastSeq, log)

\* The store of the session implements the append-only log: a step leaves the
\* stored events alone, adds one under a number none of them has, or fails to
\* (AppendEvent, CreateSession, MarkSessionRunning, FinishSession,
\* sweepStaleRunning).
Store == INSTANCE DurableLog WITH entries <- log, last <- row.lastSeq

StoreImplementsLog == Store!Spec

\* A backend process whose handler has registered it is either the one the
\* session map names, which an interrupt or a permission reply can reach, or
\* already cancelled: a takeover leaves no process running that nobody can
\* stop, and a late release of the old entry does not unhook the new one
\* (HandleStart's takeover, release).
NoOrphanBackend ==
    \A t \in Turns :
        backend[t] = "running" /\ pc[t] # "install" => sessions = t \/ t \in cancelled

\* Once an entry has closed its watchers nobody is ever attached to it again:
\* such a watcher would wait for a close that never comes (addWatcher's second
\* look at finished under the lock).
NoOrphanWatcher ==
    \A t \in Turns : cpc[t] \in {"release", "done"} => watchers[t] = {}

\* broadcast never sends on a closed channel, which would panic and take every
\* session of the client down (closeAllWatchers deletes what it closes).
NoSendOnClosed ==
    \A t \in Turns : watchers[t] \cap closed = {}

\* The numbers of the events a stream was given or is about to be given.
Delivered(s) == out[s] \o chan[s]

\* The browser that started a turn, as long as it reads fast enough, gets every
\* event of the turn exactly once and in order, the opening ones included
\* (HandleStart registers the watcher before it emits).
StartStreamFaithful ==
    \A t \in Turns :
        /\ t \notin broken
        /\ t \notin dropped
        /\ pc[t] \in {"created", "prompt", "running", "spawn", "pump", "done"}
        => LET emitted == seq[t] - (IF pending[t] = NoEvent THEN 0 ELSE 1)
           IN /\ Len(Delivered(t)) = emitted - view[t].from
              /\ \A i \in DOMAIN Delivered(t) :
                    /\ Delivered(t)[i].seq = view[t].from + i
                    /\ Delivered(t)[i].turn = t

\* A stored event whose number no failed transaction had before it.  Where one
\* had, a row can come in below rows that are already there, when a takeover
\* counts on from an old last_seq; such late rows are what the next two exempt.
InOrder(e) == e \in log /\ ~Numbered(e.seq, failed)

\* A resume that found its session finishing under it still hands over every
\* stored event of that turn the browser had not seen (the second
\* ReplayEvents of HandleResume).
ResumeReplayComplete ==
    \A r \in Resumes :
        pc[r] = "recovered" =>
            \A e \in log : InOrder(e) /\ e.turn = view[r].entry /\ e.seq > view[r].from
                           => \E i \in DOMAIN out[r] : out[r][i] = e

\* The browser's rule for overlaps (drop what is numbered no higher than
\* something already shown) loses no stored event it did not have when it
\* asked: such an event that comes late has come before, also when a takeover
\* leaves two entries emitting (HandleResume's two replays and the tail; "the UI
\* drops the occasional overlap", agent.go:394).
DedupeLosesNothing ==
    \A r \in Resumes : \A i, j \in DOMAIN Delivered(r) :
        /\ i < j
        /\ InOrder(Delivered(r)[j])
        /\ view[r].from < Delivered(r)[j].seq
        /\ Delivered(r)[j].seq <= Delivered(r)[i].seq
        => \E k \in 1..j - 1 : Delivered(r)[k] = Delivered(r)[j]

\* A cancelled turn whose consumer runs comes to its end: idle is emitted and
\* every stream attached to it is released (consumeEvents, closeAllWatchers).
CancelledTurnEnds ==
    \A t \in Turns : \A s \in Streams :
        (cpc[t] \notin {"none", "done"} /\ t \in cancelled /\ s \in watchers[t])
            ~> pc[s] \in {"done", "failed"}

\* "the front end's resume replays by last_seq" (agent.go:295) and "a new WS
\* gets the history and tails the new events" (agent.go:28): what was
\* delivered has no hole below the last event.
ResumeHasNoGap ==
    \A r \in Resumes :
        pc[r] = "pump" /\ r \notin dropped =>
            \A i \in DOMAIN Delivered(r) : \A e \in log :
                e.turn = view[r].entry /\ view[r].from < e.seq
                /\ e.seq < Delivered(r)[i].seq
                => \E j \in DOMAIN Delivered(r) : Delivered(r)[j] = e

\* "ended_at > 0 says the session has ended by itself, no new events will
\* come" (models.go:148), and MarkSessionRunning (models.go:79-81) makes the
\* row of a continued session say so: while the registered turn runs, and
\* before its own end is recorded, the row does not say ended.
LiveTurnNotEnded ==
    row.ended => \A t \in Turns :
        ~(sessions = t /\ pc[t] = "pump" /\ cpc[t] = "loop" /\ result[t] = "empty")

\* "Result is a single shot, Events keep coming until claude exits; go on
\* waiting for Events" (agent.go:379-380): when the consumer is done, the end
\* of the turn has been recorded in the row by FinishSession.
EndIsRecorded ==
    \A t \in Turns : cpc[t] = "done" => row.ended
=============================================================================
