# Lujiang, modelled in TLA+

Lujiang puts a coding agent, a terminal and the files of a machine behind a
browser.  A **server** serves the web pages and accepts one reverse tunnel per
**client** (WebSocket over TLS with yamux on top).  Whatever a browser asks for
becomes a yamux stream to that client, which runs the agent's command line
program, a pseudo terminal or a file operation, and keeps the agent's sessions
in SQLite:

    browser  <--HTTP/WS-->  server  <--WSS + yamux-->  client  --> agent CLI
    project.tsx             web/*.go                   handlers/*.go, PTY, FS
                            tunnel/*.go                store/*.go (SQLite)

This directory holds the TLA+ model of the parts where concurrency, failure
and order matter, the TLC configurations that check small instances, and proofs
for every value of the constants.  `PROJECT.json` is the index: components,
runs, mutants, the source lines of each definition, findings, hazards and
theorems.  The repository has no tests, so the code is the only reference;
comments count as statements about it.

## 1. Inventory

| component | state it keeps | operations | what makes it correct |
|---|---|---|---|
| agent manager (`internal/client/handlers/agent.go`) | `sessions` (id -> entry), per entry `seq`, `watchers`, `finished`, the backend's `Events`/`Result` channels | HandleStart, HandleResume, HandleInterrupt, HandlePermissionReply, consumeEvents, emit, broadcast, release | each number stored once, a hole only where a transaction failed; no process outside the map; nobody left attached to a finished turn; no send on a closed channel; replay and tail fit together; a cancelled turn ends |
| session and event rows (`store/models.go`) | `sessions`, `events` tables | CreateSession, MarkSessionRunning, FinishSession, AppendEvent, ReplayEvents | append-only; the row agrees with the turn that runs |
| client store (`store/store.go`, `schema.go`) | the file, `writeCh`, the writer goroutine, 8 connections | Open (migrate, sweep), Write, Query, Close | the version is honest; nothing "running" in a process that did not start it, unless its sweep failed; what was reported done is durable; every accepted write is answered |
| dialer (`client/dial/dialer.go`) | backoff, the present connection | Run, runOnce, register | recovers from every loss |
| tunnel handler, registry (`server/tunnel`) | `clients` (id -> yamux session) | ServeHTTP, readRegister, Register, Unregister, Lookup | the registry names connections somebody serves; a connected client is listed |
| request routing (`server/web/fs.go`, `client/handlers/registry.go`) | none of its own | lookup, open stream, answer | every request settles |
| agent adapters (`internal/agent/{claude,gemini,cursor,copilot,opencode_adapter}.go`) | process, pipes, context, the status of the turn, `Result` and `Events` | Execute, scan loop, context watcher, cmd.Wait with WaitDelay, the deferred closes, Interrupt | one `Result`, told before the channels close; "completed" only if true; nothing left of the run; it ends, and ends when it is cancelled |
| claude permissions (`claude.go`) | `respCh` | handleControlRequest, RespondPermission | a decision is the answer to the request it was given for; an interrupt always ends the wait |
| codex backend (`agent/codex.go`) | process; behind the error of line 56 a request table nothing reaches | Execute, which fails | a start that fails leaves nothing behind |
| permission path (`project.tsx`, `session.go`, `agent.go`, `claude.go`) | docks, `replied`, `respCh` | request, dock, reply, forward, take | as above, over all four hops |
| session bridge (`server/web/session.go`) | one WS and one stream | pump events, pump control, close codes | the close code tells the page whether to resume |
| project page (`web/src/pages/project.tsx`) | session id, last seq, sockets, timers, docks | startSession, openSession, resumeSession, replyPermission | an old socket never touches the new one; nothing shown twice, nothing missing that was sent; it learns how a turn ended |
| terminals (`web/src/components/terminal.tsx`, `server/web/pty.go`, `client/handlers/pty.go`, `client/winpty`) | socket and size timer of the view; two pumps; the map of ptys, a stdin goroutine; the tty or the Windows pipes, flag and process handle | create, input, output, resize, close; Close and Wait by two callers | released completely whoever ends first; all output before the end; the last size wins; an abandoned terminal goes away |
| arguments, environment, shell detection | none | parsing | input by input |
| web authentication (`server/web/auth.go`) | none (signed cookie) | login, verify | expiry |
| framing (`internal/proto`) | none | length prefix, header | round trip, size limit |
| file handlers, configuration, other pages, editor | none of the program's own | one call each | - |

How they interact.  The page opens a WebSocket for one agent session; the bridge
opens a yamux stream through the registry and copies in both directions.  On
the client `HandleStart` or `HandleResume` runs on that stream's goroutine,
shares the entry with `consumeEvents` (one goroutine per turn) and with any other
stream of the same session, and sends every event through the writer goroutine
of the store before it is broadcast to the watchers' channels.  A permission
request travels up as an event and its answer comes down as a
`permission.reply` on a *different* request path, into `respCh`.

What is hard, all listed under `hazards` at its line: two turns of one session that overlap
(the page starts the next one while the old process is still dying); resume racing
the end of a turn; events dropped at a full channel; a transaction or a
delivery that fails and is only logged; a half-open connection
whose handler outlives its replacement; a process that dies between two
statements of a migration; a reply that arrives for a request nobody waits for
any more; a CLI that dies, hangs, or leaves a child behind that holds its pipes; a terminal
that is ended by its shell, its page and its tunnel at once.

## 2. Modules

| module | models | extends / uses |
|---|---|---|
| `AgentSession` | one session id on the client: manager, turns, streams, rows | - |
| `DurableLog` | abstract: a log that only grows, whatever crashes or fails | implemented by `AgentSession` |
| `AgentSessionProofs` | theorems about `AgentSession`: its rows, its map of sessions, its watchers | `AgentSession`, `DurableLog` |
| `AgentStreamProofs` | theorems about `AgentSession`: what a browser is sent, and how a turn ends | `AgentSessionProofs` |
| `CliRun` | one run of an agent CLI under each of the six adapters | - |
| `AgentBackend` | abstract: what the manager may expect of a run | implemented by `CliRun` |
| `CliRunProofs` | theorems about `CliRun` | `CliRun`, `AgentBackend` |
| `Tunnel` | dialer, server handler, registry, one request | - |
| `TunnelProofs` | theorems about `Tunnel` | `Tunnel` |
| `PermissionExchange` | one claude run, the pages watching it, the reply path | - |
| `PermissionProofs` | theorems about `PermissionExchange` | `PermissionExchange` |
| `BrowserSession` | one page, its WebSockets and the server handler behind them, over sessions reduced to their logs | - |
| `BrowserSessionProofs` | theorems about `BrowserSession` | `BrowserSession` |
| `StoreLifecycle` | the store from Open to Close or death | - |
| `StoreLifecycleProofs` | theorems about `StoreLifecycle` | `StoreLifecycle` |
| `Terminal` | one terminal from the view to the shell, on Unix and Windows | - |
| `TerminalProofs` | theorems about `Terminal` | `Terminal` |
| `MC*` | model values and symmetry for TLC | the module of the same name |

Every model begins with its constants and their named assumptions, then the
variables, helpers, actions grouped by the goroutine that takes them, the
specification with its fairness, and the properties.  Operators marked
"Mutant" are not part of `Next`: each is the neighbouring definition with
one plausible bug and exists so that every property can be shown to fail.

### AgentSession

The system around one session id.  `Turns` are the calls of `HandleStart`
that name it, `Resumes` the calls of `HandleResume`.

- store: `log` (the `events` rows), `row` (the `sessions` row: existence, status,
  ended, `last_seq`).  `emit` ignores the error of `AppendEvent` (agent.go:278):
  `lost` are the events refused because their number is taken, `failed` those whose
  transaction failed for another reason (disk, lock, no `sessions` row to refer to);
  in both cases the entry's counter has moved on.  The writes of `row` can fail too
  (`WriteRow`), reads cannot.  A failed transaction leaves `last_seq` where it was, and a
  takeover that reads it counts on from there.
- manager: `sessions` (which entry the map names), and by entry `seq`,
  `watchers`, `finished`, `cancelled`, `pending` (the event an `emit` has numbered
  and not yet stored and broadcast: the two halves of `emit` are separate
  steps since another goroutine may run between them).
- agent: `backend`, `events`, `result`, `produced`: the process behind the `Session` value.
- flow: each stream's channel `chan`, `closed` channels, what the browser has
  got (`out`), and `dropped` (a broadcast found its channel full).
- control: `pc` for stream goroutines, `cpc` for `consumeEvents`, `view` for
  what a handler has read and keeps using (last seq, finished, replay bounds).

A stream goroutine does: read the row, start the backend, store the row as
running, release an older entry, install the new one, register its watcher, emit
the opening events, start the consumer, pump.  Each of these is an action,
because each is a point where the lock is not held.

`BackendEvent` and `BackendExit` are what the adapters promise, see `AgentBackend`: any
number of events, an optional end, one `Result`, then both channels closed.  "completed"
stands for completed and failed, which nothing distinguishes downstream.

### DurableLog

A set of events with `Append` and `Fail`.  Whoever appends counts on from numbers given
out before, stored or failed, and uses none that is stored; `last` is the number
of the event stored last.  `AgentSession` implements it with `log`, `failed` and
`row.lastSeq`: `StoreImplementsLog`.  Crashes, takeovers and colliding numbers are
stuttering steps.

### CliRun and AgentBackend

`run` is the goroutine `Execute` starts: it scans stdout (`scan`), waits for the process
(`wait`), then for the copy of stderr, bounded by WaitDelay (`drain`), judges, sends
the `Result` (`told`), closes its channel (`sealed`) and that of the events (`closed`).
A line of output is a class (text, error, ok, bad, long); `Line` says what each adapter
makes of each class, `Judge` what status it gives from exit code, context and result
line.  claude has an input pipe and a goroutine that writes the prompt to it; the
others get it as an argument.  `Cancel` is `Entry.cancel`, `Interrupt` the method of the
same name, which only claude's adapter carries out.  The CLI may keep to its
protocol, crash between any two lines, print one that the scanner refuses, and leave a
process behind that holds stdout or stderr (`holders`).  codex is there as far as it
gets: `Execute` starts the process and fails.

`AgentBackend` is the contract of `agent.Session` as `consumeEvents` relies on it;
`RunImplementsBackend` maps `run` to its phases.

### Terminal

Page (`page`, `size`, the debounce `timer`), socket (`up`, `screen`, `code`), server
(`bridge` for bridgeWSToPTY, `ask` for its RPC, `outPump`), stream (`upStream`,
`downStream`), client (`create` for HandleCreate, `stdin` for its goroutine, `resizer`,
`entry`), pty and shell.  Output and input are counted, not spelled out: every hop is
a queue, so a count says which chunk comes next.  `close` is the program counter of
`PTY.Close` and `PTY.Wait` for each of their two callers, the stdin goroutine and
`release`; on Windows every step of `conPTY.Close` is one of its own, since nothing
guards its flag and its handle.  A shell may leave a background job with the tty
(`holder`), the page may leave with or without a word, the tunnel may be cut at any step.

### Tunnel

`Connections` are created by the dialer one after another; each has a client
side, a network (up, cut) and a server handler.  `Cut` silently breaks the path: neither end is
told, and only the keepalive (yamux, external) of each end ends its
session.  `ServerRestart` empties the registry.  The dialer sleeps with a backoff
between attempts; its duration is a counter doubling to its cap.  One
request at a time is looked up, opened, and answered or lost.

### PermissionExchange

One run of `runLoop`: busy, asking, waiting, ended.  `Browsers` have a dock
and a `replied` set; the reply travels through the bridge to `respCh`
(`RespCap`).  Permission events can be dropped at a full `Events` channel
(`MaxDrops`), a page can be reopened (`MaxReopens`), which empties `replied`
and replays the log.  An answer can get lost behind the page's back: the socket is
not open or `send` throws (`ReplyNotSent`, project.tsx:345-361, where the dock is cleared all
the same), the WebSocket breaks after `send` (`SocketBreaks`), or the bridge
cannot open or write its stream, which is only logged (`DeliveryFails`, session.go:190-238).
`lost` says whose answer to which request it was; `MaxLosses` bounds it.

### BrowserSession

The variables of the page carry the names of project.tsx (`id`, `lastSeq`, `done`, `busy`,
`offline`, `attempts`); `timers` are the pending `setTimeout(resumeSession)`,
which nothing cancels.  `sock` is the current socket, `wire` what is on its way to the page,
`stale` the same for the socket replaced last.  `stream` is the stream
`pumpAgentEventsToWS` reads, with `sawTerminated` as `saw`.  `orphans` are start requests
of sockets the page has given up, which the client may carry out all the same.

A session is its `log` (each event with its turn and its type: event, idle, or an error,
which may come in the middle of a turn), its number of `turns` and whether one is
`live`.  What the single steps of `HandleResume` and `emit` can do to a stream is in
AgentSession; here it is said of the stream.  `AttachResume` chooses what follows the
replay: the tail of the turn, the idle event made up for a row that has ended, nothing (row
not ended and no entry, or a turn that ends before the watcher is added), or a wait for good,
on an entry that `HandleStart` has released with its watchers (`FailedStart`,
agent.go:182-185; the page's stream is then `Forgotten`).  `SkipFrame` is a
number the stream never brings: emitted between replay and `addWatcher`, dropped for
a slow watcher, or of a failed transaction.  `PumpTwice` is one that replay and
tail both bring.  A turn that is taken over may have its last numbers given out again.

`shown` is the timeline; history variables that only properties read are `missed` (numbers
the page was not sent), `reused` (a turn was given numbers the page had already),
`deaf` (an end was taken for a repetition) and `streak`.  Replay and attach are moments
here, with every outcome their steps can have, and some more.  Two limits: a session whose
start failed before its first event cannot be opened, and `SkipFrame` never takes
the opening of a turn from the stream that started it (the channel is empty then).

### StoreLifecycle

The file (`schema_meta` version, columns, session rows, durable effects), the
phase of the process (down, migrating, sweeping, open, closing), the write queue,
writer goroutine, callers and readers with their connections.  `Die` can happen in
every phase and at every step.  A transaction may be
refused, a migration may find its column there, and the sweep may fail, which `Open`
only logs: the store is then opened with the rows a dead process left running.

## 3. Runs

TLC, each run in a few minutes at most.

| run | checks | instance | expects |
|---|---|---|---|
| agent_two_turns | TypeOK, NoOrphanBackend, StartStreamFaithful, StoreImplementsLog | 2 turns, 1 crash, 1 failed transaction of an event | pass |
| agent_resume | NoOrphanWatcher, NoSendOnClosed, ResumeReplayComplete, DedupeLosesNothing | 1 turn, 1 resume, 1 event, 1 break or 1 failed transaction | pass |
| agent_liveness | CancelledTurnEnds | 1 turn, 1 resume, 1 break, fair | pass |
| tunnel | TypeOK, NoGhostEntry, RpcSettles, DialerRecovers, GhostsExpire | 3 connections (1 cut, 1 restart), 1 refused dial, 1 request, fair | pass |
| permission | TypeOK, LoneViewerMatches, InterruptEnds, AnswerUnblocks | 2 pages, 2 requests, 1 reopen, 1 drop, 1 lost answer, fair | pass |
| browser | TypeOK, TimelineOfOneSession, TimelineFaithful, RetriesBounded, BusySettles, EndReachesPage | 2 sessions of 2 turns, 2 clicks, 2 faults, fair | pass |
| store | TypeOK, SchemaMatchesVersion, NoStaleRunning, AckedIsDurable, WriteSettles | 2 sessions, 2 readers, 3 versions, fair | pass |
| terminal | TypeOK, ReleasedIsClean, ExitAfterOutput, SizeFollows, AbandonedIsReleased, ExitIsTold | both platforms, 2 sizes, 1 chunk of output, 2 moves of the user, windows of 1, fair | pass |
| cli | TypeOK, CompletedIsTrue, NothingLeft, RunImplementsBackend, RunSettles | 6 adapters, 3 lines, a banner of 2, a pipe of 1, 2 events, fair | pass |
| agent_gap | ResumeHasNoGap | 1 turn, 1 resume | violation |
| permission_mismatch | ReplyMatchesRequest | 1 page, 2 requests, 1 reopen | violation |
| cli_interrupt | InterruptedIsAborted | 4 adapters, 2 lines | violation |

What the properties say:

- **StoreImplementsLog** - although the two entries of a takeover
  number their events independently from the `last_seq` each has read, no stored row
  is changed or lost, through crashes and failed transactions too; a number is stored once,
  and one that is left out below a row is that of a failed transaction (`HolesAreFailures`).
- **NoOrphanBackend** - a running process is the one in the map or has been cancelled.
- **StartStreamFaithful** - the stream that started a turn is sent exactly that
  turn's events in order, unless its channel overflowed.
- **NoOrphanWatcher, NoSendOnClosed** - the two ways in which `addWatcher` and
  `broadcast` can lose against `closeAllWatchers`.
- **ResumeReplayComplete, DedupeLosesNothing** - what a resumed stream is
  sent: all of the stored events it asked for; removing duplicates by number
  loses none of those, also where a takeover leaves two turns emitting (the run has
  one turn, the theorem any number).  Exempt are late rows (not `InOrder`): where a
  transaction failed, a takeover may give its number out again, below rows that are there.
- **CancelledTurnEnds** - a cancelled turn drains, says idle and lets go of all its
  streams.  An interrupt cancels only claude's turns (finding 3).  The run
  has no backend events; that any number may be queued is `CancelledDescends`.
- **NoGhostEntry, GhostsExpire** - the registry names a connection only while its
  handler serves it, and stale entries disappear.  **RpcSettles**, **DialerRecovers**.
- **LoneViewerMatches** - as long as only one page answers and it is never reopened, each
  decision meets the request it was given for.  **InterruptEnds** - an interrupt ends
  the run, also one that waits for a decision.  **AnswerUnblocks** - an answer ends the wait
  or is one whose delivery failed.
- **TimelineOfOneSession, TimelineFaithful** - the timeline holds events of one session only,
  every number up to `lastSeq` is on it or is one the page was not sent (`missed`), and
  it is in order and without repetitions unless a turn was given numbers the page had
  already (`reused`).  **RetriesBounded** - three resumes that bring nothing, and no
  more; clicks do not give attempts back, although project.tsx:85-86
  says so (`SwitchRestoresRetries`, section 4).  **BusySettles, EndReachesPage** - the page is not busy for
  ever, and it is told the end of a turn or the loss of the connection.  Both except a
  `Forgotten` stream, the second one also a page that took the end for a repetition
  (`deaf`); without these exceptions TLC refutes them.
- **SchemaMatchesVersion, NoStaleRunning, AckedIsDurable, WriteSettles** - the store's
  promises to the rest of the client.  NoStaleRunning is about a process whose own sweep
  succeeded; a failed sweep leaves the rows to the next process.
- **ReleasedIsClean** - a terminal whose handler has returned is out of the map and the
  client's side of its tty closed, however the two Closes met; a Unix shell is dead and
  reaped; a Windows shell is dead or `Wait` gave up on it, and its process handle is given
  back.  Two pipe ends stay open in the client on Windows (`CopiesKept`).  **ExitAfterOutput** - a page that reads "pty exited" has been sent all that
  was printed.  **SizeFollows** - with no resize under way the tty has the size on the
  screen.  **AbandonedIsReleased** - a terminal whose page or tunnel has gone is released,
  unless its input stays unread.  **ExitIsTold** - on Unix the end of a shell reaches the page.
- **CompletedIsTrue** - "completed" means exit code 0, no failure as the last word, and every
  line read.  **NothingLeft** - once the events are closed: process reaped, pipes closed,
  context released.  **RunImplementsBackend** - see `AgentBackend`.  **RunSettles** - a cancelled
  run ends whatever the CLI does; one that is not, if the CLI keeps to its protocol.

Bounds and why they suffice.  Two turns are a takeover; a third one only meets
the entry of the second as the second meets the first's (the proofs cover any number).  One resume and one start are the
two kinds of stream, and `BufCap` 1 makes the drop path happen with the opening
events alone; one backend event more is enough to fall before, between
and after replay and attach.  One crash at every point covers recovery, which keeps nothing but the
rows.  Two connections are needed for a replaced one and a third for the restart; `MaxCuts`,
`MaxRestarts`, `MaxFails`, `MaxLosses` only bound how often the environment strikes.  In
agent_two_turns the transaction that fails is that of a session's second event (constraint
`SecondEventFails`), so that the takeover may count on from below what the first turn has
emitted; agent_resume has a broken stream or a failed transaction of an event in the middle of the
turn, not both (`OneFault`).  Behind a failed write of the `sessions` row neither goes
on: there the theorems, which are about every failure, speak alone.
For the page, two sessions are what it can mix up, two turns give a replay with an idle event
in the middle, two clicks give a start and a change of mind; a fault is a break of the tunnel
or of a WebSocket, a frame that does not come, a failed transaction or start, or an
error in the middle of a turn, and two of them combine any two; one break is enough for
several failed attempts since the client may stay away, and
`MaxResumes` is 1 instead of 3.  Three clicks with one fault pass as well (765,586 states).  For the terminal one chunk of output on every hop of capacity one lets each end overtake or be
overtaken by it, two moves are two resizes or a resize and a key, and both platforms are
taken in one run.  A CLI of three lines can print its banner and its result, or stop
before either; a pipe of one line makes it wait for the scanner.  In the
store a queue of one and two connections make both limits bind; three versions give
a migration before and after the one that breaks.  Runs with `CHECK_DEADLOCK FALSE` are
those where all turns or requests may be over; the store always can be started
again, so there deadlock is checked.

Fairness.  Weak fairness on each step of a goroutine: Go's scheduler runs
what is runnable.  `select` chooses at random, so each ready case gets its turn.  A pump's write is fair: the
far end reads, or the yamux session dies and the write fails.
`BackendExit` is fair only for a cancelled turn (`exec.CommandContext` kills the process,
`WaitDelay` closes its pipes); an agent that is not cancelled may think for ever.  In
the tunnel the two keepalives are fair after a cut and so are dialling and the handler;
the cuts themselves are bounded and not fair.  The page's callbacks and timers run, the server's
handlers too, and the tunnel comes back, as `DialerRecovers` says.  In the store `Enqueue` and `RunTx`
get strong fairness: goroutines blocked on a channel, and those waiting for a connection
of the pool, are served in the order they came; a query ends since its browser reads or the stream
breaks.  In `Terminal` the goroutines, the page's callbacks and a kill are fair; shells, background
jobs, users and the network are not; the Windows console host takes input whatever the shell
does.  In `CliRun` a CLI that keeps its protocol prints its banner, reads its prompt, answers and
finishes; crashes and the processes left behind owe nothing.  Nothing is assumed of users: no property needs a reply, a start or an interrupt to happen.

## 4. Findings

Each is a run that is expected to fail and the line whose promise it refutes.

1. *agent_gap* - an event emitted between the replay and the attach of
   `HandleResume` reaches the resumed stream in neither way (agent.go:437-452).
2. *permission_mismatch* - the first reply in `respCh` is taken whatever its
   request id (claude.go:255); reopening a session makes it possible to answer twice.
3. *cli_interrupt* - `Interrupt` of gemini, cursor, copilot and opencode (gemini.go:155-157, cursor.go:195,
   copilot.go:209, opencode_adapter.go:166) returns nil and relies on a context that
   `HandleInterrupt` (handlers/agent.go:556-571) never cancels: the run goes on to "completed".

More are stated in the modules without a run of their own; TLC refutes each on the instances above, but where
another is named.

- `EndIsRecorded` (AgentSession): the select in `consumeEvents` may see `Events` closed
  before it takes the `Result`, and then the row is never finished (agent.go:364-380).
- `LiveTurnNotEnded` (AgentSession): the old turn's `FinishSession` comes after
  `MarkSessionRunning` of the next, so the row of a running turn says ended (agent.go:377, models.go:148).
- `ExitEndsRun` (PermissionExchange): a CLI that exits while it waits for a decision is not
  noticed until somebody replies or interrupts (claude.go:254, project.tsx:345-346).
- `OnlineIsListed` (Tunnel): the handler of a replaced connection unregisters the
  new connection (handler.go:88, registry.go:30).
- `NormalMeansEnded` (BrowserSession): resuming from the beginning replays the idle events of earlier
  turns, after which the loss of the stream of a live turn is closed as a normal end
  (session.go:135-161); so does an error in the middle of a turn (handlers/agent.go:642-644).
- `SwitchRestoresRetries` (BrowserSession): "reset ... when the user switches the session by hand"
  (project.tsx:85-86): `openSession` leaves the spent attempts as they are, only a shown event
  resets them (project.tsx:97); refuted with three clicks.  project.tsx:19 says that there
  is one automatic resume, the code makes three.
- `MigrationRepeatable` (StoreLifecycle): the branch for a migration that has been applied already
  commits a transaction that was rolled back, so `Open` fails for good (schema.go:119-131).
- `SizeSettles` (Terminal): a size chosen while the socket connects is never sent (terminal.tsx:30).
- `WaitMeansDead` (Terminal): "Wait blocks until the process has ended" (winpty/pty.go:15); on
  Windows it goes on after six seconds, ignores every result and closes the handle (pty_windows.go:161-168).
- `WaitIsSafe` (Terminal): two calls of `Wait` on Windows close the process handle twice (winpty/pty.go:15).
- `ExitedMeansDead` (Terminal): "pty exited" is also said when the tunnel breaks (server/web/pty.go:119).
- `StartedIsServed` (CliRun): codex asks for its stdin pipe after the start, which os/exec refuses, so
  `Execute` always fails, with a process that is killed and not waited for (codex.go:56).

What else the models say of the code, without a line that promises otherwise: a CLI that exits with 0
while a process it left behind holds stderr is reported as failed (ErrWaitDelay); a
line of more than 10 MB stops the reading, and the run hangs until it is cancelled;
cursor's result line overrides its exit code and a cancel; "error" events of cursor and gemini
leave the status at completed; the exit of a Windows shell does not end its output, since
the client keeps the write end of the pipe; a terminal whose input is full for good
(`Jammed`) outlives its page.

## 5. Proofs

All with TLAPS, for every value of the constants that meets the named assumptions of
the module.

- `TypeCorrect`, in the proofs of all seven components: every `TypeOK`.
- `LogHoles` (a number below a row is a row or a failed transaction, `HolesAreFailures`), by
  `LogInvariant`.  It is not inductive alone: an insert is accepted when its number is not in
  the table, so one needs that every number below an entry's counter is accounted for by
  a row or a failure, that the `last_seq` an entry has counted on from was the number of
  a row, and that the opening events and the single `Result` come at fixed program points.
- `StoreRefinesLog`: initial states map to initial states, and each
  step adds one row, fails to, or leaves both sets alone; cites the same invariant.
- `NoBackendIsOrphaned`: needs that an entry out of the map has been
  released, and that releasing cancels.
- `NobodyLeftWatching`, `NoPanicOnBroadcast`: the invariant says that a
  finished entry past `closeAllWatchers` has no watchers, and that a closed
  channel is in no watcher set; `finished` being set under the lock before the
  sweep is what keeps `addWatcher` out.
- `StreamIsFaithful` (`AgentStreamProofs`), by `StreamInv`: the stream of a turn hangs on the
  turn's own entry and on no other, from before the first event until it breaks or is closed,
  which is after the last event has been broadcast; position by position, what has been
  written and what waits in the channel are then the turn's events.
- `ResumeIsComplete` (same module), by `Covered`: between the number a browser presents and the
  `last_seq` its handler read every row is on the stream once the first replay is written, and the
  second replay is made only when the entry has finished, so that no row of it comes later
  (but for rows that are not `InOrder`).
- `DedupeIsSafe` (same module), by `OverlapInv`: a row belongs to a registered turn and is not numbered
  beyond its counter (`Owned`); a replay is consecutive; and the row that waits to be broadcast to
  a resume is above everything it has been sent, or has been sent (`NextIsNew`), if `InOrder`.
- `LossIsOverlap` (same module): `emit` ignores that an insert fails; every number it gives
  out is a row of its turn, or its transaction failed, or a row of *another* turn has
  it, one of the two being cancelled by then (`Named`: of the turns
  that have a backend and are installed, all but the one in the map are cancelled).
- `CancelledCanMove`, `CancelledDescends` (same module): `CancelledTurnEnds` short of fairness.  A
  cancelled turn whose consumer runs has a step that is owed to it, in terms of the guards of
  the actions; `Distance` (what is left to say, the consumer's stages, the backend) is a
  number that nobody raises, a crash or a takeover included, and that each step owed lowers; a
  watcher leaves by being closed or by the end of its handler, and what is closed only drains.
- `RegistryNamesServing` (`TunnelProofs`), by `RegistryInvariant`: type correctness with the relation of
  the registry to the handlers' program points.
- `TunnelIsNeverStuck`, `RequestsEnd` (same module): `RpcSettles` short of fairness.  The ack is read
  without a deadline, so `WireInv` says what has been written on a connection and by whom: a register
  is on the wire while the client waits, and the reader has answered it or will, or has failed
  because the session is closed.  `Distance` adds the stages of a request to how far its
  connection is from answering or from being known to be dead (`Left`); a cut, a dial or a restart
  never raises it.
- `VersionIsHonest`, `NobodyRunsInADeadProcess`, `AcknowledgedSurvives`
  (`StoreLifecycleProofs`), by `SchemaInvariant` (the columns present are those of
  the versions below the migration at hand, plus at most the one that has been
  committed and not yet recorded) and by `WriteInv` (a job is in one
  place: caller, queue or writer; an answer follows its effect).
- `WritersAreNeverStuck`, `WaitingWritesEnd` (same module): `WriteSettles` short of fairness.  By `PlaceInv`
  the operation of a caller that waits is in the channel or with the writer, in one place; `Distance`
  is three steps of the writer for each operation up to the caller's own, so that the callers
  are answered in the order of the channel, and neither Close nor later calls nor readers raise it.
  A caller that is still blocked on the full channel is owed a step too; that it is its turn
  one day is strong fairness, which stays with TLC.
- `OneSession` (`BrowserSessionProofs`), by `TimelineInv`:
  `TimelineOfOneSession` alone is not inductive; the events on the way to the
  page have to be of the session of its socket, that socket has to be of the
  page's session or be the one that will name it (and then the timeline is
  empty), and a socket that is not open has no stream and nothing under way.
- `RetriesStop` (same module), by `Counted`: the resumes that were made or wait for their timer since
  the last event are at most `attempts`.
- `TimelineInOrder` (same module), by `FaithInv`: every number has its predecessors before it, on the
  way or in the timeline, but for those the page was not sent (`InStep`); a start's socket
  repeats nothing, unless its turn was given numbers again (`StartIsNew`); a page
  without a session has shown nothing (`NoNumber`).
- `DecisionsMatch` (`PermissionProofs`), by `ReplyInvariant`: a lone page's replies are for requests that
  were shown to it (`Shown`), one for each, and between dock and `respCh` at most one is
  under way, the one for the request the run waits for (`InHand`, `OneReply`, `Answered`).
- `WaitsCanEnd`, `WaitsEnd` (same module): `InterruptEnds` and `AnswerUnblocks` short of fairness, by
  `WaitInv` (a CLI that asks has a `runLoop` that waits for the answer, or one that has left because of
  the interrupt; the run ends after its CLI).  `ToRelease` counts what an interrupted run still has
  to do, `ToDecision` where the nearest answer is; neither rises while the wait lasts: an
  answer leaves its way only by being taken or as a failed delivery, recorded in `lost`.
- `CompletedIsBelieved`, `NothingIsLeft`, `RunRefinesBackend` (`CliRunProofs`), by `RunInvariant`:
  the last word stays at the end of the pipe until it is read (`LastWord`), a loop that was
  neither cut off nor cancelled has read everything (`ReadOut`), and each stage of
  the goroutine says what has been waited for and closed (`Stages`).
- `RunCanMove`, `CancelledRunEnds` (same module): `RunSettles` short of fairness, in the same two
  halves.  The waits for the prompt to be taken, for output and for the end of the input could
  close a circle; `InputInv` (which of them still can have a reason, and what the CLI has printed by
  then) is what opens it.  `Rank` adds up the stages left, the lines to read, the kill and
  the prompt still to be written.
- `ReleaseIsComplete`, `OutputPrecedesExit`, `SizesInOrder` (`TerminalProofs`), by `TerminalInvariant`.
  The release: a set flag means that the pipes are closed or one of the two callers is just about
  to, and a handle that is gone was closed by somebody who saw the shell dead or gave up on it
  (`ClosingWindows`).  The output: on a path that holds, what was printed is on the
  screen, in the stream or unread, and the first Close comes after the last of it (`Delivered`).
  The size: the one nearest to the screen in timer, messages, request and tty is the
  one on the screen (`Newest`).
- `AbandonedNeverStuck` (same module): the first half of `AbandonedIsReleased` short of fairness, in terms
  of the guards of the actions.  `EndInv` says who has been told of the end: a bridge that has
  returned has closed the stream and, on Unix, killed the shell it found; the stdin goroutine leaves
  through Close; release reaps last.

Only model-checked: the liveness properties (`CancelledTurnEnds`, `RunSettles`, `RpcSettles`,
`DialerRecovers`, `GhostsExpire`, `InterruptEnds`, `AnswerUnblocks`, `BusySettles`, `EndReachesPage`,
`WriteSettles`, `AbandonedIsReleased`, `ExitIsTold`): fairness and ENABLED are out of the
prover's reach.  Where the two halves above are proved, what is left to the model checker
is that the guards they name are those of the actions and that fairness on the steps owed
makes a falling number reach 0.

## 6. Plan and what is not modelled

The order was: what loses a user's work first, what strands a user next, data conversions last.

1. Done: `AgentSession` with `DurableLog`; `Tunnel`; `PermissionExchange`; `StoreLifecycle`;
   `BrowserSession`; `Terminal`; `CliRun` with `AgentBackend`; the proofs above.
2. Next: an abstract event stream that the stream of `AgentSession` and the one `BrowserSession`
   reads both implement, so that the two meet in one statement.
3. Proofs: a number that falls for `AbandonedIsReleased`, and the two halves short of fairness for
   `BusySettles` and `EndReachesPage`.

Not modelled:

- codex behind codex.go:62: its request table and turns cannot be reached, since `Execute`
  returns an error before; a model of them would describe no run of the program.
- `sniffClaudePermissionDenial`, titles and listings, agent arguments and environment, shell detection:
  functions of their input, without state.
- File handlers: one system call each on a stream of its own.
- Framing: a length prefix and a size limit, written and read by the same two functions.
- Web authentication, configuration, TLS, flags: read or checked once.
- Other pages and the editor: presentation.

Sessions of different ids share nothing but the store's writer, so `AgentSession` takes one;
`StoreLifecycle` takes several.
