------------------------------- MODULE CliRun -------------------------------
(***************************************************************************)
(* One run of a coding agent: Execute of the six adapters in               *)
(* internal/agent, the goroutine that translates the output of the CLI,    *)
(* the ones that write the prompt and watch the context, os/exec with its  *)
(* WaitDelay, and the CLI itself, which may be killed, crash, or leave     *)
(* processes behind that hold its pipes.                                   *)
(*                                                                         *)
(* A line of output is one of                                              *)
(*   text   something to show: text, thinking, a tool call or its result   *)
(*   error  an error the CLI reports while it goes on                      *)
(*   ok     its last word: success      bad   its last word: failure       *)
(*   long   more than the 10 MB the scanner takes                          *)
(* Permissions of claude are in PermissionExchange.                        *)
(***************************************************************************)
EXTENDS Integers, Sequences

CONSTANTS Backends,   \* adapters, a subset of those of agent.New
          MaxLines,   \* bound: lines a CLI prints
          Banner,     \* lines claude prints before it reads its input
          PipeCap,    \* lines the stdout pipe holds
          EventCap    \* events the channel holds (256)

ASSUME ConstantsAssumption ==
    /\ Backends \subseteq {"claude", "codex", "gemini", "cursor", "copilot", "opencode"}
    /\ MaxLines \in Nat /\ Banner \in 0..MaxLines
    /\ PipeCap \in Nat \ {0} /\ EventCap \in Nat \ {0}

Lines    == {"text", "error", "ok", "bad", "long"}
Statuses == {"completed", "failed", "aborted"}
Words    == {"none", "ok", "bad"}

VARIABLES
    backend,    \* the adapter
    run,        \* Execute and its goroutine: new, refused, scan, wait (for the
                \* process), drain (stderr), judge, told, sealed, closed
    cancelled,  \* runCtx
    interrupted, \* history: the user has interrupted the run while it went on
    stdout,     \* the read end of the pipe is open
    stdin,      \* the write end of the input of claude: none, open, closed
    prompt,     \* writeClaudeInput: none, writing, done, failed
    status,     \* finalStatus, and the status of the Result once it is told
    seen,       \* a result line has been read
    exitErr,    \* cmd.Wait returned an error
    events,     \* events in the channel
    proc,       \* the process: none, running, dead, reaped
    code,       \* its exit code
    pipe,       \* lines not read yet
    printed,    \* lines printed
    word,       \* history: the last word of the CLI
    cut,        \* history: the scanner met a line that is too long
    holders     \* pipes that a process left behind by the CLI has open

goroutine == <<run, status, seen, exitErr>>
pipes     == <<stdout, stdin, prompt, pipe>>
cli       == <<proc, code, printed, word, holders>>
given     == <<backend, interrupted>>
vars      == <<given, goroutine, cancelled, pipes, cli, events, cut>>

Init ==
    /\ backend \in Backends
    /\ run = "new" /\ status = "completed" /\ seen = FALSE /\ exitErr = FALSE
    /\ cancelled = FALSE /\ interrupted = FALSE
    /\ stdout = FALSE /\ stdin = "none" /\ prompt = "none" /\ pipe = <<>>
    /\ proc = "none" /\ code = 0 /\ printed = 0 /\ word = "none" /\ holders = {}
    /\ events = 0 /\ cut = FALSE

-----------------------------------------------------------------------------
(* Execute.                                                                *)

\* resolveExecPath, a pipe or the start of the process fails.
ExecuteFails ==
    /\ run = "new"
    /\ run' = "refused" /\ cancelled' = TRUE
    /\ UNCHANGED <<given, status, seen, exitErr, pipes, cli, events, cut>>

Spawn == proc' = "running" /\ stdout' = TRUE

\* spawnCLI, then the goroutine.
Execute ==
    /\ run = "new" /\ backend \notin {"claude", "codex"}
    /\ Spawn
    /\ run' = "scan"
    /\ UNCHANGED <<given, status, seen, exitErr, cancelled, stdin, prompt,
                   pipe, code, printed, word, holders, events, cut>>

\* claude also gets a pipe for its input, and a goroutine that writes the prompt.
ExecuteClaude ==
    /\ run = "new" /\ backend = "claude"
    /\ Spawn
    /\ run' = "scan" /\ stdin' = "open" /\ prompt' = "writing"
    /\ UNCHANGED <<given, status, seen, exitErr, cancelled, pipe, code,
                   printed, word, holders, events, cut>>

\* codex asks for the pipe when the process has been started, which is an error.
ExecuteCodex ==
    /\ run = "new" /\ backend = "codex"
    /\ Spawn
    /\ run' = "refused" /\ cancelled' = TRUE
    /\ UNCHANGED <<given, status, seen, exitErr, stdin, prompt, pipe, code,
                   printed, word, holders, events, cut>>

\* A turn that takes the session over cancels the context.
Cancel ==
    /\ run \notin {"new", "refused"} /\ ~cancelled
    /\ cancelled' = TRUE
    /\ UNCHANGED <<given, goroutine, pipes, cli, events, cut>>

\* HandleInterrupt asks the backend.  claude cancels the context; the others take
\* it to be cancelled already and do nothing.
Interrupt ==
    /\ run \in {"scan", "wait", "drain", "judge"}
    /\ interrupted' = TRUE
    /\ cancelled' = (cancelled \/ backend = "claude")
    /\ UNCHANGED <<backend, goroutine, pipes, cli, events, cut>>

-----------------------------------------------------------------------------
(* The loop over the output.  For each adapter, what it makes of a line: an  *)
(* event, a failed status, a result that counts more than the exit code, the *)
(* end of the input.                                                         *)

Effect(sends, fails, result, ends) ==
    [sends |-> sends, fails |-> fails, result |-> result, ends |-> ends]

GeminiLine(l) == Effect(l \in {"text", "error"}, l = "bad", FALSE, FALSE)
CursorLine(l) == Effect(l \in {"text", "error"}, l = "bad", l \in {"ok", "bad"}, FALSE)
CopilotLine(l) == Effect(l \in {"text", "error"}, l \in {"error", "bad"}, FALSE, FALSE)
\* opencode has no result line: its last word of failure is an error event.
OpencodeLine(l) ==
    Effect(l \in {"text", "error", "bad"}, l \in {"error", "bad"}, FALSE, FALSE)

\* Mutant: the input stays open after the result.
ClaudeLineKeepsInput(l) ==
    Effect(l \in {"text", "error"}, l = "bad", l \in {"ok", "bad"}, FALSE)

ClaudeLine(l) == Effect(l \in {"text", "error"}, l = "bad", l \in {"ok", "bad"},
                          l \in {"ok", "bad"})
Line(l) == CASE backend = "gemini"   -> GeminiLine(l)
             [] backend = "cursor"   -> CursorLine(l)
             [] backend = "copilot"  -> CopilotLine(l)
             [] backend = "opencode" -> OpencodeLine(l)
             [] OTHER                -> ClaudeLine(l)

CloseInput == stdin' = IF stdin = "open" THEN "closed" ELSE stdin

\* Mutant: the room in the channel is not looked at.
TrySendUnchecked(n) == events' = events + n

\* trySend drops what the channel has no room for.
TrySend(n) == events' = IF events + n <= EventCap THEN events + n ELSE events

\* One line.
Scan ==
    /\ run = "scan" /\ pipe # <<>> /\ Head(pipe) # "long"
    /\ LET e == Line(Head(pipe)) IN
       /\ TrySend(IF e.sends THEN 1 ELSE 0)
       /\ status' = IF e.fails THEN "failed" ELSE status
       /\ seen' = (seen \/ e.result)
       /\ IF e.ends THEN CloseInput ELSE UNCHANGED stdin
    /\ pipe' = Tail(pipe)
    /\ UNCHANGED <<given, run, exitErr, cancelled, stdout, prompt, cli, cut>>

\* Mutant: the loop does not wait for those who still have the pipe open, and
\* takes the end of the process for the end of its output.
ScanEndsAtExit ==
    /\ run = "scan"
    /\ proc = "dead" \/ ~stdout
    /\ run' = "wait"
    /\ CloseInput
    /\ UNCHANGED <<given, status, seen, exitErr, cancelled, stdout, prompt,
                   pipe, cli, events, cut>>

\* Mutant: a scanner that gives up returns without cmd.Wait.
ScanEndsUnwaited ==
    /\ run = "scan"
    /\ \/ /\ stdout /\ pipe = <<>> /\ proc = "dead" /\ "stdout" \notin holders
          /\ run' = "wait" /\ UNCHANGED cut
       \/ pipe # <<>> /\ Head(pipe) = "long" /\ cut' = TRUE /\ run' = "judge"
       \/ ~stdout /\ run' = "wait" /\ UNCHANGED cut
    /\ CloseInput
    /\ UNCHANGED <<given, status, seen, exitErr, cancelled, stdout, prompt,
                   pipe, cli, events>>

\* The scanner ends: at the end of the output, when nobody has the pipe open for
\* writing; at a line that is too long; or when the context has closed the pipe.
\* Then claude closes the input.
ScanEnds ==
    /\ run = "scan"
    /\ \/ /\ stdout /\ pipe = <<>> /\ proc = "dead" /\ "stdout" \notin holders
          /\ UNCHANGED cut
       \/ pipe # <<>> /\ Head(pipe) = "long" /\ cut' = TRUE
       \/ ~stdout /\ UNCHANGED cut
    /\ run' = "wait"
    /\ CloseInput
    /\ UNCHANGED <<given, status, seen, exitErr, cancelled, stdout, prompt,
                   pipe, cli, events>>

\* cmd.Wait: first the process.
WaitProcess ==
    /\ run = "wait" /\ proc = "dead"
    /\ proc' = "reaped"
    /\ run' = "drain"
    /\ UNCHANGED <<given, status, seen, exitErr, cancelled, pipes, code,
                   printed, word, holders, events, cut>>

\* Then stderr, which a process left behind may hold: after WaitDelay Wait gives
\* up with an error, even if the exit code was 0.  Then the pipes are closed.
WaitPipes ==
    /\ run = "drain"
    /\ exitErr' = (code # 0 \/ "stderr" \in holders)
    /\ stdout' = FALSE
    /\ run' = "judge"
    /\ UNCHANGED <<given, status, seen, cancelled, stdin, prompt, pipe, cli,
                   events, cut>>

\* Mutant: the exit code is not looked at.
ExitStatusUnchecked == IF cancelled THEN "aborted" ELSE status

\* The switch over the ways a run ends: for gemini, copilot and opencode,
ExitStatus == IF cancelled THEN "aborted"
              ELSE IF exitErr /\ status = "completed" THEN "failed" ELSE status
\* for cursor, whose result line overrides both,
CursorStatus == IF seen THEN status ELSE ExitStatus
\* and for claude, where the prompt may not have been written: that is a failure,
\* unless a line has told the session id.
ClaudeStatuses == {ExitStatus} \cup
    IF ~cancelled /\ prompt = "failed" /\ status = "completed" /\ ~seen
    THEN {"failed"} ELSE {}

\* The Result; the deferred calls follow: cancel, then the two channels.
Judge ==
    /\ run = "judge" /\ prompt # "writing"
    /\ status' \in CASE backend = "cursor" -> {CursorStatus}
                     [] backend = "claude" -> ClaudeStatuses
                     [] OTHER              -> {ExitStatus}
    /\ run' = "told"
    /\ UNCHANGED <<given, seen, exitErr, cancelled, pipes, cli, events, cut>>

\* Mutant: the channels are closed in the other order.
DeferEventsFirst ==
    /\ run = "told"
    /\ run' = "closed" /\ cancelled' = TRUE
    /\ UNCHANGED <<given, status, seen, exitErr, pipes, cli, events, cut>>

DeferCloseResult ==
    /\ run = "told"
    /\ run' = "sealed" /\ cancelled' = TRUE
    /\ UNCHANGED <<given, status, seen, exitErr, pipes, cli, events, cut>>

DeferCloseEvents ==
    /\ run = "sealed"
    /\ run' = "closed"
    /\ UNCHANGED <<given, status, seen, exitErr, cancelled, pipes, cli, events, cut>>

Goroutine == Scan \/ ScanEnds \/ WaitProcess \/ WaitPipes \/ Judge
             \/ DeferCloseResult \/ DeferCloseEvents

-----------------------------------------------------------------------------
(* Its helpers.                                                            *)

\* The watcher of the context closes both ends.
WatchContext ==
    /\ cancelled /\ stdout /\ run \notin {"refused"}
    /\ stdout' = FALSE
    /\ CloseInput
    /\ UNCHANGED <<given, goroutine, cancelled, prompt, pipe, cli, events, cut>>

\* Mutant: the process is sent a signal that it may ignore.
KillNever == cancelled /\ proc = "running" /\ UNCHANGED vars

\* os/exec kills the process of a cancelled context.
Kill ==
    /\ cancelled /\ proc = "running"
    /\ proc' = "dead" /\ code' = 1
    /\ UNCHANGED <<given, goroutine, cancelled, pipes, printed, word,
                   holders, events, cut>>

\* writeClaudeInput fails once the input is closed or the process is gone.
WriteFails ==
    /\ prompt = "writing"
    /\ stdin = "closed" \/ proc # "running"
    /\ prompt' = "failed"
    /\ UNCHANGED <<given, goroutine, cancelled, stdout, stdin, pipe, cli, events, cut>>

\* consumeEvents takes an event.
TakeEvent ==
    /\ events > 0
    /\ events' = events - 1
    /\ UNCHANGED <<given, goroutine, cancelled, pipes, cli, cut>>

-----------------------------------------------------------------------------
(* The CLI.                                                                *)

Running == proc = "running" /\ run # "refused"

Writes(l) ==
    /\ Running /\ stdout /\ Len(pipe) < PipeCap /\ word = "none"
    /\ pipe' = Append(pipe, l)
    /\ printed' = printed + 1
    /\ UNCHANGED <<given, goroutine, cancelled, stdout, stdin, prompt, proc,
                   code, holders, events, cut>>

Says == \E l \in {"text", "error", "long"} :
    /\ printed < MaxLines
    /\ Writes(l)
    /\ UNCHANGED word

\* claude reads its input after the banner.
ReadsPrompt ==
    /\ Running /\ prompt = "writing" /\ stdin = "open" /\ printed >= Banner
    /\ prompt' = "done"
    /\ UNCHANGED <<given, goroutine, cancelled, stdout, stdin, pipe, cli, events, cut>>

Answers == \E l \in {"ok", "bad"} :
    /\ backend = "claude" => prompt = "done"
    /\ Writes(l)
    /\ word' = l

Exits(c) ==
    /\ proc' = "dead" /\ code' = c
    /\ holders' \in SUBSET {"stdout", "stderr"}
    /\ UNCHANGED <<given, goroutine, cancelled, pipes, printed, word, events, cut>>

\* After its last word, claude at the end of its input.
Finishes == Running /\ word # "none" /\ stdin # "open" /\ Exits(0)

Crashes == Running /\ \E c \in {0, 1} : Exits(c)

HolderExits == \E h \in holders :
    /\ holders' = holders \ {h}
    /\ UNCHANGED <<given, goroutine, cancelled, pipes, proc, code, printed,
                   word, events, cut>>

Cli == Says \/ ReadsPrompt \/ Answers \/ Finishes \/ Crashes \/ HolderExits

Next == ExecuteFails \/ Execute \/ ExecuteClaude \/ ExecuteCodex
        \/ Cancel \/ Interrupt
        \/ Goroutine \/ WatchContext \/ Kill \/ WriteFails \/ TakeEvent \/ Cli

Spec == Init /\ [][Next]_vars

\* Goroutines and kills make progress.  A CLI that works prints its banner, reads
\* its input, answers, and ends; one that crashes is free to do so.
Fairness ==
    /\ WF_vars(Goroutine) /\ WF_vars(WatchContext) /\ WF_vars(Kill)
    /\ WF_vars(WriteFails)
    /\ WF_vars(printed < Banner /\ Says) /\ WF_vars(ReadsPrompt)
    /\ WF_vars(Answers) /\ WF_vars(Finishes)

FairSpec == Spec /\ Fairness

-----------------------------------------------------------------------------
(* Properties.                                                             *)

TypeOK ==
    /\ backend \in Backends
    /\ run \in {"new", "refused", "scan", "wait", "drain", "judge", "told",
                "sealed", "closed"}
    /\ cancelled \in BOOLEAN /\ interrupted \in BOOLEAN /\ stdout \in BOOLEAN
    /\ stdin \in {"none", "open", "closed"}
    /\ prompt \in {"none", "writing", "done", "failed"}
    /\ status \in Statuses /\ seen \in BOOLEAN /\ exitErr \in BOOLEAN
    /\ events \in 0..EventCap
    /\ proc \in {"none", "running", "dead", "reaped"} /\ code \in {0, 1}
    /\ pipe \in Seq(Lines) /\ Len(pipe) <= PipeCap
    /\ printed \in Nat /\ word \in Words /\ cut \in BOOLEAN
    /\ holders \subseteq {"stdout", "stderr"}

Told == run \in {"told", "sealed", "closed"}

\* A run reported as completed is one whose CLI exited with 0 and did not end in
\* a failure, and every line it wrote has been read: the loop reads to the end of
\* the pipe before it waits.  Exempt are runs cut off by a line that is too long
\* and, from the exit code and the context, those of cursor that have told their
\* result, which is believed first.
CompletedIsTrue ==
    Told /\ status = "completed" /\ ~cut =>
        /\ word # "bad"
        /\ pipe = <<>>
        /\ code = 0 \/ (backend = "cursor" /\ seen)

\* When the channel of events closes, nothing of the run is left in the client:
\* the process is reaped, its pipes are closed and the context is released,
\* however the scan ended.
NothingLeft ==
    run = "closed" =>
        proc = "reaped" /\ ~stdout /\ stdin # "open" /\ prompt # "writing" /\ cancelled

\* The run as AgentManager sees it.
Phase == CASE run \in {"scan", "wait", "drain", "judge"} -> "running"
           [] run = "told" -> "judged"
           [] OTHER -> run

Contract == INSTANCE AgentBackend WITH
    phase <- Phase, outcome <- IF Told THEN status ELSE "none"

\* Every adapter keeps the promise of agent.Session: one Result, told before its
\* channel is closed and that before the events', whatever way the run goes.
RunImplementsBackend == Contract!Spec

\* A run comes to its end and stays there.  A cancelled one does whatever the CLI
\* and the processes it leaves behind do with the pipes: the process is killed, the
\* scan is cut off, the wait for stderr is bounded.  One that is not cancelled does
\* if the CLI keeps to its protocol: the prompt is written while the output is read,
\* the input of claude ends with the result, a process left behind with stderr does
\* not hold the run up.  What does is such a process with stdout, and a line that
\* is too long for the scanner, since Wait then waits for a CLI nobody reads from.
RunSettles ==
    <>[](\/ run \in {"new", "refused", "closed"}
         \/ ~cancelled /\ (cut \/ "stdout" \in holders))

\* agent.go:26 says that Interrupt interrupts the present execution; that of
\* gemini, cursor, copilot and opencode has no effect and reports success.
InterruptedIsAborted == Told /\ interrupted => status = "aborted"

\* agent.go:24 says that Execute starts the execution of a prompt and returns its
\* events; of codex it starts the process and returns an error, always.
StartedIsServed == proc # "none" => run # "refused"
=============================================================================
