------------------------------ MODULE Terminal ------------------------------
(***************************************************************************)
(* One terminal from end to end: the view in the page                      *)
(* (web/src/components/terminal.tsx), its WebSocket and the two loops of   *)
(* the server (internal/server/web/pty.go), the pty.create stream, and on  *)
(* the client HandleCreate with its stdin goroutine, the handlers of       *)
(* pty.resize and pty.close (internal/client/handlers/pty.go) and the pty  *)
(* of the platform (internal/client/winpty): a tty on Unix, a pseudo       *)
(* console with pipes and a process handle on Windows.                     *)
(*                                                                         *)
(* Output and input are counted, not spelled out: every hop is a queue, so *)
(* a count says which chunk comes next.                                    *)
(***************************************************************************)
EXTENDS Integers, Sequences

CONSTANTS Platforms,    \* subset of {"unix", "windows"}
          Sizes,        \* sizes a terminal can have
          FirstSize,    \* the size of the view as it is mounted, asked for in the URL
          NoSize,       \* no resize is pending
          Cap,          \* chunks a stream, a socket or the tty holds
          MaxOutput,    \* bound: chunks the shell prints
          MaxMoves      \* bound: chunks the user types and changes of the size

ASSUME ConstantsAssumption ==
    /\ Platforms \subseteq {"unix", "windows"}
    /\ FirstSize \in Sizes /\ Sizes \cap {NoSize, "data", "close"} = {}
    /\ Cap \in Nat \ {0}
    /\ MaxOutput \in Nat
    /\ MaxMoves \in Nat

Closers == {"stdin", "release"}   \* the two callers of PTY.Close

VARIABLES
    page,      \* the view: connecting, open, ended (onclose seen), left
    size,      \* the size of the terminal on the screen
    timer,     \* the size the debounce timer will send, or NoSize
    missed,    \* history: the last size was chosen while connecting
    screen,    \* chunks of output sent to the page, which shows them in order
               \* and before it sees the socket close
    moves,     \* what the user has done
    up,        \* messages from the page the server has not read
    code,      \* the code the server closed the socket with, or "none"
    bridge,    \* ptyWSHandler and bridgeWSToPTY
    ask,       \* the size of the pty.resize under way, or NoSize
    outPump,   \* pumpPTYToWS
    tunnel,    \* the yamux session: up or cut
    upStream, downStream,    \* chunks in the stream of pty.create
    srvEnd, cliEnd,          \* each side has closed that stream
    create,    \* HandleCreate
    stdin,     \* its stdin goroutine
    resizer,   \* HandleResize has looked the entry up for this size, or NoSize
    entry,     \* PTYManager.pts has the pty
    os,        \* the platform
    close,     \* PTY.Close and PTY.Wait by each caller
    closed,    \* conPTY.closed
    tty,       \* the tty, on Windows the client's end of each pipe, in and out:
               \* none, open, closed
    winsize,   \* its size
    hProc,     \* conPTY.hProc is not zero
    handleCloses, \* times the process handle was closed
    gaveUp,    \* history: conPTY.Wait gave up on a shell that was running
    shell,     \* none, running, dead, reaped
    killed,    \* it has been killed or terminated
    holder,    \* a background process has the tty open
    produced, outbuf   \* chunks printed, and those not read yet

client == <<create, stdin, resizer, entry, close, closed, hProc, handleCloses, gaveUp>>
system == <<tty, winsize, shell, killed, holder, produced, outbuf>>
view   == <<page, size, timer, missed, screen, moves>>
sock   == <<up, code>>
server == <<bridge, ask, outPump>>
stream == <<tunnel, upStream, downStream, srvEnd, cliEnd>>
vars   == <<client, system, view, sock, server, stream, os>>

Init ==
    /\ page = "connecting"
    /\ size = FirstSize
    /\ timer = NoSize /\ missed = FALSE
    /\ screen = 0 /\ moves = 0
    /\ up = <<>> /\ code = "none"
    /\ bridge = "accept" /\ ask = NoSize /\ outPump = "off"
    /\ tunnel = "up" /\ upStream = 0 /\ downStream = 0
    /\ srvEnd = FALSE /\ cliEnd = FALSE
    /\ create = "none" /\ stdin = "off" /\ resizer = NoSize /\ entry = FALSE
    /\ os \in Platforms
    /\ close = [c \in Closers |-> "idle"]
    /\ closed = FALSE /\ hProc = FALSE /\ handleCloses = 0 /\ gaveUp = FALSE
    /\ tty = "none" /\ winsize = NoSize
    /\ shell = "none" /\ killed = FALSE /\ holder = FALSE
    /\ produced = 0 /\ outbuf = 0

-----------------------------------------------------------------------------
(* The page.                                                               *)

\* A message to a server that no longer reads the socket is lost.
Send(msg) == up' = IF bridge \in {"closing", "closed"} THEN up ELSE Append(up, msg)

\* Mutant: the timer that is pending is not cleared, and the new one comes to
\* nothing.
FitNoClear(s) ==
    /\ page \in {"connecting", "open"} /\ s # size /\ moves < MaxMoves
    /\ size' = s /\ moves' = moves + 1
    /\ timer' = IF page = "open" /\ timer = NoSize THEN s ELSE timer
    /\ missed' = IF page = "open" THEN FALSE ELSE TRUE
    /\ UNCHANGED <<client, system, page, screen, sock, server, stream, os>>

\* term.onResize: a size chosen before the socket is open is not sent; later
\* ones restart the debounce timer.
Fit(s) ==
    /\ page \in {"connecting", "open"} /\ s # size /\ moves < MaxMoves
    /\ size' = s /\ moves' = moves + 1
    /\ timer' = IF page = "open" THEN s ELSE timer
    /\ missed' = IF page = "open" THEN FALSE ELSE TRUE
    /\ UNCHANGED <<client, system, page, screen, sock, server, stream, os>>

\* The debounce timer fires.
TimerFires ==
    /\ timer # NoSize
    /\ timer' = NoSize
    /\ Send(timer)
    /\ UNCHANGED <<client, system, page, size, missed, screen, moves,
                   code, server, stream, os>>

\* term.onData.
Type ==
    /\ page = "open" /\ moves < MaxMoves
    /\ moves' = moves + 1
    /\ Send("data")
    /\ UNCHANGED <<client, system, page, size, timer, missed, screen,
                   code, server, stream, os>>

\* ws.onopen; the server accepts before it asks the client for a pty.
OnOpen ==
    /\ page = "connecting" /\ bridge # "accept" /\ code # "refused"
    /\ page' = "open"
    /\ UNCHANGED <<client, system, size, timer, missed, screen, moves,
                   sock, server, stream, os>>

\* ws.onclose, after everything that was sent before.  What is typed or resized
\* from here on goes nowhere and is left out, as is what a view that has gone held.
OnClose ==
    /\ page = "open" \/ (page = "connecting" /\ code = "refused")
    /\ code # "none"
    /\ page' = "ended"
    /\ timer' = NoSize /\ size' = FirstSize /\ missed' = FALSE
    /\ moves' = MaxMoves
    /\ UNCHANGED <<client, system, screen, sock, server, stream, os>>

\* onCleanup clears the timer, sends close and closes the socket; a tab or
\* path that dies does not, and what it had sent may be lost.
Leave ==
    /\ page \in {"connecting", "open"}
    /\ page' = "left"
    /\ timer' = NoSize
    /\ Send("close") \/ up' = <<>>
    /\ screen' = 0 /\ size' = FirstSize /\ missed' = FALSE
    /\ moves' = MaxMoves
    /\ UNCHANGED <<client, system, code, server, stream, os>>

Page == \/ \E s \in Sizes : Fit(s)
        \/ TimerFires \/ Type \/ OnOpen \/ OnClose \/ Leave

-----------------------------------------------------------------------------
(* The server.                                                             *)

\* ptyWSHandler up to the request of openPTYCreate; without a registered client
\* the upgrade is refused.
Accept ==
    /\ bridge = "accept"
    /\ \/ /\ bridge' = "await"
          /\ create' = IF tunnel = "up" THEN "start" ELSE create
          /\ UNCHANGED code
       \/ /\ tunnel = "cut"
          /\ bridge' = "closed"
          /\ code' = "refused"
          /\ UNCHANGED create
    /\ UNCHANGED <<stdin, resizer, entry, close, closed, hProc, handleCloses, gaveUp,
                   system, view, up, ask, outPump, stream, os>>

\* The answer names the pty: both loops start.
Created ==
    /\ bridge = "await" /\ tunnel = "up"
    /\ create \notin {"none", "start", "respond", "refused"}
    /\ bridge' = "read"
    /\ outPump' = "run"
    /\ UNCHANGED <<client, system, view, sock, ask, stream, os>>

\* The answer is an error or does not come.
CreateFails ==
    /\ bridge = "await"
    /\ create = "refused" \/ tunnel = "cut"
    /\ bridge' = "closed"
    /\ code' = "failed"
    /\ srvEnd' = TRUE
    /\ UNCHANGED <<client, system, view, up, ask, outPump,
                   tunnel, upStream, downStream, cliEnd, os>>

\* pumpPTYToWS: one frame from the stream to the socket; when the page has gone
\* the write fails and the loop ends.
PumpToWS ==
    /\ outPump = "run" /\ downStream > 0
    /\ IF page = "left" \/ code # "none"
       THEN outPump' = "end" /\ UNCHANGED screen
       ELSE screen' = screen + 1 /\ UNCHANGED outPump
    /\ downStream' = downStream - 1
    /\ UNCHANGED <<client, system, page, size, timer, missed, moves, sock,
                   bridge, ask, tunnel, upStream, srvEnd, cliEnd, os>>

\* Mutant: the end of the stream is not passed on.
PumpToWSEndsQuietly ==
    /\ outPump = "run" /\ downStream = 0
    /\ cliEnd \/ tunnel = "cut"
    /\ outPump' = "end"
    /\ UNCHANGED <<client, system, view, sock, bridge, ask, stream, os>>

\* The stream has ended, with the pty or with the tunnel: "pty exited".
PumpToWSEnds ==
    /\ outPump = "run" /\ downStream = 0
    /\ cliEnd \/ tunnel = "cut"
    /\ outPump' = "end"
    /\ code' = IF code = "none" THEN "exited" ELSE code
    /\ UNCHANGED <<client, system, view, up, bridge, ask, stream, os>>

\* bridgeWSToPTY takes the next message.
BridgeRead ==
    /\ bridge = "read" /\ up # <<>>
    /\ up' = IF Head(up) = "close" THEN <<>> ELSE Tail(up)
    /\ bridge' = CASE Head(up) = "data"  -> "write"
                   [] Head(up) = "close" -> "closing"
                   [] OTHER              -> "rpc"
    /\ ask' = IF Head(up) \in Sizes THEN Head(up) ELSE ask
    /\ UNCHANGED <<client, system, view, code, outPump, stream, os>>

\* The read fails: the page or this server has closed the socket.
BridgeReadFails ==
    /\ bridge = "read"
    /\ code # "none" \/ (page = "left" /\ up = <<>>)
    /\ bridge' = "closing"
    /\ up' = <<>>
    /\ UNCHANGED <<client, system, view, code, ask, outPump, stream, os>>

\* Mutant: the window of the stream is not waited for.
BridgeWriteUnbounded ==
    /\ bridge = "write"
    /\ upStream' = upStream + 1
    /\ bridge' = "read"
    /\ UNCHANGED <<client, system, view, sock, ask, outPump,
                   tunnel, downStream, srvEnd, cliEnd, os>>

\* The input frame goes into the window of the stream; after the end of the
\* tunnel or of the far side it is lost, or the write fails.
BridgeWrite ==
    /\ bridge = "write"
    /\ \/ /\ tunnel = "up" /\ upStream < Cap
          /\ upStream' = upStream + 1
          /\ bridge' = "read"
       \/ /\ tunnel = "cut" \/ cliEnd
          /\ bridge' \in {"read", "closing"}
          /\ UNCHANGED upStream
    /\ UNCHANGED <<client, system, view, sock, ask, outPump,
                   tunnel, downStream, srvEnd, cliEnd, os>>

\* sendPTYResize: the stream it opens ends with HandleResize, see below.
ResizeAnswered ==
    /\ bridge = "rpc"
    /\ ask = NoSize \/ tunnel = "cut"
    /\ bridge' = "read"
    /\ ask' = NoSize
    /\ UNCHANGED <<client, system, view, sock, outPump, stream, os>>

\* sendPTYClose fails with the tunnel.  Then the two deferred Closes.
CloseRpcFails ==
    /\ bridge = "closing" /\ tunnel = "cut"
    /\ bridge' = "closed"
    /\ srvEnd' = TRUE
    /\ code' = IF code = "none" THEN "normal" ELSE code
    /\ UNCHANGED <<client, system, view, up, ask, outPump,
                   tunnel, upStream, downStream, cliEnd, os>>

Server == Accept \/ Created \/ CreateFails \/ PumpToWS \/ PumpToWSEnds
          \/ BridgeRead \/ BridgeReadFails \/ BridgeWrite \/ ResizeAnswered
          \/ CloseRpcFails

-----------------------------------------------------------------------------
(* HandleCreate, its stdin goroutine, HandleResize and HandleClose.        *)

\* buildCmd and StartWithSize, then alloc; or the error is written back.
StartPTY ==
    /\ create = "start"
    /\ create' = "respond" /\ entry' = TRUE
    /\ tty' = "open" /\ winsize' = FirstSize /\ shell' = "running"
    /\ hProc' = (os = "windows")
    /\ UNCHANGED <<stdin, resizer, close, closed, handleCloses, gaveUp, killed, holder,
                   produced, outbuf, view, sock, server, stream, os>>

StartFails ==
    /\ create = "start"
    /\ create' = "refused"
    /\ cliEnd' = TRUE
    /\ UNCHANGED <<stdin, resizer, entry, close, closed, hProc, handleCloses, gaveUp,
                   system, view, sock, server, tunnel, upStream, downStream,
                   srvEnd, os>>

\* On Windows the kill of a shell may fail (pty.go:174); that it dies all the
\* same is always possible, see ShellDies.
Kill == killed' = (killed \/ os = "unix")

\* release: out of the map, kill, then Close and Wait (below).
Release ==
    /\ entry' = FALSE
    /\ create' = "release"
    /\ Kill
    /\ close' = [close EXCEPT !["release"] = "check"]

Respond ==
    /\ create = "respond"
    /\ \/ /\ create' = "pump" /\ stdin' = "read"
          /\ UNCHANGED <<entry, killed, close>>
       \/ tunnel = "cut" /\ Release /\ UNCHANGED stdin
    /\ UNCHANGED <<resizer, closed, hProc, handleCloses, gaveUp, tty, winsize, shell,
                   holder, produced, outbuf, view, sock, server, stream,
                   os>>

\* startWithSize hands hInputRead and hOutputWrite to the pseudo console, and
\* nobody closes the client's own copies of them, neither Close nor release.
CopiesKept == os = "windows" /\ tty # "none"

\* The end of the output: when nobody has the tty open and all that was printed
\* has been read.  With a copy of the write end in the client itself only Close
\* ends the output.
OutputEnds ==
    \/ tty = "closed"
    \/ ~CopiesKept /\ shell # "running" /\ ~holder /\ outbuf = 0

\* Mutant: the error of a read that also returned data is looked at first.
PumpFrameErrFirst ==
    /\ create = "pump"
    /\ tty = "open" /\ outbuf > 0
    /\ outbuf' = outbuf - 1
    /\ IF tunnel = "cut" \/ (os = "unix" /\ shell # "running" /\ outbuf = 1)
       THEN UNCHANGED downStream
       ELSE downStream < Cap /\ downStream' = downStream + 1
    /\ UNCHANGED <<client, tty, winsize, shell, killed, holder, produced,
                   view, sock, server, tunnel, upStream, srvEnd, cliEnd, os>>

\* pumpPTYToStream: read a chunk and write its frame, which nobody gets once
\* the tunnel is cut.
PumpFrame ==
    /\ create = "pump"
    /\ tty = "open" /\ outbuf > 0
    /\ outbuf' = outbuf - 1
    /\ IF tunnel = "cut" THEN UNCHANGED downStream
       ELSE downStream < Cap /\ downStream' = downStream + 1
    /\ UNCHANGED <<client, tty, winsize, shell, killed, holder, produced,
                   view, sock, server, tunnel, upStream, srvEnd, cliEnd, os>>

\* The read ends, or the write fails since the tunnel is cut or the far side
\* has closed the stream; either way the pty is released.
PumpEnds ==
    /\ create = "pump"
    /\ OutputEnds \/ (outbuf > 0 /\ (tunnel = "cut" \/ srvEnd))
    /\ Release
    /\ UNCHANGED <<stdin, resizer, closed, hProc, handleCloses, gaveUp, tty, winsize,
                   shell, holder, produced, outbuf, view, sock, server,
                   stream, os>>

\* The handler returns and its stream is closed.
CreateReturns ==
    /\ create = "release" /\ close["release"] = "done"
    /\ create' = "done"
    /\ cliEnd' = TRUE
    /\ UNCHANGED <<stdin, resizer, entry, close, closed, hProc, handleCloses, gaveUp,
                   system, view, sock, server, tunnel, upStream, downStream,
                   srvEnd, os>>

\* The stdin goroutine: ReadFrame, then pt.Write, which may wait for the shell to
\* read what came before; the first error of either closes the pty.
StdinRead ==
    /\ stdin = "read" /\ upStream > 0
    /\ upStream' = upStream - 1
    /\ stdin' = "write"
    /\ UNCHANGED <<create, resizer, entry, close, closed, hProc, handleCloses, gaveUp,
                   system, view, sock, server, tunnel, downStream, srvEnd,
                   cliEnd, os>>

StdinWrite ==
    /\ stdin = "write" /\ tty = "open"
    /\ stdin' = "read"
    /\ UNCHANGED <<create, resizer, entry, close, closed, hProc, handleCloses, gaveUp,
                   system, view, sock, server, stream, os>>

\* Mutant: the goroutine ends without closing the pty.
StdinEndsOpen ==
    /\ \/ /\ stdin = "read" /\ upStream = 0
          /\ srvEnd \/ cliEnd \/ tunnel = "cut"
       \/ stdin = "write" /\ tty = "closed"
    /\ stdin' = "off"
    /\ UNCHANGED <<create, resizer, entry, close, closed, hProc, handleCloses, gaveUp,
                   system, view, sock, server, stream, os>>

StdinEnds ==
    /\ \/ /\ stdin = "read" /\ upStream = 0
          /\ srvEnd \/ cliEnd \/ tunnel = "cut"
       \/ stdin = "write" /\ tty = "closed"
    /\ stdin' = "off"
    /\ close' = [close EXCEPT !["stdin"] = "check"]
    /\ UNCHANGED <<create, resizer, entry, closed, hProc, handleCloses, gaveUp, system,
                   view, sock, server, stream, os>>

\* HandleResize: lookup, then SetSize, which fails on a closed tty.
ResizeLookup ==
    /\ ask # NoSize /\ resizer = NoSize /\ tunnel = "up"
    /\ IF entry THEN resizer' = ask /\ UNCHANGED ask
                ELSE ask' = NoSize /\ UNCHANGED resizer
    /\ UNCHANGED <<create, stdin, entry, close, closed, hProc, handleCloses, gaveUp,
                   system, view, sock, bridge, outPump, stream, os>>

SetSize ==
    /\ resizer # NoSize
    /\ winsize' = IF tty = "open" THEN resizer ELSE winsize
    /\ resizer' = NoSize
    /\ ask' = NoSize
    /\ UNCHANGED <<create, stdin, entry, close, closed, hProc, handleCloses, gaveUp,
                   tty, shell, killed, holder, produced, outbuf,
                   view, sock, bridge, outPump, stream, os>>

\* HandleClose kills the shell if the entry is still there; its answer lets
\* bridgeWSToPTY return, and the server closes the stream and the socket.
HandleClose ==
    /\ bridge = "closing" /\ tunnel = "up"
    /\ IF entry THEN Kill ELSE UNCHANGED killed
    /\ bridge' = "closed"
    /\ srvEnd' = TRUE
    /\ code' = IF code = "none" THEN "normal" ELSE code
    /\ UNCHANGED <<client, tty, winsize, shell, holder, produced, outbuf,
                   view, up, ask, outPump, tunnel, upStream,
                   downStream, cliEnd, os>>

Client == StartPTY \/ StartFails \/ Respond \/ PumpFrame \/ PumpEnds
          \/ CreateReturns \/ StdinRead \/ StdinWrite \/ StdinEnds
          \/ ResizeLookup \/ SetSize \/ HandleClose

-----------------------------------------------------------------------------
(* PTY.Close and PTY.Wait.  On Unix the second Close of a file is an error   *)
(* without effect, and only release waits.  conPTY keeps a flag and a handle *)
(* that nothing guards: the two callers interleave between any two steps.    *)

CloseStep(c, from, to) ==
    /\ close[c] = from
    /\ close' = [close EXCEPT ![c] = to]

CloseTTY(c) ==
    /\ os = "unix"
    /\ CloseStep(c, "check", IF c = "release" THEN "wait" ELSE "done")
    /\ tty' = "closed" /\ winsize' = NoSize
    /\ UNCHANGED <<closed, hProc, handleCloses, gaveUp, shell, killed>>

\* cmd.Wait returns when the shell is dead, and reaps it.
Reap(c) ==
    /\ os = "unix" /\ shell = "dead"
    /\ CloseStep(c, "wait", "done")
    /\ shell' = "reaped"
    /\ UNCHANGED <<winsize, closed, hProc, handleCloses, gaveUp, tty, killed>>

\* conPTY.Close: a second caller returns at once, and release goes on to Wait.
CheckClosed(c) ==
    /\ os = "windows"
    /\ CloseStep(c, "check", IF ~closed THEN "mark"
                             ELSE IF c = "release" THEN "wait" ELSE "done")
    /\ UNCHANGED <<winsize, closed, hProc, handleCloses, gaveUp, tty, shell, killed>>

MarkClosed(c) ==
    /\ CloseStep(c, "mark", "pipes")
    /\ closed' = TRUE
    /\ UNCHANGED <<winsize, hProc, handleCloses, gaveUp, tty, shell, killed>>

\* ClosePseudoConsole and the client's two ends, in and out.
ClosePipes(c) ==
    /\ CloseStep(c, "pipes", "wait")
    /\ tty' = "closed" /\ winsize' = NoSize
    /\ UNCHANGED <<closed, hProc, handleCloses, gaveUp, shell, killed>>

\* Mutant: a Wait that finds the flag set relies on the other caller.
WaitTrusting(c) ==
    /\ os = "windows"
    /\ CloseStep(c, "wait", "done")
    /\ UNCHANGED <<winsize, closed, hProc, handleCloses, gaveUp, tty, shell, killed>>

\* conPTY.Wait: nothing to do without a handle; otherwise 5 seconds for the
\* process to end, then it is terminated and given one more.  No result is looked
\* at: the wait or the termination may have failed, and the shell live on.
WaitProcess(c) ==
    /\ os = "windows"
    /\ \/ /\ ~hProc
          /\ CloseStep(c, "wait", "done")
          /\ UNCHANGED <<killed, gaveUp>>
       \/ /\ hProc /\ shell = "dead"
          /\ CloseStep(c, "wait", "handle")
          /\ UNCHANGED <<killed, gaveUp>>
       \/ /\ hProc /\ shell = "running"
          /\ CloseStep(c, "wait", "handle")
          /\ killed' = TRUE \/ UNCHANGED killed
          /\ gaveUp' = TRUE
    /\ UNCHANGED <<winsize, closed, hProc, handleCloses, tty, shell>>

CloseHandle(c) ==
    /\ CloseStep(c, "handle", "done")
    /\ handleCloses' = handleCloses + 1
    /\ hProc' = FALSE
    /\ UNCHANGED <<winsize, closed, tty, shell, killed, gaveUp>>

PTYClose(c) ==
    /\ \/ CloseTTY(c) \/ Reap(c)
       \/ CheckClosed(c) \/ MarkClosed(c) \/ ClosePipes(c) \/ WaitProcess(c)
       \/ CloseHandle(c)
    /\ UNCHANGED <<create, stdin, resizer, entry, holder, produced, outbuf, view,
                   sock, server, stream, os>>

-----------------------------------------------------------------------------
(* The operating system and the path between the machines.                   *)

ShellPrints ==
    /\ tty = "open"
    /\ shell = "running" \/ holder
    /\ produced < MaxOutput /\ outbuf < Cap
    /\ produced' = produced + 1
    /\ outbuf' = outbuf + 1
    /\ UNCHANGED <<client, tty, winsize, shell, killed, holder, view,
                   sock, server, stream, os>>

\* The shell exits or is killed; a background job may keep the tty open.
ShellDies ==
    /\ shell = "running"
    /\ shell' = "dead"
    /\ holder' \in IF os = "unix" /\ tty = "open" THEN BOOLEAN ELSE {FALSE}
    /\ UNCHANGED <<client, tty, winsize, killed, produced, outbuf, view,
                   sock, server, stream, os>>

HolderExits ==
    /\ holder
    /\ holder' = FALSE
    /\ UNCHANGED <<client, tty, winsize, shell, killed, produced, outbuf,
                   view, sock, server, stream, os>>

\* The yamux session ends at both sides; what it carried may be lost.
Cut ==
    /\ tunnel = "up"
    /\ tunnel' = "cut"
    /\ \/ upStream' = 0 /\ downStream' = 0
       \/ UNCHANGED <<upStream, downStream>>
    /\ UNCHANGED <<client, system, view, sock, server, srvEnd, cliEnd, os>>

System == ShellPrints \/ ShellDies \/ HolderExits \/ Cut

Next == Page \/ Server \/ Client \/ (\E c \in Closers : PTYClose(c)) \/ System

Spec == Init /\ [][Next]_vars

\* The goroutines, the callbacks of the page and a kill make progress; users,
\* shells, background jobs and the network owe nothing.  The console host of
\* Windows takes input whatever the shell does.
Handler == Accept \/ Created \/ CreateFails \/ BridgeRead \/ BridgeReadFails
           \/ BridgeWrite \/ ResizeAnswered \/ CloseRpcFails \/ HandleClose

Fairness ==
    /\ WF_vars(TimerFires) /\ WF_vars(OnOpen \/ OnClose)
    /\ WF_vars(Handler) /\ WF_vars(PumpToWS \/ PumpToWSEnds)
    /\ WF_vars(StartPTY \/ StartFails \/ Respond \/ PumpFrame \/ PumpEnds
               \/ CreateReturns)
    /\ WF_vars(StdinRead \/ StdinEnds \/ (os = "windows" /\ StdinWrite))
    /\ WF_vars(ResizeLookup \/ SetSize)
    /\ \A c \in Closers : WF_vars(PTYClose(c))
    /\ WF_vars(killed /\ ShellDies)

FairSpec == Spec /\ Fairness

-----------------------------------------------------------------------------
(* Properties.                                                               *)

ViewOK ==
    /\ page \in {"connecting", "open", "ended", "left"}
    /\ size \in Sizes /\ timer \in Sizes \cup {NoSize} /\ missed \in BOOLEAN
    /\ screen \in 0..MaxOutput /\ moves \in 0..MaxMoves

ServerOK ==
    /\ up \in Seq(Sizes \cup {"data", "close"})
    /\ code \in {"none", "refused", "failed", "exited", "normal"}
    /\ bridge \in {"accept", "await", "read", "write", "rpc", "closing", "closed"}
    /\ ask \in Sizes \cup {NoSize} /\ outPump \in {"off", "run", "end"}
    /\ tunnel \in {"up", "cut"} /\ upStream \in 0..Cap /\ downStream \in 0..Cap
    /\ srvEnd \in BOOLEAN /\ cliEnd \in BOOLEAN

ClientOK ==
    /\ create \in {"none", "start", "respond", "pump", "release", "done", "refused"}
    /\ stdin \in {"off", "read", "write"} /\ resizer \in Sizes \cup {NoSize}
    /\ entry \in BOOLEAN /\ closed \in BOOLEAN /\ hProc \in BOOLEAN
    /\ gaveUp \in BOOLEAN
    /\ close \in [Closers -> {"idle", "check", "mark", "pipes", "wait", "handle",
                              "done"}]
    /\ handleCloses \in 0..2

SystemOK ==
    /\ os \in Platforms
    /\ tty \in {"none", "open", "closed"} /\ winsize \in Sizes \cup {NoSize}
    /\ shell \in {"none", "running", "dead", "reaped"}
    /\ killed \in BOOLEAN /\ holder \in BOOLEAN
    /\ produced \in 0..MaxOutput /\ outbuf \in 0..Cap

\* Types; in particular no queue overflows and the process handle is closed at
\* most once by each caller of Close.
TypeOK == ViewOK /\ ServerOK /\ ClientOK /\ SystemOK

\* When HandleCreate has returned, however the two Closes met: the entry is
\* gone and the tty closed (unless the other Close is just about to close the
\* Windows ends); a Unix shell is dead and reaped; a Windows shell is dead, or
\* Wait gave up on it, and its process handle has been given back (pty.go:152).
\* The copies of CopiesKept are left.
ReleasedIsClean ==
    create = "done" =>
        /\ ~entry
        /\ tty = "closed" \/ close["stdin"] = "pipes"
        /\ os = "unix" => shell = "reaped"
        /\ os = "windows" => (shell = "dead" \/ gaveUp) /\ handleCloses > 0

\* A page that reads "pty exited" has been shown all that was printed: tty,
\* stream and socket are drained before each end is passed on (unless the
\* tunnel broke, which the server reports in the same words).
ExitAfterOutput ==
    page = "ended" /\ code = "exited" /\ tunnel = "up" => screen = produced

\* No resize is on its way.
SizeAtRest ==
    /\ page = "open" /\ timer = NoSize /\ \A i \in DOMAIN up : up[i] \notin Sizes
    /\ bridge = "read" /\ resizer = NoSize
    /\ create = "pump" /\ tty = "open" /\ tunnel = "up"

\* At rest the shell's window has the size of the one on the screen: debounce,
\* bridge and the RPC streams do not let an old size overtake a new one.
SizeFollows == SizeAtRest /\ ~missed => winsize = size

\* terminal.tsx:30 says that the size is filled in after the socket is open, so
\* that the handshake cannot have fixed a wrong one; a size chosen while
\* connecting is never sent.
SizeSettles == SizeAtRest => winsize = size

\* winpty/pty.go:15 says that several calls of Wait are safe; two of them close
\* the process handle twice.
WaitIsSafe == handleCloses <= 1

\* winpty/pty.go:15 says that Wait blocks until the process has ended; on
\* Windows release goes on after six seconds whatever the process does.
WaitMeansDead == close["release"] = "done" => shell # "running"

\* pty.go:119 of the server says that the end of the stream means that the
\* process has ended; the stream of a live one ends with the tunnel.
ExitedMeansDead == code = "exited" => shell # "running"

\* Nothing of HandleCreate is left, or it has not begun.
Released == create \in {"none", "refused", "done"}

\* The stdin goroutine is inside pt.Write and cannot see its stream end; either
\* pty.close does not come, since the tunnel has gone or a full window holds the
\* bridge, or the shell it kills leaves a background job with the tty.
Jammed == stdin = "write" /\ (tunnel = "cut" \/ bridge = "write" \/ holder)

\* A terminal whose page or tunnel has gone does not survive them, whatever the
\* shell and its background jobs do, unless input stays unread.  Both causes are
\* for good, so that this says: again and again Released, or again and again
\* Jammed.
AbandonedIsReleased ==
    (page = "left" \/ tunnel = "cut") ~> (Released \/ Jammed)

\* When the shell has ended (and no background job has the tty), the page is
\* told, however much output is still under way.  Not so on Windows.
ExitIsTold ==
    (os = "unix" /\ shell = "dead" /\ ~holder) ~> page \in {"ended", "left"}
=============================================================================
