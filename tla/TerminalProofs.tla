--------------------------- MODULE TerminalProofs ---------------------------
(***************************************************************************)
(* What holds of a terminal whatever it prints and whoever ends it: it is  *)
(* released completely, its output is delivered before its end, sizes do   *)
(* not overtake each other, and once abandoned it is never stuck, except   *)
(* in a shell that leaves its input unread.                                *)
(***************************************************************************)
EXTENDS Terminal, TLAPS

\* A chunk of output is in one place.
Chunks == screen + downStream + outbuf <= produced

TypeInv == TypeOK /\ Chunks

Early == {"none", "start", "refused"}

\* What exists at each stage of HandleCreate, and who may have begun to close it.
Stages ==
    /\ bridge = "accept" => create = "none"
    /\ create \in Early => tty = "none" /\ shell = "none" /\ ~closed
    /\ create \notin Early => tty # "none" /\ shell # "none"
    /\ entry => create \in {"respond", "pump"}
    /\ create \in Early \cup {"respond"} => stdin = "off" /\ close["stdin"] = "idle"
    /\ create \in Early \cup {"respond", "pump"} => close["release"] = "idle"
    /\ stdin # "off" => close["stdin"] = "idle"
    /\ create = "done" => close["release"] = "done"

ClosingUnix == os = "unix" =>
    /\ \A c \in Closers :
          /\ close[c] \in {"idle", "check", "wait", "done"}
          /\ close[c] \in {"wait", "done"} => tty = "closed"
    /\ close["release"] = "done" => shell = "reaped"

\* The two callers of conPTY.Close share a flag; one that passes the check while
\* the other is between the flag and the pipes goes on with the pipes open.
ClosingWindows == os = "windows" =>
    /\ \A c \in Closers :
          /\ close[c] \in {"pipes", "wait", "handle", "done"} => closed
          /\ close[c] = "handle" => shell = "dead" \/ gaveUp
    /\ closed => tty = "closed" \/ \E c \in Closers : close[c] = "pipes"
    /\ close["release"] = "done" => (shell = "dead" \/ gaveUp) /\ handleCloses > 0
    /\ tty # "none" /\ ~hProc => (shell = "dead" \/ gaveUp) /\ handleCloses > 0
    /\ shell # "reaped"

\* Each closer closes the process handle at most once.
Ended(c) == IF close[c] = "done" THEN 1 ELSE 0
HandleCount == handleCloses <= Ended("stdin") + Ended("release")

CloseInv == Stages /\ ClosingUnix /\ ClosingWindows /\ HandleCount

-----------------------------------------------------------------------------

LEMMA TypeStep == TypeInv /\ HandleCount /\ [Next]_vars => TypeInv'
<1> SUFFICES ASSUME TypeInv, HandleCount, [Next]_vars PROVE TypeInv'
  OBVIOUS
<1> USE ConstantsAssumption
        DEF TypeInv, TypeOK, ViewOK, ServerOK, ClientOK, SystemOK, Chunks,
            Closers,
            client, system, view, sock, server, stream
<1>1. ASSUME NEW s \in Sizes, Fit(s) PROVE TypeInv'
  BY <1>1 DEF Fit
<1>2. CASE TimerFires
  <2>1. up' \in Seq(Sizes \cup {"data", "close"}) /\ timer' = NoSize
    BY <1>2 DEF TimerFires, Send
  <2> QED BY <1>2, <2>1 DEF TimerFires
<1>3. CASE Type
  <2>1. up' \in Seq(Sizes \cup {"data", "close"}) /\ moves' \in 0..MaxMoves
    BY <1>3 DEF Type, Send
  <2> QED BY <1>3, <2>1 DEF Type
<1>4. CASE OnOpen
  BY <1>4 DEF OnOpen
<1>5. CASE OnClose
  <2>1. missed' \in BOOLEAN
    BY <1>5 DEF OnClose
  <2>2. page' = "ended" /\ timer' = NoSize /\ size' = FirstSize /\ moves' = MaxMoves
        /\ UNCHANGED <<client, system, screen, sock, server, stream, os>>
    BY <1>5 DEF OnClose
  <2> QED BY <2>1, <2>2
<1>6. CASE Leave
  <2>1. up' \in Seq(Sizes \cup {"data", "close"})
    <3>1. Append(up, "close") \in Seq(Sizes \cup {"data", "close"})
      OBVIOUS
    <3>2. up' = up \/ up' = Append(up, "close") \/ up' = <<>>
      BY <1>6 DEF Leave, Send
    <3>3. up \in Seq(Sizes \cup {"data", "close"})
      OBVIOUS
    <3>4. <<>> \in Seq(Sizes \cup {"data", "close"})
      OBVIOUS
    <3> HIDE DEF TypeInv
    <3> QED BY ONLY <3>1, <3>2, <3>3, <3>4
  <2>2. missed' \in BOOLEAN
    BY <1>6 DEF Leave
  <2>3. page' = "left" /\ timer' = NoSize /\ size' = FirstSize /\ moves' = MaxMoves
        /\ screen' = 0 /\ UNCHANGED <<client, system, code, server, stream, os>>
    BY <1>6 DEF Leave
  <2> QED BY <2>1, <2>2, <2>3
<1>7. CASE Accept
  BY <1>7 DEF Accept
<1>8. CASE Created
  BY <1>8 DEF Created
<1>9. CASE CreateFails
  BY <1>9 DEF CreateFails
<1>10. CASE PumpToWS
  <2>1. screen' + downStream' + outbuf' <= produced' /\ screen' \in Nat
        /\ outPump' \in {"off", "run", "end"} /\ downStream' \in 0..Cap
    BY <1>10 DEF PumpToWS
  <2>2. screen' \in 0..MaxOutput
    BY <1>10, <2>1 DEF PumpToWS
  <2>3. UNCHANGED <<client, system, page, size, timer, missed, moves, sock,
                   bridge, ask, tunnel, upStream, srvEnd, cliEnd, os>>
    BY <1>10 DEF PumpToWS
  <2>4. Chunks'
    BY <2>1, <2>3
  <2>5. ViewOK'
    BY <2>2, <2>3
  <2>6. ServerOK'
    BY <2>1, <2>3
  <2>7. ClientOK' /\ SystemOK'
    BY <2>3
  <2> QED BY <2>4, <2>5, <2>6, <2>7
<1>11. CASE PumpToWSEnds
  BY <1>11 DEF PumpToWSEnds
<1>12. CASE BridgeRead
  <2>1. up' \in Seq(Sizes \cup {"data", "close"}) /\ ask' \in Sizes \cup {NoSize}
    BY <1>12 DEF BridgeRead
  <2>2. bridge' \in {"write", "closing", "rpc"}
    BY <1>12 DEF BridgeRead
  <2> QED BY <1>12, <2>1, <2>2 DEF BridgeRead
<1>13. CASE BridgeReadFails
  BY <1>13 DEF BridgeReadFails
<1>14. CASE BridgeWrite
  BY <1>14 DEF BridgeWrite
<1>15. CASE ResizeAnswered
  BY <1>15 DEF ResizeAnswered
<1>16. CASE CloseRpcFails
  BY <1>16 DEF CloseRpcFails
<1>17. CASE StartPTY
  BY <1>17 DEF StartPTY
<1>18. CASE StartFails
  BY <1>18 DEF StartFails
<1>19. CASE Respond
  <2>1. entry' \in BOOLEAN
    BY <1>19 DEF Respond, Release
  <2>2. killed' \in BOOLEAN
    BY <1>19 DEF Respond, Release, Kill
  <2>3. create' \in {"pump", "release"} /\ stdin' \in {"off", "read", "write"}
        /\ (close' = close \/ close' = [close EXCEPT !["release"] = "check"])
    BY <1>19 DEF Respond, Release
  <2>4. UNCHANGED <<resizer, closed, hProc, handleCloses, gaveUp, tty, winsize, shell,
                   holder, produced, outbuf, view, sock, server, stream, os>>
    BY <1>19 DEF Respond
  <2> QED BY <2>1, <2>2, <2>3, <2>4
<1>20. CASE PumpFrame
  BY <1>20 DEF PumpFrame
<1>21. CASE PumpEnds
  <2>1. entry' \in BOOLEAN
    BY <1>21 DEF PumpEnds, Release
  <2>2. killed' \in BOOLEAN
    BY <1>21 DEF PumpEnds, Release, Kill
  <2>3. create' = "release" /\ close' = [close EXCEPT !["release"] = "check"]
    BY <1>21 DEF PumpEnds, Release
  <2>4. UNCHANGED <<stdin, resizer, closed, hProc, handleCloses, gaveUp, tty, winsize,
                   shell, holder, produced, outbuf, view, sock, server,
                   stream, os>>
    BY <1>21 DEF PumpEnds
  <2> QED BY <2>1, <2>2, <2>3, <2>4
<1>22. CASE CreateReturns
  BY <1>22 DEF CreateReturns
<1>23. CASE StdinRead
  BY <1>23 DEF StdinRead
<1>24. CASE StdinWrite
  BY <1>24 DEF StdinWrite
<1>25. CASE StdinEnds
  BY <1>25 DEF StdinEnds
<1>26. CASE ResizeLookup
  BY <1>26 DEF ResizeLookup
<1>27. CASE SetSize
  BY <1>27 DEF SetSize
<1>28. CASE HandleClose
  BY <1>28 DEF HandleClose, Kill
<1>29. ASSUME NEW c \in Closers, PTYClose(c) PROVE TypeInv'
  <2>1. CASE CloseTTY(c)
    BY <1>29, <2>1 DEF PTYClose, CloseTTY, CloseStep
  <2>2. CASE Reap(c)
    BY <1>29, <2>2 DEF PTYClose, Reap, CloseStep
  <2>3. CASE CheckClosed(c)
    BY <1>29, <2>3 DEF PTYClose, CheckClosed, CloseStep
  <2>4. CASE MarkClosed(c)
    BY <1>29, <2>4 DEF PTYClose, MarkClosed, CloseStep
  <2>5. CASE ClosePipes(c)
    BY <1>29, <2>5 DEF PTYClose, ClosePipes, CloseStep
  <2>6. CASE WaitProcess(c)
    <3>1. killed' \in BOOLEAN
      BY <2>6 DEF WaitProcess
    <3>2. \E to \in {"done", "handle", "wait"} : close' = [close EXCEPT ![c] = to]
      BY <2>6 DEF WaitProcess, CloseStep
    <3>3. UNCHANGED <<create, stdin, resizer, entry, holder, produced, outbuf, view,
                     sock, server, stream, os>>
          /\ UNCHANGED <<winsize, closed, hProc, handleCloses, tty, shell>>
      BY <1>29, <2>6 DEF PTYClose, WaitProcess
    <3>4. gaveUp' \in BOOLEAN
      BY <2>6 DEF WaitProcess
    <3> QED BY <3>1, <3>2, <3>3, <3>4
  <2>7. CASE CloseHandle(c)
    <3>1. hProc' \in BOOLEAN
      BY <2>7 DEF CloseHandle
    <3>2. handleCloses' \in 0..2
      BY <2>7 DEF CloseHandle, CloseStep, HandleCount, Ended
    <3>3. close' = [close EXCEPT ![c] = "done"]
      BY <2>7 DEF CloseHandle, CloseStep
    <3>4. UNCHANGED <<create, stdin, resizer, entry, holder, produced, outbuf, view,
                     sock, server, stream, os>>
          /\ UNCHANGED <<winsize, closed, tty, shell, killed, gaveUp>>
      BY <1>29, <2>7 DEF PTYClose, CloseHandle
    <3> QED BY <3>1, <3>2, <3>3, <3>4
  <2> QED BY <1>29, <2>1, <2>2, <2>3, <2>4, <2>5, <2>6, <2>7 DEF PTYClose
<1>30. CASE ShellPrints
  BY <1>30 DEF ShellPrints
<1>31. CASE ShellDies
  <2>1. holder' \in BOOLEAN /\ shell' = "dead"
    BY <1>31 DEF ShellDies
  <2>2. UNCHANGED <<client, tty, winsize, killed, produced, outbuf, view,
                   sock, server, stream, os>>
    BY <1>31 DEF ShellDies
  <2> QED BY <2>1, <2>2
<1>32. CASE HolderExits
  <2>1. holder' \in BOOLEAN
    BY <1>32 DEF HolderExits
  <2>2. UNCHANGED <<client, tty, winsize, shell, killed, produced, outbuf,
                   view, sock, server, stream, os>>
    BY <1>32 DEF HolderExits
  <2> QED BY <2>1, <2>2
<1>33. CASE Cut
  BY <1>33 DEF Cut
<1>34. CASE UNCHANGED vars
  BY <1>34 DEF vars
<1> QED
  BY <1>1, <1>2, <1>3, <1>4, <1>5, <1>6, <1>7, <1>8, <1>9, <1>10, <1>11, <1>12,
     <1>13, <1>14, <1>15, <1>16, <1>17, <1>18, <1>19, <1>20, <1>21, <1>22, <1>23,
     <1>24, <1>25, <1>26, <1>27, <1>28, <1>29, <1>30, <1>31, <1>32, <1>33, <1>34
  DEF Next, Page, Server, Client, System

-----------------------------------------------------------------------------
(* The release.                                                            *)

core == <<create, stdin, entry, os, close, closed, tty, hProc, handleCloses, gaveUp,
          shell>>

LEMMA CoreStutter ==
  ASSUME CloseInv, UNCHANGED core, bridge' = "accept" => bridge = "accept"
  PROVE  CloseInv'
BY DEF CloseInv, Stages, ClosingUnix, ClosingWindows, HandleCount, Ended, core

\* The two callers of Close, step by step.
LEMMA PTYCloseStep ==
  ASSUME TypeOK, CloseInv, NEW c \in Closers, PTYClose(c)
  PROVE  CloseInv'
<1> USE DEF CloseInv, Closers, CloseStep
<1>0. /\ close \in [Closers -> {"idle", "check", "mark", "pipes", "wait", "handle",
                                "done"}]
      /\ handleCloses \in Nat
  BY DEF TypeOK, ClientOK
<1>1. close[c] # "idle"
  BY DEF PTYClose, CloseTTY, Reap, CheckClosed, MarkClosed, ClosePipes,
         WaitProcess, CloseHandle
<1>2. create \notin Early /\ tty # "none" /\ shell # "none"
  BY <1>1 DEF Stages
<1>3. UNCHANGED <<create, stdin, entry, bridge, os>>
  BY DEF PTYClose, server
<1>4. \E to \in {"wait", "done", "mark", "pipes", "handle"} :
         close' = [close EXCEPT ![c] = to]
  BY <1>0 DEF PTYClose, CloseTTY, Reap, CheckClosed, MarkClosed, ClosePipes,
         WaitProcess, CloseHandle
<1>5. tty' # "none" /\ shell' # "none"
  BY <1>2 DEF PTYClose, CloseTTY, Reap, CheckClosed, MarkClosed, ClosePipes,
         WaitProcess, CloseHandle
<1>6. close[c] # "done"
  BY DEF PTYClose, CloseTTY, Reap, CheckClosed, MarkClosed, ClosePipes,
         WaitProcess, CloseHandle
<1>7. Stages'
  BY <1>0, <1>1, <1>2, <1>3, <1>4, <1>5, <1>6 DEF Stages, Early
<1>8. HandleCount'
  <2>1. CASE CloseHandle(c)
    <3>1. close' = [close EXCEPT ![c] = "done"] /\ handleCloses' = handleCloses + 1
      BY <2>1 DEF CloseHandle
    <3> QED BY <1>0, <1>6, <3>1 DEF HandleCount, Ended
  <2>2. CASE ~CloseHandle(c)
    <3>1. handleCloses' = handleCloses
      BY <2>2 DEF PTYClose, CloseTTY, Reap, CheckClosed, MarkClosed, ClosePipes,
                  WaitProcess
    <3> QED BY <1>0, <1>4, <1>6, <3>1 DEF HandleCount, Ended
  <2> QED BY <2>1, <2>2
<1>9. ClosingUnix'
  <2> SUFFICES ASSUME os = "unix" PROVE ClosingUnix'
    BY <1>3 DEF ClosingUnix
  <2>1. CASE CloseTTY(c)
    BY <1>0, <1>3, <2>1 DEF CloseTTY, ClosingUnix
  <2>2. CASE Reap(c)
    BY <1>0, <1>3, <2>2 DEF Reap, ClosingUnix
  <2>3. ~MarkClosed(c) /\ ~ClosePipes(c) /\ ~CloseHandle(c)
    BY DEF MarkClosed, ClosePipes, CloseHandle, ClosingUnix
  <2> QED BY <2>1, <2>2, <2>3 DEF PTYClose, CheckClosed, WaitProcess
<1>10. ClosingWindows'
  <2> SUFFICES ASSUME os = "windows" PROVE ClosingWindows'
    BY <1>3 DEF ClosingWindows
  <2>1. CASE CheckClosed(c)
    BY <1>0, <1>2, <1>3, <2>1 DEF CheckClosed, ClosingWindows
  <2>2. CASE MarkClosed(c)
    BY <1>0, <1>2, <1>3, <2>2 DEF MarkClosed, ClosingWindows
  <2>3. CASE ClosePipes(c)
    BY <1>0, <1>2, <1>3, <2>3 DEF ClosePipes, ClosingWindows
  <2>4. CASE WaitProcess(c)
    BY <1>0, <1>2, <1>3, <2>4 DEF WaitProcess, ClosingWindows
  <2>5. CASE CloseHandle(c)
    BY <1>0, <1>2, <1>3, <2>5 DEF CloseHandle, ClosingWindows
  <2> QED BY <2>1, <2>2, <2>3, <2>4, <2>5 DEF PTYClose, CloseTTY, Reap
<1> QED BY <1>7, <1>8, <1>9, <1>10

\* Everybody else.  Only HandleCreate and its stdin goroutine begin a Close, each
\* once; the shell may die at any time.
LEMMA CloseInvStep == TypeOK /\ CloseInv /\ [Next]_vars => CloseInv'
<1> SUFFICES ASSUME TypeOK, CloseInv, [Next]_vars PROVE CloseInv'
  OBVIOUS
<1> USE DEF Closers, Early
<1>0. /\ close \in [Closers -> {"idle", "check", "mark", "pipes", "wait", "handle",
                                "done"}]
      /\ create \in Early \cup {"respond", "pump", "release", "done"}
      /\ handleCloses \in Nat
  BY DEF TypeOK, ClientOK
<1>1. CASE Accept
  <2>1. create = "none" /\ create' \in {"none", "start"} /\ bridge' # "accept"
    BY <1>1 DEF Accept, CloseInv, Stages
  <2>2. UNCHANGED <<stdin, entry, close, closed, hProc, handleCloses, gaveUp, tty, shell, os>>
    BY <1>1 DEF Accept, system
  <2> QED BY <2>1, <2>2 DEF CloseInv, Stages, ClosingUnix, ClosingWindows,
                            HandleCount, Ended
<1>2. CASE StartPTY
  <2>1. UNCHANGED <<stdin, os, close, closed, handleCloses, gaveUp, bridge>>
    BY <1>2 DEF StartPTY, server
  <2>2. close["stdin"] = "idle" /\ close["release"] = "idle" /\ stdin = "off"
        /\ ~closed /\ bridge # "accept"
    BY <1>2 DEF StartPTY, CloseInv, Stages
  <2>3. create' = "respond" /\ tty' = "open" /\ shell' = "running"
        /\ (os = "windows" => hProc')
    BY <1>2 DEF StartPTY
  <2> QED BY <2>1, <2>2, <2>3 DEF CloseInv, Stages, ClosingUnix, ClosingWindows,
                            HandleCount, Ended
<1>3. CASE StartFails
  <2>1. UNCHANGED <<stdin, entry, close, closed, hProc, handleCloses, gaveUp, tty, shell, os,
                    bridge>>
    BY <1>3 DEF StartFails, system, server
  <2> QED BY <1>3, <2>1 DEF StartFails, CloseInv, Stages, ClosingUnix, ClosingWindows,
                            HandleCount, Ended
<1>4. ASSUME Release, create \in {"respond", "pump"}, UNCHANGED stdin,
             UNCHANGED <<os, closed, tty, hProc, handleCloses, gaveUp, shell, bridge>>
      PROVE  CloseInv'
  <2>1. close["release"] = "idle" /\ close' = [close EXCEPT !["release"] = "check"]
    BY <1>4 DEF Release, CloseInv, Stages
  <2>2. create' = "release" /\ ~entry'
    BY <1>4 DEF Release
  <2> QED BY <1>0, <1>4, <2>1, <2>2 DEF CloseInv, Stages, ClosingUnix,
                            ClosingWindows, HandleCount, Ended
<1>5. CASE Respond
  <2>1. UNCHANGED <<os, closed, tty, hProc, handleCloses, gaveUp, shell, bridge>>
        /\ create = "respond"
    BY <1>5 DEF Respond, server
  <2>2. CASE Release /\ UNCHANGED stdin
    BY <1>4, <2>1, <2>2
  <2>3. CASE create' = "pump" /\ stdin' = "read" /\ UNCHANGED <<entry, close>>
    BY <1>0, <2>1, <2>3 DEF CloseInv, Stages, ClosingUnix,
                            ClosingWindows, HandleCount, Ended
  <2> QED BY <1>5, <2>2, <2>3 DEF Respond
<1>6. CASE PumpEnds
  BY <1>4, <1>6 DEF PumpEnds, server
<1>7. CASE CreateReturns
  BY <1>0, <1>7 DEF CreateReturns, CloseInv, Stages, ClosingUnix,
                            ClosingWindows, HandleCount, Ended, system, server
<1>8. CASE StdinRead \/ StdinWrite
  <2>1. stdin # "off" /\ UNCHANGED <<create, entry, close, closed, hProc,
                            handleCloses, gaveUp, tty, shell, os, bridge>>
    BY <1>8 DEF StdinRead, StdinWrite, system, server
  <2> QED BY <1>0, <2>1 DEF CloseInv, Stages, ClosingUnix,
                            ClosingWindows, HandleCount, Ended
<1>9. CASE StdinEnds
  <2>1. stdin # "off" /\ stdin' = "off" /\ close["stdin"] = "idle"
        /\ close' = [close EXCEPT !["stdin"] = "check"]
    BY <1>9 DEF StdinEnds, CloseInv, Stages
  <2>2. UNCHANGED <<create, entry, closed, hProc, handleCloses, gaveUp, tty, shell, os, bridge>>
    BY <1>9 DEF StdinEnds, system, server
  <2> QED BY <1>0, <2>1, <2>2 DEF CloseInv, Stages, ClosingUnix,
                            ClosingWindows, HandleCount, Ended
<1>10. ASSUME NEW c \in Closers, PTYClose(c) PROVE CloseInv'
  BY <1>10, PTYCloseStep
<1>11. CASE ShellDies
  <2>1. shell = "running" /\ shell' = "dead"
        /\ UNCHANGED <<create, stdin, entry, os, close, closed, tty, hProc,
                       handleCloses, gaveUp, bridge>>
    BY <1>11 DEF ShellDies, client, server
  <2> QED BY <1>0, <2>1 DEF CloseInv, Stages, ClosingUnix,
                            ClosingWindows, HandleCount, Ended
<1>12. CASE Page \/ (Server /\ ~Accept) \/ UNCHANGED vars
  <2>1. UNCHANGED core /\ (bridge' = "accept" => bridge = "accept")
    BY <1>12 DEF Page, Fit, TimerFires, Type, OnOpen, OnClose, Leave, Server,
         Created, CreateFails, PumpToWS, PumpToWSEnds, BridgeRead, BridgeReadFails,
         BridgeWrite, ResizeAnswered, CloseRpcFails, vars, core,
         client, system, server
  <2> QED BY <2>1, CoreStutter
<1>13. CASE PumpFrame \/ ResizeLookup \/ SetSize \/ HandleClose
            \/ ShellPrints \/ HolderExits \/ Cut
  <2>1. UNCHANGED core /\ (bridge' = "accept" => bridge = "accept")
    BY <1>13 DEF PumpFrame, ResizeLookup, SetSize, HandleClose, ShellPrints,
         HolderExits, Cut, core, client, system, server
  <2> QED BY <2>1, CoreStutter
<1> QED
  BY <1>1, <1>2, <1>3, <1>5, <1>6, <1>7, <1>8, <1>9, <1>10, <1>11, <1>12, <1>13
  DEF Next, Client, System, Server

-----------------------------------------------------------------------------
(* The output.                                                             *)

Connected == tunnel = "up" /\ page # "left" /\ code \in {"none", "exited"}

\* Nobody will print any more.
Quiet == tty = "closed" \/ (shell # "running" /\ ~holder)

\* Up to the first Close nothing printed is lost on a path that holds, and that
\* Close comes after the last of it.
Delivered ==
    /\ cliEnd => create \in {"done", "refused"}
    /\ srvEnd => code # "none"
    /\ outPump # "off" => create \in {"pump", "release", "done"}
    /\ bridge \in {"accept", "await"} => outPump = "off"
    /\ code = "exited" => outPump = "end"
    /\ Connected =>
          /\ screen + downStream + outbuf = produced
          /\ create \in {"respond", "pump"} => tty = "open" /\ close["stdin"] = "idle"
          /\ create \in {"release", "done"} => outbuf = 0 /\ Quiet
          /\ code = "exited" => create = "done" /\ downStream = 0

output == <<screen, downStream, outbuf, produced, create, srvEnd, cliEnd, code,
            outPump, tty, shell, holder>>

LEMMA OutputStutter ==
  ASSUME Delivered, UNCHANGED output, Connected' => Connected,
         close'["stdin"] = close["stdin"],
         bridge' \in {"accept", "await"} => bridge \in {"accept", "await"}
  PROVE  Delivered'
BY DEF Delivered, output, Quiet

LEMMA DeliveredStep == TypeOK /\ CloseInv /\ Delivered /\ [Next]_vars => Delivered'
<1> SUFFICES ASSUME TypeOK, CloseInv, Delivered, [Next]_vars PROVE Delivered'
  OBVIOUS
<1> USE DEF Early, Closers
<1>0. /\ close \in [Closers -> {"idle", "check", "mark", "pipes", "wait", "handle",
                                "done"}]
      /\ create \in Early \cup {"respond", "pump", "release", "done"}
      /\ screen \in Int /\ downStream \in Int /\ outbuf \in Int /\ produced \in Int
  BY ConstantsAssumption DEF TypeOK, ClientOK, ViewOK, ServerOK, SystemOK
<1>1. CASE Page
  <2>1. CASE Leave
    BY <2>1 DEF Leave, Delivered, Connected, client, system, server, stream
  <2>2. CASE ~Leave
    <3>1. UNCHANGED <<client, system, server, stream, code, screen>>
          /\ (page = "left" => page' = "left")
      BY <1>1, <2>2 DEF Page, Fit, TimerFires, Type, OnOpen, OnClose, sock
    <3> QED BY <3>1, OutputStutter DEF output, Connected, client, system, server,
                                       stream
  <2> QED BY <2>1, <2>2
<1>2. CASE Accept
  <2>1. create = "none" /\ create' \in {"none", "start"}
    BY <1>2 DEF Accept, CloseInv, Stages
  <2>2. UNCHANGED <<screen, downStream, outbuf, produced, srvEnd, cliEnd, outPump,
                    tunnel, page>>
    BY <1>2 DEF Accept, system, view, stream
  <2>3. code' \in {code, "refused"} /\ bridge = "accept"
    BY <1>2 DEF Accept
  <2> QED BY <2>1, <2>2, <2>3 DEF Delivered, Connected
<1>3. CASE Created
  BY <1>0, <1>3 DEF Created, Delivered, Connected, Quiet, client, system, view,
     sock, stream
<1>4. CASE CreateFails
  BY <1>4 DEF CreateFails, Delivered, Connected, client, system, view
<1>5. CASE PumpToWS
  <2>1. code # "exited" /\ UNCHANGED <<client, system, page, code, tunnel, srvEnd,
                                     cliEnd, bridge>>
    BY <1>5 DEF PumpToWS, Delivered, sock
  <2>2. outPump' # "off" /\ outPump = "run" /\ downStream' = downStream - 1
    BY <1>5 DEF PumpToWS
  <2>3. Connected => screen' = screen + 1
    BY <1>5, <2>1 DEF PumpToWS, Connected
  <2> QED BY <1>0, <2>1, <2>2, <2>3 DEF Delivered, Connected, Quiet, client, system
<1>6. CASE PumpToWSEnds
  <2>1. UNCHANGED <<client, system, page, screen, tunnel, srvEnd, cliEnd, downStream,
                    bridge>>
    BY <1>6 DEF PumpToWSEnds, view, stream
  <2>2. outPump = "run" /\ outPump' = "end" /\ downStream = 0
        /\ (cliEnd \/ tunnel = "cut")
        /\ code' = IF code = "none" THEN "exited" ELSE code
    BY <1>6 DEF PumpToWSEnds
  <2> QED BY <1>0, <2>1, <2>2 DEF Delivered, Connected, Quiet, client, system
<1>7. CASE BridgeRead \/ BridgeReadFails \/ BridgeWrite \/ ResizeAnswered
  <2>1. UNCHANGED output /\ UNCHANGED <<page, tunnel, close>>
        /\ bridge' \notin {"accept", "await"}
    BY <1>7 DEF BridgeRead, BridgeReadFails, BridgeWrite, ResizeAnswered, output,
       client, system, view, sock, stream
  <2> QED BY <2>1, OutputStutter DEF output, Connected
<1>8. CASE CloseRpcFails \/ HandleClose
  <2>1. UNCHANGED <<create, close, tty, shell, holder, produced, outbuf, page, screen,
                    outPump, tunnel, downStream, cliEnd>>
    BY <1>8 DEF CloseRpcFails, HandleClose, client, system, view
  <2>2. code' = IF code = "none" THEN "normal" ELSE code
    BY <1>8 DEF CloseRpcFails, HandleClose
  <2>3. bridge' = "closed"
    BY <1>8 DEF CloseRpcFails, HandleClose
  <2> QED BY <2>1, <2>2, <2>3 DEF Delivered, Connected, Quiet
<1>9. CASE StartPTY
  <2>1. UNCHANGED <<close, produced, outbuf, view, sock, server, stream>>
        /\ create = "start" /\ create' = "respond" /\ tty' = "open"
    BY <1>9 DEF StartPTY
  <2> QED BY <2>1 DEF Delivered, Connected, CloseInv, Stages, view, sock, server, stream
<1>10. CASE StartFails
  BY <1>10 DEF StartFails, Delivered, Connected, system, view, sock, server
<1>11. CASE Respond
  <2>1. UNCHANGED <<system, view, sock, server, stream>> \/ tunnel = "cut"
    BY <1>11 DEF Respond, system
  <2>2. UNCHANGED <<view, sock, server, stream, produced, outbuf>>
        /\ create = "respond" /\ create' \in {"pump", "release"}
    BY <1>11 DEF Respond, Release
  <2>3. tunnel # "cut" => create' = "pump" /\ UNCHANGED <<close, tty>>
    BY <1>11 DEF Respond
  <2> QED BY <2>2, <2>3 DEF Delivered, Connected, view, sock, server, stream
<1>12. CASE PumpFrame
  <2>1. UNCHANGED <<client, tty, shell, holder, produced, view, sock, server, tunnel,
                    srvEnd, cliEnd>>
        /\ outbuf' = outbuf - 1 /\ create = "pump"
        /\ (tunnel # "cut" => downStream' = downStream + 1)
    BY <1>12 DEF PumpFrame
  <2>2. Connected' => Connected /\ tunnel # "cut"
    BY <2>1 DEF Connected, view, sock
  <2>3. Connected' => screen' + downStream' + outbuf' = produced'
    BY <1>0, <2>1, <2>2 DEF Delivered, view
  <2>4. (create' = "pump" /\ code # "exited") \/ ~Connected
    BY <2>1 DEF Delivered, client
  <2> QED BY <2>1, <2>2, <2>3, <2>4 DEF Delivered, client, view, sock, server
<1>13. CASE PumpEnds
  <2>1. UNCHANGED <<tty, shell, holder, produced, outbuf, view, sock, server, stream>>
        /\ create = "pump" /\ create' = "release"
    BY <1>13 DEF PumpEnds, Release
  <2>2. Connected => outbuf = 0 /\ Quiet
    BY <1>0, <1>13 DEF PumpEnds, OutputEnds, CopiesKept, Delivered, Connected, Quiet
  <2> QED BY <2>1, <2>2 DEF Delivered, Connected, Quiet, view, sock, server, stream
<1>14. CASE CreateReturns
  BY <1>14 DEF CreateReturns, Delivered, Connected, Quiet, system, view, sock, server
<1>15. CASE StdinRead \/ StdinWrite \/ ResizeLookup \/ SetSize
  <2>1. UNCHANGED output /\ UNCHANGED <<page, tunnel, close, bridge>>
    BY <1>15 DEF StdinRead, StdinWrite, ResizeLookup, SetSize, output,
       system, view, sock, server, stream
  <2> QED BY <2>1, OutputStutter DEF output, Connected
<1>16. CASE StdinEnds
  <2>1. UNCHANGED <<create, system, view, sock, server, stream>>
    BY <1>16 DEF StdinEnds
  <2>2. Connected => create \notin {"respond", "pump"}
    BY <1>16 DEF StdinEnds, Delivered, Connected
  <2> QED BY <2>1, <2>2 DEF Delivered, Connected, Quiet, system, view, sock, server,
                            stream
<1>17. ASSUME NEW c \in Closers, PTYClose(c) PROVE Delivered'
  <2>1. UNCHANGED <<create, holder, produced, outbuf, view, sock, server, stream>>
    BY <1>17 DEF PTYClose
  <2>2. close[c] # "idle"
    BY <1>17 DEF PTYClose, CloseStep, CloseTTY, Reap, CheckClosed, MarkClosed,
                 ClosePipes, WaitProcess, CloseHandle
  <2>3. Connected => create \notin {"respond", "pump"}
    BY <2>2 DEF Delivered, Connected, CloseInv, Stages
  <2>4. Quiet => Quiet'
    BY <1>17, <2>1 DEF PTYClose, CloseStep, CloseTTY, Reap, CheckClosed, MarkClosed,
                 ClosePipes, WaitProcess, CloseHandle, Quiet
  <2> QED BY <2>1, <2>3, <2>4 DEF Delivered, Connected, view, sock, server, stream
<1>18. CASE ShellPrints
  <2>1. UNCHANGED <<client, tty, shell, holder, view, sock, server, stream>>
        /\ tty = "open" /\ ~Quiet /\ produced' = produced + 1 /\ outbuf' = outbuf + 1
    BY <1>18 DEF ShellPrints, Quiet
  <2> QED BY <1>0, <2>1 DEF Delivered, Connected, Quiet, client, view, sock, server,
                            stream
<1>19. CASE ShellDies
  <2>1. UNCHANGED <<client, tty, produced, outbuf, view, sock, server, stream>>
        /\ shell = "running" /\ shell' = "dead"
    BY <1>19 DEF ShellDies
  <2>2. Quiet => Quiet'
    BY <2>1 DEF Quiet
  <2> QED BY <2>1, <2>2 DEF Delivered, Connected, client, view, sock, server, stream
<1>20. CASE HolderExits
  <2>1. UNCHANGED <<client, tty, shell, produced, outbuf, view, sock, server, stream>>
        /\ ~holder'
    BY <1>20 DEF HolderExits
  <2>2. Quiet => Quiet'
    BY <2>1 DEF Quiet
  <2> QED BY <2>1, <2>2 DEF Delivered, Connected, client, view, sock, server, stream
<1>21. CASE Cut
  BY <1>21 DEF Cut, Delivered, Connected, client, system, sock, server
<1>22. CASE UNCHANGED vars
  BY <1>22, OutputStutter DEF vars, output, Connected, client, system, view, sock,
     server, stream
<1> QED
  BY <1>1, <1>2, <1>3, <1>4, <1>5, <1>6, <1>7, <1>8, <1>9, <1>10, <1>11, <1>12,
     <1>13, <1>14, <1>15, <1>16, <1>17, <1>18, <1>19, <1>20, <1>21, <1>22
  DEF Next, Client, System, Server

-----------------------------------------------------------------------------
(* The size.                                                               *)

\* A resize can still arrive.
Resizable ==
    /\ page \in {"connecting", "open"} /\ ~missed
    /\ tunnel = "up" /\ bridge \notin {"closing", "closed"}
    /\ create \in {"none", "start", "respond", "pump"} /\ tty # "closed"

Sent == \E i \in DOMAIN up : up[i] \in Sizes

\* The message is the last of its kind.
LastSent(i) ==
    up[i] \in Sizes /\ \A j \in DOMAIN up : j > i => up[j] \notin Sizes

\* The size nearest to the screen is the one on the screen: in the timer, in the
\* last message, in the request under way, at the tty.
Newest ==
    /\ timer # NoSize => timer = size
    /\ timer = NoSize => \A i \in DOMAIN up : LastSent(i) => up[i] = size
    /\ timer = NoSize /\ ~Sent /\ ask # NoSize => ask = size
    /\ timer = NoSize /\ ~Sent /\ ask = NoSize =>
           IF create \in {"none", "start"} THEN size = FirstSize ELSE winsize = size

Sized ==
    /\ create \in {"respond", "pump"} => entry
    /\ page = "connecting" => timer = NoSize /\ up = <<>>
    /\ bridge \in {"read", "write", "rpc"} => create \in {"pump", "release", "done"}
    /\ tunnel = "up" => /\ ask # NoSize => bridge = "rpc"
                        /\ resizer # NoSize => resizer = ask
    /\ Resizable => Newest

sizing == <<page, missed, size, timer, up, ask, resizer, winsize, tunnel, create, tty,
            entry>>

LEMMA SizeStutter ==
  ASSUME Sized, UNCHANGED sizing,
         bridge' = bridge \/ (bridge' \in {"read", "closing", "closed"}
                             /\ bridge \in {"read", "write"})
  PROVE  Sized'
BY DEF Sized, sizing, Resizable, Newest, Sent, LastSent

LEMMA SizedStep == TypeOK /\ CloseInv /\ Sized /\ [Next]_vars => Sized'
<1> SUFFICES ASSUME TypeOK, CloseInv, Sized, [Next]_vars PROVE Sized'
  OBVIOUS
<1> USE ConstantsAssumption DEF Early
<1>0. /\ up \in Seq(Sizes \cup {"data", "close"})
      /\ ask \in Sizes \cup {NoSize} /\ resizer \in Sizes \cup {NoSize}
      /\ size \in Sizes /\ timer \in Sizes \cup {NoSize}
      /\ missed \in BOOLEAN /\ entry \in BOOLEAN
      /\ create \in Early \cup {"respond", "pump", "release", "done"}
      /\ tty \in {"none", "open", "closed"}
  BY DEF TypeOK, ClientOK, ViewOK, ServerOK, SystemOK
<1>1. ASSUME NEW s \in Sizes, Fit(s) PROVE Sized'
  <2>1. UNCHANGED <<client, system, page, sock, server, stream>> /\ size' = s
        /\ (page = "open" => timer' = s) /\ (page # "open" => missed' /\ timer' = timer)
    BY <1>1 DEF Fit
  <2> QED BY <1>0, <1>1, <2>1 DEF Fit, Sized, Resizable, Newest, Sent, LastSent,
          client, system, sock, server, stream
<1>2. CASE TimerFires
  <2>1. UNCHANGED <<client, system, page, size, missed, server, stream>>
        /\ timer # NoSize /\ timer' = NoSize /\ page # "connecting"
    BY <1>2 DEF TimerFires, Sized
  <2>2. Resizable => timer = size /\ up' = Append(up, size)
    BY <1>2, <2>1 DEF TimerFires, Send, Sized, Resizable, Newest
  <2>3. Resizable => Newest'
    <3> SUFFICES ASSUME Resizable PROVE Newest'
      OBVIOUS
    <3>1. Len(up') = Len(up) + 1 /\ DOMAIN up' = 1 .. Len(up) + 1
          /\ up'[Len(up) + 1] = size
      BY <1>0, <2>2
    <3>2. Sent'
      BY <1>0, <3>1 DEF Sent
    <3>3. \A i \in DOMAIN up' : LastSent(i)' => i = Len(up) + 1
      BY <1>0, <2>1, <3>1 DEF LastSent
    <3> QED BY <2>1, <3>1, <3>2, <3>3 DEF Newest
  <2> QED BY <2>1, <2>3 DEF Sized, Resizable, client, system, server, stream
<1>3. CASE Type
  <2>1. UNCHANGED <<client, system, page, size, timer, missed, server, stream>>
        /\ page = "open"
    BY <1>3 DEF Type
  <2>2. Resizable => up' = Append(up, "data")
    BY <1>3 DEF Type, Send, Resizable
  <2>3. Resizable => Newest'
    <3> SUFFICES ASSUME Resizable PROVE Newest'
      OBVIOUS
    <3>1. DOMAIN up = 1 .. Len(up) /\ DOMAIN up' = 1 .. Len(up) + 1
          /\ up'[Len(up) + 1] \notin Sizes
          /\ \A i \in DOMAIN up : up'[i] = up[i]
      BY <1>0, <2>2
    <3>2. Sent' <=> Sent
      BY <1>0, <3>1 DEF Sent
    <3>3. \A i \in DOMAIN up' : LastSent(i)' => i \in DOMAIN up /\ LastSent(i)
      BY <1>0, <3>1 DEF LastSent
    <3>4. Newest
      BY DEF Sized
    <3> QED BY <2>1, <3>1, <3>2, <3>3, <3>4 DEF Newest, client, system, server
  <2> QED BY <2>1, <2>3 DEF Sized, Resizable, client, system, server, stream
<1>4. CASE OnOpen
  BY <1>4 DEF OnOpen, Sized, Resizable, Newest, Sent, LastSent,
     client, system, sock, server, stream
<1>5. CASE OnClose \/ Leave
  BY <1>5 DEF OnClose, Leave, Sized, Resizable, client, system, server, stream
<1>6. CASE Accept
  <2>1. create = "none" /\ create' \in {"none", "start"} /\ bridge' \in {"await", "closed"}
        /\ bridge = "accept"
    BY <1>6 DEF Accept, CloseInv, Stages
  <2>2. UNCHANGED <<page, missed, size, timer, up, ask, resizer, winsize, tunnel, tty,
                    entry>>
    BY <1>6 DEF Accept, system, view, stream
  <2> QED BY <2>1, <2>2 DEF Sized, Resizable, Newest, Sent, LastSent
<1>7. CASE Created
  <2>1. UNCHANGED sizing /\ bridge' = "read" /\ bridge = "await"
        /\ create \in {"pump", "release", "done"}
    BY <1>0, <1>7 DEF Created, sizing, client, system, view, sock, stream
  <2> QED BY <2>1 DEF Sized, sizing, Resizable, Newest, Sent, LastSent
<1>8. CASE CreateFails
  BY <1>8 DEF CreateFails, Sized, Resizable, client, system, view
<1>9. CASE PumpToWS \/ PumpToWSEnds \/ BridgeWrite
  <2>1. UNCHANGED sizing /\ (bridge' = bridge \/ (bridge' \in {"read", "closing"}
                                               /\ bridge = "write"))
    BY <1>9 DEF PumpToWS, PumpToWSEnds, BridgeWrite, sizing, client, system, view,
       sock, stream
  <2> QED BY <2>1, SizeStutter
<1>10. CASE BridgeRead
  <2>1. UNCHANGED <<client, system, view, stream>> /\ bridge = "read" /\ up # <<>>
        /\ bridge' \in {"write", "closing", "rpc"}
        /\ up' = (IF Head(up) = "close" THEN <<>> ELSE Tail(up))
        /\ ask' = (IF Head(up) \in Sizes THEN Head(up) ELSE ask)
    BY <1>10 DEF BridgeRead
  <2>2. Head(up) = up[1] /\ up[1] \in Sizes \cup {"data", "close"} /\ 1 \in DOMAIN up
    BY <1>0, <2>1
  <2>3. (up[1] = "close" <=> bridge' = "closing") /\ (up[1] \in Sizes => bridge' = "rpc")
    <3>1. CASE up[1] = "data"
      BY <1>10, <2>2, <3>1 DEF BridgeRead
    <3>2. CASE up[1] = "close"
      BY <1>10, <2>2, <3>2 DEF BridgeRead
    <3>3. CASE up[1] \notin {"data", "close"}
      BY <1>10, <2>2, <3>3 DEF BridgeRead
    <3> QED BY <3>1, <3>2, <3>3
  <2>4. Resizable' => Newest'
    <3> SUFFICES ASSUME Resizable' PROVE Newest'
      OBVIOUS
    <3>1. Newest /\ ask = NoSize
      BY <2>1 DEF Sized, Resizable, client, system, view, stream
    <3>2. up' = Tail(up)
      BY <2>1, <2>2, <2>3 DEF Resizable
    <3>3. /\ DOMAIN up = 1 .. Len(up) /\ DOMAIN up' = 1 .. Len(up) - 1
          /\ \A i \in DOMAIN up' : i + 1 \in DOMAIN up /\ up'[i] = up[i + 1]
          /\ \A i \in DOMAIN up : i # 1 => i - 1 \in DOMAIN up' /\ up'[i - 1] = up[i]
          /\ Len(up) \in Nat
      BY <1>0, <2>1, <3>2
    <3>4. \A i \in DOMAIN up' : LastSent(i)' => LastSent(i + 1)
      BY <3>3 DEF LastSent
    <3>5. ~Sent' => \A i \in DOMAIN up : i # 1 => up[i] \notin Sizes
      BY <3>3 DEF Sent
    <3>6. ~Sent' /\ up[1] \in Sizes => LastSent(1)
      BY <3>3, <3>5 DEF LastSent
    <3>7. ~Sent' /\ up[1] \notin Sizes => ~Sent
      BY <3>5 DEF Sent
    <3>8. UNCHANGED <<timer, size, winsize, create>>
      BY <2>1 DEF client, system, view
    <3>9. ~Sent' => ask' = IF up[1] \in Sizes THEN up[1] ELSE NoSize
      BY <2>1, <2>2, <3>1
    <3>10. timer = NoSize => \A i \in DOMAIN up' : LastSent(i)' => up'[i] = size
      BY <3>1, <3>3, <3>4 DEF Newest
    <3>11. timer = NoSize /\ ~Sent' /\ up[1] \in Sizes => up[1] = size
      BY <2>2, <3>1, <3>6 DEF Newest
    <3> QED BY <2>2, <3>1, <3>7, <3>8, <3>9, <3>10, <3>11 DEF Newest
  <2>5. page' # "connecting"
    BY <2>1 DEF Sized, view
  <2>6. tunnel' = "up" => /\ ask' # NoSize => bridge' = "rpc"
                          /\ resizer' # NoSize => resizer' = ask'
    BY <2>1, <2>2, <2>3 DEF Sized, client, stream
  <2>7. create \in {"pump", "release", "done"} /\ UNCHANGED create
    BY <2>1 DEF Sized, client
  <2>8. create' \in {"respond", "pump"} => entry'
    BY <2>1 DEF Sized, client
  <2> QED BY <2>4, <2>5, <2>6, <2>7, <2>8 DEF Sized
<1>11. CASE BridgeReadFails
  <2>1. UNCHANGED <<client, system, view, ask, outPump, stream>> /\ bridge = "read"
        /\ bridge' = "closing" /\ up' = <<>>
    BY <1>11 DEF BridgeReadFails
  <2> QED BY <2>1 DEF Sized, Resizable, client, view, stream
<1>12. CASE ResizeAnswered
  <2>1. UNCHANGED <<client, system, view, sock, stream>> /\ bridge = "rpc"
        /\ bridge' = "read" /\ ask' = NoSize /\ (tunnel = "up" => ask = NoSize)
    BY <1>0, <1>12 DEF ResizeAnswered
  <2> QED BY <2>1 DEF Sized, Resizable, Newest, Sent, LastSent, client, system, view,
                      sock, stream
<1>13. CASE CloseRpcFails \/ HandleClose
  <2>1. UNCHANGED sizing /\ bridge = "closing" /\ bridge' = "closed"
    BY <1>13 DEF CloseRpcFails, HandleClose, sizing, client, system, view
  <2> QED BY <2>1 DEF Sized, Resizable, sizing
<1>14. CASE StartPTY
  <2>1. UNCHANGED <<resizer, view, sock, server, stream>> /\ create = "start"
        /\ create' = "respond" /\ entry' /\ tty' = "open" /\ winsize' = FirstSize
    BY <1>14 DEF StartPTY
  <2>2. tty = "none"
    BY <2>1 DEF CloseInv, Stages
  <2> QED BY <2>1, <2>2 DEF Sized, Resizable, Newest, Sent, LastSent, view, sock,
                            server, stream
<1>15. CASE StartFails \/ CreateReturns
  <2>1. UNCHANGED <<resizer, entry, system, view, sock, server, tunnel>>
        /\ create' \in {"refused", "done"} /\ create \in {"start", "release"}
        /\ (create = "start" <=> create' = "refused")
    BY <1>15 DEF StartFails, CreateReturns
  <2> QED BY <2>1 DEF Sized, Resizable, view, sock, server
<1>16. CASE Respond
  <2>1. UNCHANGED <<resizer, tty, winsize, view, sock, server, stream>>
        /\ create = "respond" /\ create' \in {"pump", "release"}
        /\ (create' = "pump" => UNCHANGED entry)
    BY <1>16 DEF Respond, Release
  <2>2. create' = "pump" => entry'
    BY <2>1 DEF Sized
  <2>3. Resizable' => Resizable
    BY <2>1 DEF Resizable, view, server, stream
  <2>4. Newest => Newest'
    BY <2>1 DEF Newest, Sent, LastSent, view, sock, server
  <2>5. bridge \notin {"read", "write", "rpc"}
    BY <2>1 DEF Sized
  <2> QED BY <2>1, <2>2, <2>3, <2>4, <2>5 DEF Sized, view, sock, server, stream
<1>17. CASE PumpEnds
  <2>1. UNCHANGED <<resizer, tty, winsize, view, sock, server, stream>>
        /\ create = "pump" /\ create' = "release"
    BY <1>17 DEF PumpEnds, Release
  <2> QED BY <2>1 DEF Sized, Resizable, view, sock, server, stream
<1>18. CASE PumpFrame \/ StdinRead \/ StdinWrite \/ StdinEnds
  <2>1. UNCHANGED sizing /\ bridge' = bridge
    BY <1>18 DEF PumpFrame, StdinRead, StdinWrite, StdinEnds, sizing, client,
       system, view, sock, server, stream
  <2> QED BY <2>1, SizeStutter
<1>19. CASE ResizeLookup
  <2>1. UNCHANGED <<create, entry, system, view, sock, bridge, stream>>
        /\ ask # NoSize /\ tunnel = "up" /\ resizer = NoSize
        /\ \/ entry /\ resizer' = ask /\ ask' = ask
           \/ ~entry /\ ask' = NoSize /\ resizer' = resizer
    BY <1>19 DEF ResizeLookup
  <2>2. Resizable => entry
    BY <2>1 DEF Sized, Resizable
  <2> QED BY <2>1, <2>2 DEF Sized, Resizable, Newest, Sent, LastSent, system, view,
                            sock, stream
<1>20. CASE SetSize
  <2>1. UNCHANGED <<create, entry, tty, view, sock, bridge, stream>>
        /\ resizer # NoSize /\ resizer' = NoSize /\ ask' = NoSize
        /\ winsize' = IF tty = "open" THEN resizer ELSE winsize
    BY <1>20 DEF SetSize
  <2>2. Resizable => tty = "open" /\ create = "pump" /\ resizer = ask
    <3>1. Resizable => bridge = "rpc" /\ resizer = ask
      BY <2>1 DEF Sized, Resizable
    <3>2. Resizable => create = "pump"
      BY <3>1 DEF Sized, Resizable
    <3> QED BY <1>0, <3>1, <3>2 DEF CloseInv, Stages, Resizable
  <2>3. Resizable' => Resizable
    BY <2>1 DEF Resizable, view, stream
  <2>4. Resizable => Newest'
    BY <2>1, <2>2 DEF Sized, Newest, Sent, LastSent, view, sock
  <2> QED BY <2>1, <2>3, <2>4 DEF Sized, view, sock, stream
<1>21. ASSUME NEW c \in Closers, PTYClose(c) PROVE Sized'
  <2>1. UNCHANGED <<create, resizer, entry, view, sock, server, stream>>
    BY <1>21 DEF PTYClose
  <2>2. UNCHANGED <<tty, winsize>> \/ tty' = "closed"
    BY <1>21 DEF PTYClose, CloseTTY, Reap, CheckClosed, MarkClosed, ClosePipes,
                 WaitProcess, CloseHandle
  <2> QED BY <2>1, <2>2 DEF Sized, Resizable, Newest, Sent, LastSent, view, sock,
                            server, stream
<1>22. CASE ShellPrints \/ ShellDies \/ HolderExits \/ UNCHANGED vars
  <2>1. UNCHANGED sizing /\ bridge' = bridge
    BY <1>22 DEF ShellPrints, ShellDies, HolderExits, vars, sizing, client,
       system, view, sock, server, stream
  <2> QED BY <2>1, SizeStutter
<1>23. CASE Cut
  BY <1>23 DEF Cut, Sized, Resizable, client, system, view, sock, server
<1> QED
  BY <1>1, <1>2, <1>3, <1>4, <1>5, <1>6, <1>7, <1>8, <1>9, <1>10, <1>11, <1>12,
     <1>13, <1>14, <1>15, <1>16, <1>17, <1>18, <1>19, <1>20, <1>21, <1>22, <1>23
  DEF Next, Page, Client, System, Server

-----------------------------------------------------------------------------
(* Theorems.                                                               *)

TermInv == TypeInv /\ CloseInv /\ Delivered /\ Sized

LEMMA TermInit == Init => TermInv
<1> SUFFICES ASSUME Init PROVE TermInv
  OBVIOUS
<1> USE ConstantsAssumption DEF Init
<1>1. TypeInv
  <2>1. missed \in BOOLEAN /\ srvEnd \in BOOLEAN /\ cliEnd \in BOOLEAN
        /\ entry \in BOOLEAN /\ closed \in BOOLEAN /\ hProc \in BOOLEAN
        /\ killed \in BOOLEAN /\ holder \in BOOLEAN /\ gaveUp \in BOOLEAN
    OBVIOUS
  <2>2. ViewOK
    BY <2>1 DEF ViewOK
  <2>3. ServerOK
    BY <2>1 DEF ServerOK
  <2>4. ClientOK
    BY <2>1 DEF ClientOK, Closers
  <2>5. SystemOK
    BY <2>1 DEF SystemOK
  <2> QED BY <2>2, <2>3, <2>4, <2>5 DEF TypeInv, TypeOK, Chunks
<1>2. CloseInv
  BY DEF CloseInv, Stages, ClosingUnix, ClosingWindows, HandleCount, Ended, Early, Closers
<1>3. Delivered
  BY DEF Delivered
<1>4. Sized
  BY DEF Sized, Resizable, Newest, Sent
<1> QED BY <1>1, <1>2, <1>3, <1>4 DEF TermInv

\* The four parts of the invariant hold together in every reachable state.
THEOREM TerminalInvariant == Spec => []TermInv
<1>1. TermInv /\ [Next]_vars => TermInv'
  BY TypeStep, CloseInvStep, DeliveredStep, SizedStep DEF TermInv, TypeInv, CloseInv
<1> QED BY TermInit, <1>1, PTL DEF Spec

\* Every variable of a terminal keeps its type; in particular no stream holds more
\* than its window and the process handle is closed at most twice.
THEOREM TypeCorrect == Spec => []TypeOK
<1>1. TermInv => TypeOK
  BY DEF TermInv, TypeInv
<1> QED BY <1>1, TerminalInvariant, PTL

\* When HandleCreate has returned, the client's side of the tty is closed, a Unix
\* shell is dead and reaped, and the handle of a Windows one, which is dead or was
\* given up, is given back, however the two Closes met (pty.go:152).
THEOREM ReleaseIsComplete == Spec => []ReleasedIsClean
<1>1. TermInv => ReleasedIsClean
  <2> SUFFICES ASSUME TermInv, create = "done" PROVE
        /\ ~entry
        /\ tty = "closed" \/ close["stdin"] = "pipes"
        /\ os = "unix" => shell = "reaped"
        /\ os = "windows" => (shell = "dead" \/ gaveUp) /\ handleCloses > 0
    BY DEF ReleasedIsClean
  <2>1. ~entry /\ close["release"] = "done"
    BY DEF TermInv, CloseInv, Stages
  <2>2. os \in {"unix", "windows"}
    BY ConstantsAssumption DEF TermInv, TypeInv, TypeOK, SystemOK
  <2>3. CASE os = "unix"
    BY <2>1, <2>3 DEF TermInv, CloseInv, ClosingUnix, Closers
  <2>4. CASE os = "windows"
    BY <2>1, <2>4 DEF TermInv, CloseInv, ClosingWindows, Closers
  <2> QED BY <2>1, <2>2, <2>3, <2>4
<1> QED BY <1>1, TerminalInvariant, PTL

\* A page that reads "pty exited" over a path that holds has been sent all that
\* was printed: the pump drains the tty, the stream and the socket in this order.
THEOREM OutputPrecedesExit == Spec => []ExitAfterOutput
<1>1. TermInv => ExitAfterOutput
  <2> SUFFICES ASSUME TermInv, page = "ended", code = "exited", tunnel = "up"
               PROVE  screen = produced
    BY DEF ExitAfterOutput
  <2>1. screen \in Int /\ produced \in Int
    BY ConstantsAssumption DEF TermInv, TypeInv, TypeOK, ViewOK, SystemOK
  <2>2. screen + downStream + outbuf = produced /\ downStream = 0 /\ outbuf = 0
    BY DEF TermInv, Delivered, Connected
  <2> QED BY <2>1, <2>2
<1> QED BY <1>1, TerminalInvariant, PTL

\* With no resize under way the tty has the size of the terminal on the screen: no
\* message overtakes another between the debounce timer and SetSize.
THEOREM SizesInOrder == Spec => []SizeFollows
<1>1. TermInv => SizeFollows
  BY DEF TermInv, Sized, Resizable, Newest, Sent, SizeFollows, SizeAtRest
<1> QED BY <1>1, TerminalInvariant, PTL

-----------------------------------------------------------------------------
(* Nobody holds on to a terminal whose page or tunnel has gone:            *)
(* AbandonedIsReleased short of fairness.                                  *)

\* Who has been told of the end: the stdin goroutine leaves through Close, release
\* has killed a shell on Unix and reaps it last, and a bridge that has returned has
\* closed the stream and killed the shell it found.
EndInv ==
    /\ create = "pump" /\ stdin = "off" => close["stdin"] # "idle"
    /\ create = "release" => close["release"] # "idle"
    /\ os = "unix" /\ create \in {"release", "done"} => killed
    /\ os = "unix" => close["stdin"] # "wait"
    /\ os = "unix" /\ shell = "reaped" => close["release"] = "done"
    /\ create \in {"respond", "pump"} => entry
    /\ bridge \in {"read", "write", "rpc", "closing"} => create \in {"pump", "release", "done"}
    /\ bridge = "closed" /\ create # "none" => srvEnd
    /\ bridge = "closed" => \/ create \in {"none", "refused", "release", "done"}
                            \/ tunnel = "cut" \/ killed \/ os = "windows"

Abandoned == page = "left" \/ tunnel = "cut"

\* What is owed to the bridge, by the page, the client or the tunnel's end.
BridgeOwed ==
    \/ bridge \in {"accept", "rpc", "closing"}
    \/ bridge = "await" /\ (tunnel = "cut" \/ create \notin {"none", "start", "respond"})
    \/ bridge = "read" /\ (up # <<>> \/ code # "none" \/ page = "left")
    \/ bridge = "write" /\ (tunnel = "cut" \/ cliEnd \/ upStream < Cap)

\* To HandleCreate: the answer of the pty or of its own stream, or its release.
CreateOwed ==
    \/ create \in {"start", "respond"}
    \/ create = "pump" /\ (OutputEnds \/ (outbuf > 0 /\ (tunnel = "cut" \/ srvEnd)))
    \/ create = "release" /\ close["release"] = "done"

\* To its stdin goroutine: input, the end of the stream, or of the pty.
StdinOwed ==
    \/ stdin = "read" /\ (upStream > 0 \/ srvEnd \/ cliEnd \/ tunnel = "cut")
    \/ stdin = "write" /\ (tty = "closed" \/ (os = "windows" /\ tty = "open"))

\* To a caller of Close and Wait: its next step, and the end of the process it waits
\* for or the right to terminate it.
CloserOwed(c) ==
    \/ close[c] \in {"check", "mark", "pipes", "handle"}
    \/ close[c] = "wait" /\ os = "unix" /\ (shell = "dead" \/ (shell = "running" /\ killed))
    \/ close[c] = "wait" /\ os = "windows" /\ (~hProc \/ shell \in {"running", "dead"})

\* A killed shell that still runs.
KillOwed == killed /\ shell = "running"

\* An abandoned terminal that is not released is not stuck, unless in a shell that
\* does not read its input.
AbandonedCanMove ==
    Abandoned /\ ~Released /\ ~Jammed =>
        \/ BridgeOwed \/ CreateOwed \/ StdinOwed \/ KillOwed
        \/ \E c \in Closers : CloserOwed(c)

\* Every step keeps the marks of the end true.
LEMMA EndStep == TypeOK /\ CloseInv /\ EndInv /\ [Next]_vars => EndInv'
<1> SUFFICES ASSUME TypeOK, CloseInv, EndInv, [Next]_vars PROVE EndInv'
  OBVIOUS
<1>0. /\ close \in [Closers -> {"idle", "check", "mark", "pipes", "wait", "handle", "done"}]
      /\ os \in {"unix", "windows"}
      /\ create \in Early \cup {"respond", "pump", "release", "done"}
      /\ bridge \in {"accept", "await", "read", "write", "rpc", "closing", "closed"}
  BY ConstantsAssumption DEF TypeOK, ClientOK, ServerOK, SystemOK, Early
<1> USE DEF Closers, client, system, view, sock, server, stream
<1>1. ASSUME UNCHANGED <<create, stdin, close, os, shell, entry, bridge>>,
             killed => killed', srvEnd => srvEnd', tunnel = "cut" => tunnel' = "cut"
      PROVE  EndInv'
  BY <1>1 DEF EndInv
<1>2. CASE Page \/ PumpToWS \/ PumpToWSEnds \/ UNCHANGED vars
  <2>1. UNCHANGED <<create, stdin, close, os, shell, entry, bridge, killed, srvEnd, tunnel>>
    BY <1>2 DEF Page, Fit, TimerFires, Type, OnOpen, OnClose, Leave, PumpToWS, PumpToWSEnds, vars
  <2> QED BY <1>1, <2>1
<1>3. CASE PumpFrame \/ ResizeLookup \/ SetSize \/ ShellPrints \/ HolderExits \/ Cut
  BY <1>1, <1>3 DEF PumpFrame, ResizeLookup, SetSize, ShellPrints, HolderExits, Cut
<1>4. CASE Accept
  <2>1. /\ create = "none" /\ create' \in {"none", "start"} /\ bridge' \in {"await", "closed"}
        /\ bridge' = "closed" => create' = "none"
        /\ UNCHANGED <<stdin, close, os, shell, entry, killed, srvEnd, tunnel>>
    BY <1>4 DEF Accept, CloseInv, Stages
  <2> QED BY <2>1 DEF EndInv
<1>5. CASE Created
  <2>1. /\ bridge' = "read" /\ create \in {"pump", "release", "done"}
        /\ UNCHANGED <<create, stdin, close, os, shell, entry, killed, srvEnd, tunnel>>
    BY <1>0, <1>5 DEF Created, Early
  <2> QED BY <2>1 DEF EndInv
<1>6. CASE CreateFails
  <2>1. /\ bridge' = "closed" /\ srvEnd' = TRUE /\ (create = "refused" \/ tunnel = "cut")
        /\ UNCHANGED <<create, stdin, close, os, shell, entry, killed, tunnel>>
    BY <1>6 DEF CreateFails
  <2> QED BY <2>1 DEF EndInv
<1>7. CASE BridgeRead \/ BridgeReadFails \/ BridgeWrite \/ ResizeAnswered
  <2>1. /\ bridge \in {"read", "write", "rpc"}
        /\ bridge' \in {"read", "write", "rpc", "closing"}
        /\ UNCHANGED <<create, stdin, close, os, shell, entry, killed, srvEnd, tunnel>>
    BY <1>7 DEF BridgeRead, BridgeReadFails, BridgeWrite, ResizeAnswered
  <2> QED BY <2>1 DEF EndInv
<1>8. CASE CloseRpcFails
  <2>1. /\ bridge' = "closed" /\ srvEnd' = TRUE /\ tunnel = "cut"
        /\ UNCHANGED <<create, stdin, close, os, shell, entry, killed, tunnel>>
    BY <1>8 DEF CloseRpcFails
  <2> QED BY <2>1 DEF EndInv
<1>9. CASE HandleClose
  <2>1. /\ bridge = "closing" /\ bridge' = "closed" /\ srvEnd' = TRUE
        /\ IF entry THEN Kill ELSE UNCHANGED killed
        /\ UNCHANGED <<create, stdin, close, os, shell, entry, tunnel>>
    BY <1>9 DEF HandleClose
  <2>2. killed => killed'
    BY <2>1 DEF Kill
  <2>3. entry => killed' \/ os = "windows"
    BY <1>0, <2>1 DEF Kill
  <2>4. create \in {"pump", "release", "done"}
    BY <2>1 DEF EndInv
  <2> QED BY <2>1, <2>2, <2>3, <2>4 DEF EndInv
<1>10. CASE StartPTY \/ StartFails
  <2>1. /\ create = "start" /\ ((create' = "respond" /\ entry') \/ create' = "refused")
        /\ UNCHANGED <<stdin, close, os, bridge, killed, srvEnd, tunnel>>
        /\ shell' = shell \/ shell' = "running"
    BY <1>10 DEF StartPTY, StartFails
  <2> QED BY <2>1 DEF EndInv
<1>11. ASSUME Release, create \in {"respond", "pump"},
              UNCHANGED <<stdin, os, shell, bridge, srvEnd, tunnel>>
       PROVE  EndInv'
  <2>1. /\ create' = "release" /\ (killed => killed') /\ (os = "unix" => killed')
        /\ close'["release"] = "check" /\ close'["stdin"] = close["stdin"]
    BY <1>0, <1>11 DEF Release, Kill
  <2>2. close["release"] = "idle"
    BY <1>11 DEF CloseInv, Stages
  <2> QED BY <1>11, <2>1, <2>2 DEF EndInv
<1>12. CASE Respond
  <2>1. create = "respond" /\ UNCHANGED <<os, shell, bridge, srvEnd, tunnel>>
    BY <1>12 DEF Respond
  <2>2. CASE create' = "pump" /\ stdin' = "read" /\ UNCHANGED <<entry, killed, close>>
    BY <2>1, <2>2 DEF EndInv
  <2>3. CASE Release /\ UNCHANGED stdin
    BY <1>11, <2>1, <2>3
  <2> QED BY <1>12, <2>2, <2>3 DEF Respond
<1>13. CASE PumpEnds
  BY <1>11, <1>13 DEF PumpEnds
<1>14. CASE CreateReturns
  BY <1>14 DEF CreateReturns, EndInv
<1>15. CASE StdinRead \/ StdinWrite
  <2>1. /\ stdin' # "off"
        /\ UNCHANGED <<create, close, os, shell, entry, bridge, killed, srvEnd, tunnel>>
    BY <1>15 DEF StdinRead, StdinWrite
  <2> QED BY <2>1 DEF EndInv
<1>16. CASE StdinEnds
  <2>1. /\ close'["stdin"] = "check" /\ close'["release"] = close["release"]
        /\ UNCHANGED <<create, os, shell, entry, bridge, killed, srvEnd, tunnel>>
    BY <1>0, <1>16 DEF StdinEnds
  <2> QED BY <2>1 DEF EndInv
<1>17. ASSUME NEW c \in Closers, PTYClose(c) PROVE EndInv'
  <2>1. /\ close[c] # "idle" /\ close'[c] # "idle" /\ (killed => killed')
        /\ \A d \in Closers : d # c => close'[d] = close[d]
        /\ UNCHANGED <<create, stdin, os, entry, bridge, srvEnd, tunnel>>
    BY <1>0, <1>17 DEF PTYClose, CloseTTY, Reap, CheckClosed, MarkClosed, ClosePipes, WaitProcess,
       CloseHandle, CloseStep
  <2>2. CASE UNCHANGED shell
    <3>1. os = "unix" => close[c] \in {"idle", "check", "wait", "done"}
      BY DEF CloseInv, ClosingUnix
    <3>2. os = "unix" => CloseTTY(c)
      BY <1>17, <2>2, <3>1 DEF PTYClose, Reap, CheckClosed, MarkClosed, ClosePipes, WaitProcess,
         CloseHandle, CloseStep
    <3>3. os = "unix" => close[c] = "check" /\ close'[c] = IF c = "release" THEN "wait" ELSE "done"
      BY <1>0, <3>2 DEF CloseTTY, CloseStep
    <3> QED BY <2>1, <2>2, <3>3 DEF EndInv
  <2>3. CASE Reap(c)
    <3>1. close[c] = "wait" /\ close'[c] = "done" /\ os = "unix"
      BY <1>0, <2>3 DEF Reap, CloseStep
    <3>2. c = "release"
      BY <3>1 DEF EndInv
    <3> QED BY <2>1, <3>1, <3>2 DEF EndInv
  <2> QED BY <1>17, <2>2, <2>3 DEF PTYClose, CloseTTY, CheckClosed, MarkClosed, ClosePipes,
                                        WaitProcess, CloseHandle
<1>18. CASE ShellDies
  BY <1>18 DEF ShellDies, EndInv
<1>19. Server => EndInv'
  BY <1>2, <1>4, <1>5, <1>6, <1>7, <1>8 DEF Server
<1>20. Client => EndInv'
  BY <1>3, <1>9, <1>10, <1>12, <1>13, <1>14, <1>15, <1>16 DEF Client
<1> QED BY <1>2, <1>3, <1>17, <1>18, <1>19, <1>20 DEF Next, System

\* The end of a terminal, on any platform and with any sizes and windows.
LEMMA EndInvariant == Spec => [](TermInv /\ EndInv)
<1>1. Init => EndInv
  BY DEF Init, EndInv, Closers
<1>2. TermInv /\ EndInv /\ [Next]_vars => EndInv'
  BY EndStep DEF TermInv, TypeInv
<1> QED BY <1>1, <1>2, TerminalInvariant, PTL DEF Spec

\* A Close that has begun goes on until the tty is closed.
LEMMA CloserGoesOn ==
    ASSUME TypeOK, CloseInv, EndInv, create = "pump", stdin = "off"
    PROVE  tty = "closed" \/ \E c \in Closers : CloserOwed(c)
<1>1. /\ close["stdin"] \in {"check", "mark", "pipes", "wait", "handle", "done"}
      /\ os \in {"unix", "windows"}
  BY ConstantsAssumption DEF TypeOK, ClientOK, SystemOK, EndInv, Closers
<1>2. CASE close["stdin"] \in {"check", "mark", "pipes", "handle"}
  BY <1>2 DEF CloserOwed, Closers
<1>3. CASE close["stdin"] \in {"wait", "done"} /\ os = "unix"
  BY <1>3 DEF CloseInv, ClosingUnix, Closers
<1>4. CASE close["stdin"] \in {"wait", "done"} /\ os = "windows"
  <2>1. tty = "closed" \/ \E c \in Closers : close[c] = "pipes"
    BY <1>4 DEF CloseInv, ClosingWindows, Closers
  <2> QED BY <2>1 DEF CloserOwed
<1> QED BY <1>1, <1>2, <1>3, <1>4

\* Release is never stuck, whichever of the two closes the pty.
LEMMA ReleaseGoesOn ==
    ASSUME TypeOK, CloseInv, EndInv, create = "release"
    PROVE  CreateOwed \/ CloserOwed("release")
<1>1. /\ close["release"] \in {"check", "mark", "pipes", "wait", "handle", "done"}
      /\ os \in {"unix", "windows"}
  BY ConstantsAssumption DEF TypeOK, ClientOK, SystemOK, EndInv, Closers
<1>2. shell \in {"running", "dead", "reaped"}
  BY DEF TypeOK, SystemOK, CloseInv, Stages, Early
<1>3. CASE close["release"] = "wait" /\ os = "unix"
  BY <1>2, <1>3 DEF EndInv, CloserOwed
<1>4. CASE close["release"] = "wait" /\ os = "windows"
  BY <1>2, <1>4 DEF CloseInv, ClosingWindows, CloserOwed
<1> QED BY <1>1, <1>3, <1>4 DEF CreateOwed, CloserOwed

\* In every reachable state a terminal whose page or tunnel has gone is released, is
\* in a shell that does not take its input, or has a step owed to it: bridge,
\* HandleCreate, the stdin goroutine and the two Closes never wait in a circle, on
\* either platform, whatever the windows hold and the background jobs do.
THEOREM AbandonedNeverStuck == Spec => []AbandonedCanMove
<1>1. TermInv /\ EndInv => AbandonedCanMove
  <2> SUFFICES ASSUME TermInv, EndInv, Abandoned, ~Released, ~Jammed,
                      ~BridgeOwed, ~CreateOwed, ~StdinOwed, ~KillOwed,
                      \A c \in Closers : ~CloserOwed(c)
               PROVE  FALSE
    BY DEF AbandonedCanMove
  <2>0. TypeOK /\ CloseInv /\ os \in {"unix", "windows"}
    BY ConstantsAssumption DEF TermInv, TypeInv, TypeOK, SystemOK
  <2>1. create = "pump"
    BY <2>0, ReleaseGoesOn DEF TypeOK, ClientOK, Released, CreateOwed, Closers
  <2>2. tty = "open" /\ ~OutputEnds
    BY <2>0, <2>1 DEF CreateOwed, OutputEnds, CopiesKept, CloseInv, Stages, Early, TypeOK, SystemOK
  <2>3. stdin \in {"read", "write"}
    BY <2>0, <2>1, <2>2, CloserGoesOn DEF TypeOK, ClientOK
  <2>4. tunnel = "up" /\ page = "left"
    BY <2>0, <2>3 DEF Abandoned, Jammed, StdinOwed, TypeOK, ServerOK, SystemOK, OutputEnds, CopiesKept
  <2>5. bridge = "write" => upStream = Cap /\ Cap > 0
    <3>1. upStream \in 0..Cap /\ Cap \in Nat \ {0}
      BY <2>0, ConstantsAssumption DEF TypeOK, ServerOK
    <3>2. bridge = "write" => ~(upStream < Cap)
      BY DEF BridgeOwed
    <3> QED BY <3>1, <3>2
  <2>6. bridge # "write"
    <3>1. upStream = Cap /\ Cap > 0 => upStream > 0
      BY ConstantsAssumption
    <3> QED BY <2>3, <2>5, <3>1 DEF StdinOwed, Jammed
  <2>7. bridge = "closed"
    BY <2>0, <2>1, <2>4, <2>6 DEF BridgeOwed, TypeOK, ServerOK
  <2>8. srvEnd /\ (killed \/ os = "windows")
    BY <2>1, <2>4, <2>7 DEF EndInv
  <2>9. stdin = "write" /\ os = "unix" /\ killed /\ ~holder
    BY <2>0, <2>2, <2>3, <2>8 DEF StdinOwed, Jammed
  <2>10. shell # "running" /\ outbuf # 0
    BY <2>2, <2>9 DEF KillOwed, OutputEnds, CopiesKept
  <2>11. outbuf > 0
    BY <2>0, <2>10, ConstantsAssumption DEF TypeOK, SystemOK
  <2> QED BY <2>1, <2>8, <2>11 DEF CreateOwed
<1> QED BY <1>1, EndInvariant, PTL
=============================================================================
