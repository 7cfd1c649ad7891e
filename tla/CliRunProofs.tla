---------------------------- MODULE CliRunProofs ----------------------------
(***************************************************************************)
(* What holds of a run whatever the capacity of the pipe and the channel   *)
(* and however much the CLI prints: a run reported as completed is one,    *)
(* nothing of it is left when its events are closed, every adapter keeps   *)
(* the promise of AgentBackend, no circle of waits closes, and a run that  *)
(* is cancelled comes nearer to its end.                                   *)
(***************************************************************************)
EXTENDS CliRun, TLAPS

\* A result is the last line of the output.  While it has not been read it is the
\* last in the pipe; when it has been, nothing is left in it, and a failure has
\* left its mark in the status.
LastWord ==
    /\ \A i \in DOMAIN pipe : pipe[i] \in {"ok", "bad"} => i = Len(pipe) /\ word = pipe[i]
    /\ word # "none" /\ pipe # <<>> => pipe[Len(pipe)] = word
    /\ seen => pipe = <<>> /\ word # "none"
    /\ word = "bad" /\ pipe = <<>> => status # "completed"

Waited == {"drain", "judge", "told", "sealed", "closed"}

\* How far the goroutine is says what it has ended.
Stages ==
    /\ ~Told => status \in {"completed", "failed"}
    /\ run \in Waited \cup {"wait"} => stdin # "open"
    /\ run \in Waited => proc = "reaped"
    /\ run \in Waited \ {"drain"} => ~stdout /\ (code # 0 => exitErr)
    /\ Told => prompt # "writing"
    /\ run \in {"sealed", "closed"} => cancelled

\* A scan that was neither cut off nor cancelled has read everything a CLI that
\* has ended has written.
ReadOut ==
    /\ run = "scan" /\ ~stdout => cancelled
    /\ run \in {"wait", "drain", "judge"} /\ ~cut /\ ~cancelled =>
           pipe = <<>> /\ proc \in {"dead", "reaped"}

RunInv == TypeOK /\ LastWord /\ Stages /\ ReadOut /\ CompletedIsTrue

-----------------------------------------------------------------------------
(* Each part of the invariant is preserved.                                *)

\* The types: Scan takes a line off the pipe, a line is only written where the
\* pipe has room, and TrySend looks at the room in the channel.
LEMMA TypeStep == TypeOK /\ [Next]_vars => TypeOK'
<1> SUFFICES ASSUME TypeOK, [Next]_vars PROVE TypeOK'
  OBVIOUS
<1> USE ConstantsAssumption
        DEF TypeOK, given, goroutine, pipes, cli, Lines, Statuses, Words
<1>1. CASE ExecuteFails
  BY <1>1 DEF ExecuteFails
<1>2. CASE Execute
  BY <1>2 DEF Execute, Spawn
<1>3. CASE ExecuteClaude
  BY <1>3 DEF ExecuteClaude, Spawn
<1>4. CASE ExecuteCodex
  BY <1>4 DEF ExecuteCodex, Spawn
<1>5. CASE Cancel
  BY <1>5 DEF Cancel
<1>6. CASE Interrupt
  BY <1>6 DEF Interrupt
<1>7. CASE Scan
  <2>1. Tail(pipe) \in Seq(Lines) /\ Len(Tail(pipe)) <= PipeCap
    BY <1>7 DEF Scan
  <2>2. events' \in 0..EventCap
    BY <1>7 DEF Scan, TrySend
  <2>3. seen' \in BOOLEAN
    BY <1>7 DEF Scan, Line, Effect, GeminiLine, CursorLine, CopilotLine,
                OpencodeLine, ClaudeLine
  <2>4. stdin' \in {"none", "open", "closed"} /\ status' \in Statuses
    BY <1>7 DEF Scan, CloseInput
  <2> QED BY <1>7, <2>1, <2>2, <2>3, <2>4 DEF Scan
<1>8. CASE ScanEnds
  <2>1. stdin' \in {"none", "open", "closed"} /\ cut' \in BOOLEAN
    BY <1>8 DEF ScanEnds, CloseInput
  <2> QED BY <1>8, <2>1 DEF ScanEnds
<1>9. CASE WaitProcess
  BY <1>9 DEF WaitProcess
<1>10. CASE WaitPipes
  <2>1. exitErr' \in BOOLEAN /\ stdout' \in BOOLEAN /\ run' = "judge"
    BY <1>10 DEF WaitPipes
  <2>2. UNCHANGED <<given, status, seen, cancelled, stdin, prompt, pipe, cli,
                    events, cut>>
    BY <1>10 DEF WaitPipes
  <2> QED BY <2>1, <2>2
<1>11. CASE Judge
  <2>1. status' \in Statuses
    BY <1>11 DEF Judge, ExitStatus, CursorStatus, ClaudeStatuses
  <2> QED BY <1>11, <2>1 DEF Judge
<1>12. CASE DeferCloseResult
  BY <1>12 DEF DeferCloseResult
<1>13. CASE DeferCloseEvents
  BY <1>13 DEF DeferCloseEvents
<1>14. CASE WatchContext
  <2>1. stdin' \in {"none", "open", "closed"} /\ stdout' \in BOOLEAN
    BY <1>14 DEF WatchContext, CloseInput
  <2>2. UNCHANGED <<given, goroutine, cancelled, prompt, pipe, cli, events, cut>>
    BY <1>14 DEF WatchContext
  <2> QED BY <2>1, <2>2
<1>15. CASE Kill
  BY <1>15 DEF Kill
<1>16. CASE WriteFails
  BY <1>16 DEF WriteFails
<1>17. CASE TakeEvent
  BY <1>17 DEF TakeEvent
<1>18. CASE Says \/ Answers
  <2>1. PICK l \in Lines : Writes(l) /\ word' \in Words
    BY <1>18 DEF Says, Answers
  <2>2. Append(pipe, l) \in Seq(Lines) /\ Len(Append(pipe, l)) <= PipeCap
    BY <2>1 DEF Writes
  <2> QED BY <2>1, <2>2 DEF Writes
<1>19. CASE ReadsPrompt
  BY <1>19 DEF ReadsPrompt
<1>20. CASE Finishes
  BY <1>20 DEF Finishes, Exits
<1>21. CASE Crashes
  BY <1>21 DEF Crashes, Exits
<1>22. CASE HolderExits
  BY <1>22 DEF HolderExits
<1>23. CASE UNCHANGED vars
  BY <1>23 DEF vars
<1> QED
  BY <1>1, <1>2, <1>3, <1>4, <1>5, <1>6, <1>7, <1>8, <1>9, <1>10, <1>11, 
     <1>12, <1>13, <1>14, <1>15, <1>16, <1>17, <1>18, <1>19, <1>20, <1>21, 
     <1>22, <1>23
     DEF Next, Goroutine, Cli

\* The last word: only Answers says one, at the end of the pipe, and only Scan
\* takes it off.
LEMMA LastWordStep == TypeOK /\ LastWord /\ Stages /\ [Next]_vars => LastWord'
<1> SUFFICES ASSUME TypeOK, LastWord, Stages, [Next]_vars PROVE LastWord'
  OBVIOUS
<1> USE DEF given, goroutine, pipes, cli
<1>1. CASE Scan
  <2> DEFINE l == Head(pipe)
  <2>1. pipe \in Seq(Lines) /\ pipe # <<>> /\ pipe' = Tail(pipe) /\ word' = word /\ l = pipe[1]
    BY <1>1 DEF Scan, TypeOK
  <2>2. /\ Len(pipe') = Len(pipe) - 1 /\ Len(pipe) \in Nat \ {0}
        /\ \A i \in DOMAIN pipe' : i + 1 \in DOMAIN pipe /\ pipe'[i] = pipe[i + 1]
    BY <2>1
  <2>3. \A i \in DOMAIN pipe' : pipe'[i] \in {"ok", "bad"} => i = Len(pipe') /\ word' = pipe'[i]
    BY <2>1, <2>2 DEF LastWord
  <2>4. word' # "none" /\ pipe' # <<>> => pipe'[Len(pipe')] = word'
    BY <2>1, <2>2 DEF LastWord
  <2>5. seen' => l \in {"ok", "bad"}
    BY <1>1, <2>1 DEF Scan, LastWord, Line, Effect, GeminiLine, CursorLine,
                      CopilotLine, OpencodeLine, ClaudeLine
  <2>6. l \in {"ok", "bad"} => pipe' = <<>> /\ word = l
    BY <2>1, <2>2 DEF LastWord
  <2>7. ASSUME word = "bad", pipe' = <<>> PROVE status' # "completed"
    <3>1. l = "bad"
      BY <2>1, <2>2, <2>7 DEF LastWord
    <3> QED BY <1>1, <3>1 DEF Scan, Line, Effect, GeminiLine, CursorLine,
                              CopilotLine, OpencodeLine, ClaudeLine
  <2> QED BY <2>1, <2>3, <2>4, <2>5, <2>6, <2>7 DEF LastWord
<1>2. CASE Says \/ Answers
  <2>1. PICK l \in Lines : /\ Writes(l)
                           /\ l \in {"ok", "bad"} => word' = l
                           /\ l \notin {"ok", "bad"} => word' = word
    BY <1>2 DEF Says, Answers, Lines
  <2>2. /\ pipe' = Append(pipe, l) /\ pipe \in Seq(Lines) /\ word = "none"
        /\ UNCHANGED <<seen, status>>
    BY <2>1 DEF Writes, TypeOK
  <2>3. /\ Len(pipe') = Len(pipe) + 1 /\ pipe'[Len(pipe')] = l /\ pipe' # <<>>
        /\ \A i \in DOMAIN pipe : pipe'[i] = pipe[i]
        /\ \A i \in DOMAIN pipe' : i \in DOMAIN pipe \/ i = Len(pipe')
        /\ Len(pipe) \in Nat
    BY <2>2
  <2>4. \A i \in DOMAIN pipe : pipe[i] \notin {"ok", "bad"}
    BY <2>2 DEF LastWord
  <2> QED BY <2>1, <2>2, <2>3, <2>4 DEF LastWord
<1>3. CASE Judge
  <2>1. UNCHANGED <<pipe, word, seen>> /\ (status # "completed" => status' # "completed")
    BY <1>3 DEF Judge, ExitStatus, CursorStatus, ClaudeStatuses, TypeOK
  <2> QED BY <2>1 DEF LastWord
<1>4. CASE UNCHANGED <<pipe, word, seen, status>>
  BY <1>4 DEF LastWord
<1>5. CASE \/ ExecuteFails \/ Execute \/ ExecuteClaude \/ ExecuteCodex
           \/ Cancel \/ Interrupt \/ ScanEnds \/ WaitProcess \/ WaitPipes
  BY <1>4, <1>5 DEF ExecuteFails, Execute, ExecuteClaude, ExecuteCodex, Cancel,
                    Interrupt, ScanEnds, WaitProcess, WaitPipes
<1>6. CASE \/ DeferCloseResult \/ DeferCloseEvents \/ WatchContext \/ Kill
           \/ WriteFails \/ TakeEvent \/ ReadsPrompt \/ Finishes \/ Crashes
           \/ HolderExits \/ UNCHANGED vars
  BY <1>4, <1>6 DEF DeferCloseResult, DeferCloseEvents, WatchContext, Kill,
                    WriteFails, TakeEvent, ReadsPrompt, Finishes, Crashes, Exits,
                    HolderExits, vars
<1> QED BY <1>1, <1>2, <1>3, <1>5, <1>6 DEF Next, Goroutine, Cli

\* The stages: each step of the goroutine ends what the next stage says is over,
\* and nothing comes back once it is: input is opened, a prompt begun and a process
\* started by Execute alone, and a process that has been reaped has its exit code.
LEMMA StagesStep == TypeOK /\ Stages /\ [Next]_vars => Stages'
<1> SUFFICES ASSUME TypeOK, Stages, [Next]_vars PROVE Stages'
  OBVIOUS
<1> USE DEF Waited, Told, given, goroutine, pipes, cli
<1>1. CASE ExecuteFails \/ ExecuteCodex \/ Execute \/ ExecuteClaude
  <2>1. run = "new" /\ run' \in {"refused", "scan"} /\ status' = status
    BY <1>1 DEF ExecuteFails, ExecuteCodex, Execute, ExecuteClaude
  <2> QED BY <2>1 DEF Stages
<1>2. CASE Cancel \/ Interrupt
  <2>1. UNCHANGED <<goroutine, pipes, cli>> /\ (cancelled => cancelled')
    BY <1>2 DEF Cancel, Interrupt
  <2> QED BY <2>1 DEF Stages
<1>3. CASE Scan
  <2>1. run = "scan" /\ run' = run /\ status' \in {"completed", "failed"}
    BY <1>3 DEF Scan, Stages
  <2> QED BY <2>1 DEF Stages
<1>4. CASE ScanEnds
  <2>1. run = "scan" /\ run' = "wait" /\ status' = status /\ stdin' # "open"
    BY <1>4 DEF ScanEnds, CloseInput, TypeOK
  <2> QED BY <2>1 DEF Stages
<1>5. CASE WaitProcess
  BY <1>5 DEF WaitProcess, Stages
<1>6. CASE WaitPipes
  <2>1. /\ run = "drain" /\ run' = "judge" /\ ~stdout' /\ (code # 0 => exitErr')
        /\ UNCHANGED <<status, stdin, proc, code>>
    BY <1>6 DEF WaitPipes
  <2> QED BY <2>1 DEF Stages
<1>7. CASE Judge
  BY <1>7 DEF Judge, Stages
<1>8. CASE DeferCloseResult
  BY <1>8 DEF DeferCloseResult, Stages
<1>9. CASE DeferCloseEvents
  BY <1>9 DEF DeferCloseEvents, Stages
<1>10. CASE WatchContext
  <2>1. ~stdout' /\ stdin' \in {stdin, "closed"}
        /\ UNCHANGED <<goroutine, prompt, cancelled, cli>>
    BY <1>10 DEF WatchContext, CloseInput
  <2> QED BY <2>1 DEF Stages
<1>11. CASE Kill \/ Finishes \/ Crashes
  <2>1. /\ proc = "running" /\ UNCHANGED <<goroutine, cancelled, pipes>>
    BY <1>11 DEF Kill, Finishes, Crashes, Exits, Running
  <2> QED BY <2>1 DEF Stages
<1>12. CASE WriteFails \/ ReadsPrompt
  <2>1. prompt' \in {"failed", "done"}
        /\ UNCHANGED <<goroutine, cancelled, stdout, stdin, cli>>
    BY <1>12 DEF WriteFails, ReadsPrompt
  <2> QED BY <2>1 DEF Stages
<1>13. CASE TakeEvent \/ HolderExits \/ Says \/ Answers \/ UNCHANGED vars
  <2>1. UNCHANGED <<goroutine, cancelled, stdout, stdin, prompt, proc, code>>
    BY <1>13 DEF TakeEvent, HolderExits, Says, Answers, Writes, vars
  <2> QED BY <2>1 DEF Stages
<1> QED
  BY <1>1, <1>2, <1>3, <1>4, <1>5, <1>6, <1>7, <1>8, <1>9, <1>10, <1>11, <1>12,
     <1>13 DEF Next, Goroutine, Cli

\* The output: only the context closes the pipe under a scan, so that a scan which
\* ends otherwise, and not at a long line, ends at the end of the output of a
\* process that has ended and writes no more.
LEMMA ReadOutStep == TypeOK /\ ReadOut /\ [Next]_vars => ReadOut'
<1> SUFFICES ASSUME TypeOK, ReadOut, [Next]_vars PROVE ReadOut'
  OBVIOUS
<1> USE DEF given, goroutine, pipes, cli
<1>1. CASE ExecuteFails \/ ExecuteCodex
  BY <1>1 DEF ExecuteFails, ExecuteCodex, ReadOut
<1>2. CASE Execute \/ ExecuteClaude
  BY <1>2 DEF Execute, ExecuteClaude, Spawn, ReadOut
<1>3. CASE Cancel \/ Interrupt
  <2>1. UNCHANGED <<run, stdout, pipe, proc, cut>> /\ (cancelled => cancelled')
    BY <1>3 DEF Cancel, Interrupt
  <2> QED BY <2>1 DEF ReadOut
<1>4. CASE Scan
  <2>1. run = "scan" /\ UNCHANGED <<run, stdout, cancelled>>
    BY <1>4 DEF Scan
  <2> QED BY <2>1 DEF ReadOut
<1>5. CASE ScanEnds
  <2>1. /\ run = "scan" /\ run' = "wait" /\ UNCHANGED <<cancelled, pipe, proc>>
        /\ cut' \/ ~stdout \/ (pipe = <<>> /\ proc = "dead")
    BY <1>5 DEF ScanEnds
  <2> QED BY <2>1 DEF ReadOut
<1>6. CASE WaitProcess
  BY <1>6 DEF WaitProcess, ReadOut
<1>7. CASE WaitPipes
  <2>1. run = "drain" /\ run' = "judge" /\ UNCHANGED <<cancelled, pipe, proc, cut>>
    BY <1>7 DEF WaitPipes
  <2> QED BY <2>1 DEF ReadOut
<1>8. CASE Judge \/ DeferCloseResult \/ DeferCloseEvents
  BY <1>8 DEF Judge, DeferCloseResult, DeferCloseEvents, ReadOut
<1>9. CASE WatchContext
  <2>1. cancelled /\ UNCHANGED <<run, cancelled>>
    BY <1>9 DEF WatchContext
  <2> QED BY <2>1 DEF ReadOut
<1>10. CASE Kill \/ Finishes \/ Crashes
  <2>1. proc = "running" /\ UNCHANGED <<run, stdout, cancelled, pipe, cut>>
    BY <1>10 DEF Kill, Finishes, Crashes, Exits, Running
  <2> QED BY <2>1 DEF ReadOut
<1>11. CASE Says \/ Answers
  <2>1. proc = "running" /\ UNCHANGED <<run, stdout, cancelled, cut>>
    BY <1>11 DEF Says, Answers, Writes, Running
  <2> QED BY <2>1 DEF ReadOut
<1>12. CASE WriteFails \/ ReadsPrompt \/ TakeEvent \/ HolderExits \/ UNCHANGED vars
  <2>1. UNCHANGED <<run, stdout, cancelled, pipe, proc, cut>>
    BY <1>12 DEF WriteFails, ReadsPrompt, TakeEvent, HolderExits, vars
  <2> QED BY <2>1 DEF ReadOut
<1> QED
  BY <1>1, <1>2, <1>3, <1>4, <1>5, <1>6, <1>7, <1>8, <1>9, <1>10, <1>11, <1>12
     DEF Next, Goroutine, Cli

\* What is reported stays true: Judge reports a completed run only if nobody has
\* cancelled it, or cursor has told its result, and afterwards nothing changes.
LEMMA CompletedStep == RunInv /\ [Next]_vars => CompletedIsTrue'
<1> SUFFICES ASSUME RunInv, [Next]_vars PROVE CompletedIsTrue'
  OBVIOUS
<1> USE DEF RunInv, CompletedIsTrue, Told, given, goroutine, pipes, cli
<1>1. CASE Judge
  <2> SUFFICES ASSUME status' = "completed", ~cut
               PROVE  /\ word # "bad" /\ pipe = <<>>
                      /\ code = 0 \/ (backend = "cursor" /\ seen)
    BY <1>1 DEF Judge
  <2>1. status = "completed" /\ run = "judge"
    BY <1>1 DEF Judge, ExitStatus, CursorStatus, ClaudeStatuses, Stages
  <2>2. (~cancelled /\ ~exitErr) \/ (backend = "cursor" /\ seen)
    BY <1>1, <2>1 DEF Judge, ExitStatus, CursorStatus, ClaudeStatuses
  <2>3. pipe = <<>>
    BY <2>1, <2>2 DEF ReadOut, LastWord
  <2>4. word # "bad"
    BY <2>1, <2>3 DEF LastWord
  <2>5. ~exitErr => code = 0
    BY <2>1 DEF Stages, Waited
  <2> QED BY <2>2, <2>3, <2>4, <2>5
<1>2. CASE DeferCloseResult \/ DeferCloseEvents
  BY <1>2 DEF DeferCloseResult, DeferCloseEvents
<1>3. ASSUME ~Told' PROVE CompletedIsTrue'
  BY <1>3
<1>4. CASE \/ ExecuteFails \/ ExecuteCodex \/ Execute \/ ExecuteClaude
           \/ Scan \/ ScanEnds \/ WaitProcess \/ WaitPipes
  BY <1>3, <1>4 DEF ExecuteFails, ExecuteCodex, Execute, ExecuteClaude, Scan,
                    ScanEnds, WaitProcess, WaitPipes
<1>5. ASSUME UNCHANGED <<run, status, cut, word, pipe, code, seen, backend>>
      PROVE  CompletedIsTrue'
  BY <1>5
<1>6. CASE \/ Cancel \/ Interrupt \/ WatchContext \/ WriteFails \/ TakeEvent
           \/ ReadsPrompt \/ HolderExits \/ UNCHANGED vars
  BY <1>5, <1>6 DEF Cancel, Interrupt, WatchContext, WriteFails, TakeEvent,
                    ReadsPrompt, HolderExits, vars
<1>7. CASE Kill \/ Says \/ Answers \/ Finishes \/ Crashes
  <2>1. proc = "running" /\ UNCHANGED run
    BY <1>7 DEF Kill, Says, Answers, Writes, Finishes, Crashes, Exits, Running
  <2>2. ~Told
    BY <2>1 DEF Stages, Waited
  <2> QED BY <1>3, <2>1, <2>2
<1> QED BY <1>1, <1>2, <1>4, <1>6, <1>7 DEF Next, Goroutine, Cli

LEMMA InitRun == Init => RunInv
<1> SUFFICES ASSUME Init PROVE RunInv
  OBVIOUS
<1>1. pipe \in Seq(Lines) /\ Len(pipe) = 0 /\ DOMAIN pipe = {}
  BY DEF Init
<1>2. TypeOK
  <2>1. /\ cancelled \in BOOLEAN /\ interrupted \in BOOLEAN /\ stdout \in BOOLEAN
        /\ seen \in BOOLEAN /\ exitErr \in BOOLEAN /\ cut \in BOOLEAN
    BY DEF Init
  <2>2. /\ backend \in Backends /\ run = "new" /\ stdin = "none" /\ prompt = "none"
        /\ status = "completed" /\ events = 0 /\ proc = "none" /\ code = 0
        /\ printed = 0 /\ word = "none" /\ holders = {}
    BY DEF Init
  <2> QED BY <1>1, <2>1, <2>2, ConstantsAssumption DEF TypeOK, Statuses, Words
<1>3. LastWord
  BY <1>1 DEF Init, LastWord
<1>4. Stages /\ ReadOut /\ CompletedIsTrue
  BY DEF Init, Stages, Waited, ReadOut, CompletedIsTrue, Told
<1> QED BY <1>2, <1>3, <1>4 DEF RunInv

-----------------------------------------------------------------------------
(* The theorems.                                                           *)

THEOREM RunInvariant == Spec => []RunInv
<1>1. RunInv /\ [Next]_vars => RunInv'
  BY TypeStep, LastWordStep, StagesStep, ReadOutStep, CompletedStep DEF RunInv
<1> QED BY InitRun, <1>1, PTL DEF Spec

\* The types; in particular the channel and the pipe never hold more than they
\* have room for.
THEOREM TypeCorrect == Spec => []TypeOK
<1>1. RunInv => TypeOK
  BY DEF RunInv
<1> QED BY <1>1, RunInvariant, PTL

\* A run reported as completed ended well and was read to its end, whatever the
\* adapter.
THEOREM CompletedIsBelieved == Spec => []CompletedIsTrue
<1>1. RunInv => CompletedIsTrue
  BY DEF RunInv
<1> QED BY <1>1, RunInvariant, PTL

\* Whichever way a run ended, its process is reaped, its pipes are closed and its
\* context is released before its events are.
THEOREM NothingIsLeft == Spec => []NothingLeft
<1>1. RunInv => NothingLeft
  BY DEF RunInv, Stages, Waited, Told, NothingLeft
<1> QED BY <1>1, RunInvariant, PTL

\* A step of a run is a step of the contract, or one it does not see.
LEMMA StepOfContract == RunInv /\ [Next]_vars => [Contract!Next]_(Contract!vars)
<1> SUFFICES ASSUME RunInv, [Next]_vars PROVE [Contract!Next]_(Contract!vars)
  OBVIOUS
<1> USE DEF Phase, Told, given, goroutine, pipes, cli, Contract!vars, Contract!Next
<1>1. CASE ExecuteFails \/ ExecuteCodex
  BY <1>1 DEF ExecuteFails, ExecuteCodex, Contract!Execute
<1>2. CASE Execute \/ ExecuteClaude
  BY <1>2 DEF Execute, ExecuteClaude, Contract!Execute
<1>3. CASE Cancel \/ Interrupt
  <2>1. run # "new" /\ UNCHANGED <<run, status>> /\ cancelled' \in {TRUE, cancelled}
    BY <1>3 DEF Cancel, Interrupt, RunInv, TypeOK
  <2> QED BY <2>1 DEF Contract!Cancel
<1>4. CASE Scan \/ ScanEnds \/ WaitProcess \/ WaitPipes
  <2>1. /\ run \in {"scan", "wait", "drain"} /\ run' \in {"scan", "wait", "drain", "judge"}
        /\ cancelled' = cancelled
    BY <1>4 DEF Scan, ScanEnds, WaitProcess, WaitPipes
  <2> QED BY <2>1
<1>5. CASE Judge
  <2>1. /\ run = "judge" /\ run' = "told" /\ cancelled' = cancelled
        /\ status' \in Statuses /\ (status' = "aborted" => cancelled)
    BY <1>5 DEF Judge, ExitStatus, CursorStatus, ClaudeStatuses, RunInv, Stages,
                Statuses
  <2>2. Contract!Judge(status')
    BY <2>1 DEF Contract!Judge
  <2> QED BY <2>1, <2>2
<1>6. CASE DeferCloseResult
  BY <1>6 DEF DeferCloseResult, Contract!CloseResult
<1>7. CASE DeferCloseEvents
  BY <1>7 DEF DeferCloseEvents, Contract!CloseEvents
<1>8. ASSUME UNCHANGED <<run, status, cancelled>>
      PROVE  [Contract!Next]_(Contract!vars)
  BY <1>8
<1>9. CASE \/ WatchContext \/ Kill \/ WriteFails \/ TakeEvent \/ Says \/ ReadsPrompt
           \/ Answers \/ Finishes \/ Crashes \/ HolderExits \/ UNCHANGED vars
  BY <1>8, <1>9 DEF WatchContext, Kill, WriteFails, TakeEvent, Says, ReadsPrompt,
                    Answers, Writes, Finishes, Crashes, Exits, HolderExits, vars
<1> QED
  BY <1>1, <1>2, <1>3, <1>4, <1>5, <1>6, <1>7, <1>9 DEF Next, Goroutine, Cli

\* Every adapter keeps the promise of agent.Session.
THEOREM RunRefinesBackend == Spec => RunImplementsBackend
<1>1. Init => Contract!Init
  BY DEF Init, Contract!Init, Phase, Told
<1>2. RunInv /\ [Next]_vars => [Contract!Next]_(Contract!vars)
  BY StepOfContract
<1> QED
  BY <1>1, <1>2, RunInvariant, PTL DEF Spec, RunImplementsBackend, Contract!Spec

-----------------------------------------------------------------------------
(* The safety half of RunSettles: somebody can always move, and the moves   *)
(* of a cancelled run lead downwards.                                       *)

\* The input of claude: it is closed by the end of the scan, by the context, or
\* by the result, and the prompt fails to be written for one of these reasons
\* or because the CLI is gone.
InputInv ==
    /\ run = "new" => proc = "none" /\ word = "none"
    /\ run \in {"scan", "wait"} => proc \in {"running", "dead"}
    /\ backend = "claude" /\ run \notin {"new", "refused"} => stdin # "none" /\ prompt # "none"
    /\ backend # "claude" => stdin = "none" /\ prompt = "none"
    /\ backend = "claude" /\ run = "scan" /\ word # "none" /\ pipe = <<>> => stdin = "closed"
    /\ prompt = "failed" /\ proc = "running" => stdin = "closed"
    /\ run = "scan" /\ stdin = "closed" /\ ~cancelled => word # "none"

\* What a line makes of the input.
LEMMA LineEnds ==
    ASSUME NEW l \in Lines
    PROVE  Line(l).ends <=> backend \notin {"gemini", "cursor", "copilot", "opencode"}
                            /\ l \in {"ok", "bad"}
  BY DEF Line, Effect, GeminiLine, CursorLine, CopilotLine, OpencodeLine, ClaudeLine

LEMMA InputStep == TypeOK /\ LastWord /\ Stages /\ InputInv /\ [Next]_vars => InputInv'
<1> SUFFICES ASSUME TypeOK, LastWord, Stages, InputInv, [Next]_vars PROVE InputInv'
  OBVIOUS
<1> USE DEF given, goroutine, pipes, cli
<1>1. CASE ExecuteFails \/ ExecuteCodex
  BY <1>1 DEF ExecuteFails, ExecuteCodex, InputInv, Spawn
<1>2. CASE Execute \/ ExecuteClaude
  <2>1. run = "new" /\ run' = "scan" /\ proc' = "running" /\ UNCHANGED <<backend, cancelled, word>>
    BY <1>2 DEF Execute, ExecuteClaude, Spawn
  <2>2. \/ backend = "claude" /\ stdin' = "open" /\ prompt' = "writing"
        \/ backend # "claude" /\ UNCHANGED <<stdin, prompt>>
    BY <1>2 DEF Execute, ExecuteClaude
  <2> QED BY <2>1, <2>2 DEF InputInv
<1>3. CASE Cancel \/ Interrupt
  BY <1>3 DEF Cancel, Interrupt, InputInv
<1>4. CASE Scan
  <2> DEFINE l == Head(pipe)
  <2>1. /\ pipe \in Seq(Lines) /\ pipe # <<>> /\ l = pipe[1] /\ l \in Lines
        /\ Len(pipe) \in Nat \ {0} /\ pipe' = Tail(pipe)
    BY <1>4 DEF Scan, TypeOK
  <2>2. /\ run = "scan" /\ UNCHANGED <<backend, run, cancelled, word, proc, prompt>>
        /\ stdin' = IF Line(l).ends /\ stdin = "open" THEN "closed" ELSE stdin
    BY <1>4 DEF Scan, CloseInput
  <2>3. l \in {"ok", "bad"} => word = l
    BY <2>1 DEF LastWord
  <2>4. word # "none" /\ pipe' = <<>> => l = word
    <3>1. Len(pipe') = Len(pipe) - 1
      BY <2>1
    <3>2. ASSUME pipe' = <<>> PROVE Len(pipe) = 1
      <4>1. Len(pipe') = 0
        BY <3>2
      <4>2. Len(pipe) \in Nat
        BY <2>1
      <4> QED BY <3>1, <4>1, <4>2
    <3> QED BY <2>1, <3>2 DEF LastWord
  <2>5. word \in {"none", "ok", "bad"} /\ stdin \in {"none", "open", "closed"}
    BY DEF TypeOK, Words
  <2>6. Line(l).ends <=> backend \notin {"gemini", "cursor", "copilot", "opencode"}
                            /\ l \in {"ok", "bad"}
    BY <2>1, LineEnds
  <2> HIDE DEF l
  <2>7. backend = "claude" /\ word # "none" /\ pipe' = <<>> => stdin' = "closed"
    BY <2>2, <2>4, <2>5, <2>6 DEF InputInv
  <2>8. stdin' = "closed" /\ ~cancelled => word # "none"
    BY <2>2, <2>3, <2>5, <2>6 DEF InputInv
  <2> QED BY <2>2, <2>7, <2>8 DEF InputInv
<1>5. CASE ScanEnds
  BY <1>5 DEF ScanEnds, CloseInput, InputInv
<1>6. CASE WaitProcess \/ WaitPipes
  BY <1>6 DEF WaitProcess, WaitPipes, InputInv
<1>7. CASE Judge \/ DeferCloseResult \/ DeferCloseEvents
  BY <1>7 DEF Judge, DeferCloseResult, DeferCloseEvents, InputInv
<1>8. CASE WatchContext
  BY <1>8 DEF WatchContext, CloseInput, InputInv
<1>9. CASE Kill \/ Finishes \/ Crashes
  BY <1>9 DEF Kill, Finishes, Crashes, Exits, Running, InputInv
<1>10. CASE WriteFails \/ ReadsPrompt
  BY <1>10 DEF WriteFails, ReadsPrompt, InputInv
<1>11. CASE Says \/ Answers
  <2>1. PICK l \in Lines : Writes(l) /\ word' \in {word, "ok", "bad"}
    BY <1>11 DEF Says, Answers, Lines
  <2>2. /\ proc = "running" /\ pipe' = Append(pipe, l) /\ pipe \in Seq(Lines)
        /\ UNCHANGED <<backend, run, cancelled, stdin, prompt, proc>>
    BY <2>1 DEF Writes, Running, TypeOK
  <2>3. pipe' # <<>>
    BY <2>2
  <2> QED BY <2>1, <2>2, <2>3 DEF InputInv
<1>12. CASE TakeEvent \/ HolderExits \/ UNCHANGED vars
  BY <1>12 DEF TakeEvent, HolderExits, vars, InputInv
<1> QED
  BY <1>1, <1>2, <1>3, <1>4, <1>5, <1>6, <1>7, <1>8, <1>9, <1>10, <1>11, <1>12
     DEF Next, Goroutine, Cli

\* The invariant with the input.
WaitInv == RunInv /\ InputInv

LEMMA WaitInvariant == Spec => []WaitInv
<1>1. Init => InputInv
  BY DEF Init, InputInv
<1>2. RunInv /\ InputInv /\ [Next]_vars => InputInv'
  BY InputStep DEF RunInv
<1> QED BY <1>1, <1>2, RunInvariant, PTL DEF Spec, WaitInv

Busy == run \in {"scan", "wait", "drain", "judge", "told", "sealed"}

\* The guards of the steps the scheduler owes a cancelled run: ScanEnds,
\* WaitProcess, WaitPipes, Judge and the deferred calls; WatchContext; Kill;
\* WriteFails.
OwedToCancelled ==
    \/ run = "scan" /\ ~stdout
    \/ run = "wait" /\ proc = "dead"
    \/ run = "drain"
    \/ run = "judge" /\ prompt # "writing"
    \/ run \in {"told", "sealed"}
    \/ cancelled /\ stdout
    \/ cancelled /\ proc = "running"
    \/ prompt = "writing" /\ (stdin = "closed" \/ proc # "running")

\* The guards of the steps a run owes that nobody has cancelled: the loop has a
\* line or the end of the output, or the CLI can go on: Says within the banner,
\* ReadsPrompt, Answers, Finishes.
OwedToRun ==
    \/ OwedToCancelled
    \/ run = "scan" /\ pipe # <<>>
    \/ run = "scan" /\ pipe = <<>> /\ proc = "dead" /\ "stdout" \notin holders
    \/ /\ proc = "running"
       /\ \/ word = "none" /\ stdout /\ Len(pipe) < PipeCap
             /\ (backend = "claude" => prompt = "done" \/ printed < Banner)
          \/ prompt = "writing" /\ stdin = "open" /\ printed >= Banner
          \/ word # "none" /\ stdin # "open"

\* However the three waits fall, for the prompt to be taken, for output and for
\* the end of the input, the run or its CLI can move, for every capacity of the
\* pipe and length of the banner.  Exempt are the waits RunSettles exempts.
NobodyWaitsInACircle ==
    Busy => \/ IF cancelled THEN OwedToCancelled ELSE OwedToRun
            \/ ~cancelled /\ (cut \/ "stdout" \in holders)

THEOREM RunCanMove == Spec => []NobodyWaitsInACircle
<1>1. WaitInv => NobodyWaitsInACircle
  <2> SUFFICES ASSUME WaitInv, Busy, cancelled \/ (~cut /\ "stdout" \notin holders)
               PROVE  IF cancelled THEN OwedToCancelled ELSE OwedToRun
    BY DEF NobodyWaitsInACircle
  <2>0. TypeOK /\ LastWord /\ Stages /\ ReadOut /\ InputInv
    BY DEF WaitInv, RunInv
  <2>1. CASE run = "scan"
    <3>1. CASE cancelled
      BY <2>0, <2>1, <3>1 DEF OwedToCancelled, TypeOK
    <3>2. CASE ~cancelled
      <4>1. stdout /\ proc \in {"running", "dead"}
        BY <2>0, <2>1, <3>2 DEF ReadOut, InputInv
      <4>2. CASE pipe # <<>> \/ proc = "dead"
        BY <2>1, <3>2, <4>1, <4>2 DEF OwedToRun
      <4>3. CASE pipe = <<>> /\ proc = "running"
        <5>1. Len(pipe) < PipeCap
          BY <4>3, ConstantsAssumption
        <5>2. CASE backend # "claude"
          BY <2>0, <3>2, <4>1, <4>3, <5>1, <5>2 DEF OwedToRun, InputInv
        <5>3. CASE backend = "claude"
          <6>1. stdin \in {"open", "closed"} /\ prompt \in {"writing", "done", "failed"}
                /\ printed \in Nat /\ Banner \in Nat
            BY <2>0, <2>1, <5>3, ConstantsAssumption DEF InputInv, TypeOK
          <6>2. word # "none" => stdin = "closed"
            BY <2>0, <2>1, <4>3, <5>3 DEF InputInv
          <6>3. stdin = "closed" => word # "none"
            BY <2>0, <2>1, <3>2 DEF InputInv
          <6>4. prompt = "failed" => stdin = "closed"
            BY <2>0, <4>3 DEF InputInv
          <6>5. CASE word # "none"
            BY <3>2, <4>3, <6>2, <6>5 DEF OwedToRun
          <6>6. CASE word = "none"
            <7>1. stdin = "open" /\ prompt \in {"writing", "done"}
              BY <6>1, <6>3, <6>4, <6>6
            <7>2. printed < Banner \/ printed >= Banner
              BY <6>1
            <7> QED BY <3>2, <4>1, <4>3, <5>1, <6>6, <7>1, <7>2 DEF OwedToRun
          <6> QED BY <6>5, <6>6
        <5> QED BY <5>2, <5>3
      <4> QED BY <4>1, <4>2, <4>3
    <3> QED BY <3>1, <3>2
  <2>2. CASE run = "wait"
    <3>1. proc \in {"running", "dead"} /\ (~cancelled => proc # "running")
      BY <2>0, <2>2 DEF InputInv, ReadOut
    <3> QED BY <2>2, <3>1 DEF OwedToCancelled, OwedToRun
  <2>3. CASE run = "judge"
    <3>1. proc = "reaped"
      BY <2>0, <2>3 DEF Stages, Waited
    <3> QED BY <2>3, <3>1 DEF OwedToCancelled, OwedToRun
  <2>4. CASE run \in {"drain", "told", "sealed"}
    BY <2>4 DEF OwedToCancelled, OwedToRun
  <2> QED BY <2>1, <2>2, <2>3, <2>4 DEF Busy
<1> QED BY <1>1, WaitInvariant, PTL

\* What is left to do of a cancelled run: the stages of the goroutine, the lines
\* of the pipe once it is closed for writing, the process, the prompt.
StagesLeft == CASE run = "scan" -> 6 [] run = "wait" -> 5 [] run = "drain" -> 4
                [] run = "judge" -> 3 [] run = "told" -> 2 [] run = "sealed" -> 1 [] OTHER -> 0
LinesLeft  == IF stdout THEN PipeCap + 1 ELSE Len(pipe)
ToKill     == IF proc = "running" THEN 1 ELSE 0
ToWrite    == IF prompt = "writing" THEN 1 ELSE 0

Rank == StagesLeft + LinesLeft + ToKill + ToWrite

\* The steps owed to a cancelled run; Scan counts once the pipe is closed.
Helps ==
    \/ ScanEnds \/ WaitProcess \/ WaitPipes \/ Judge \/ DeferCloseResult \/ DeferCloseEvents
    \/ WatchContext \/ Kill \/ WriteFails
    \/ Scan /\ ~stdout

\* Nothing brings a cancelled run further from its end, the output of the CLI and
\* what its processes hold included, and every step it is owed brings it nearer.
CancelledDescends ==
    cancelled /\ Busy => /\ Rank \in Nat
                         /\ Rank' <= Rank
                         /\ Helps => Rank' < Rank

LEMMA SumsDescend ==
    ASSUME NEW a \in Nat, NEW b \in Nat, NEW c \in Nat, NEW d \in Nat,
           NEW x \in Nat, NEW y \in Nat, NEW z \in Nat, NEW w \in Nat,
           x <= a, y <= b, z <= c, w <= d
    PROVE  /\ a + b + c + d \in Nat /\ x + y + z + w <= a + b + c + d
           /\ x < a \/ y < b \/ z < c \/ w < d => x + y + z + w < a + b + c + d
  OBVIOUS

THEOREM CancelledRunEnds == Spec => [][CancelledDescends]_vars
<1>1. WaitInv /\ [Next]_vars => [CancelledDescends]_vars
  <2> SUFFICES ASSUME WaitInv, Next, cancelled, Busy
               PROVE  Rank \in Nat /\ Rank' <= Rank /\ (Helps => Rank' < Rank)
    BY DEF CancelledDescends
  <2>0. /\ Len(pipe) \in Nat /\ Len(pipe) <= PipeCap /\ PipeCap \in Nat
        /\ stdout \in BOOLEAN /\ pipe \in Seq(Lines) /\ run \notin {"new", "refused"}
    BY ConstantsAssumption DEF WaitInv, RunInv, TypeOK, Busy
  <2>1. StagesLeft \in Nat /\ LinesLeft \in Nat /\ ToKill \in Nat /\ ToWrite \in Nat
    BY <2>0 DEF StagesLeft, LinesLeft, ToKill, ToWrite
  <2>2. /\ run' = run => StagesLeft' = StagesLeft
        /\ UNCHANGED <<stdout, pipe>> => LinesLeft' = LinesLeft
        /\ proc' = proc => ToKill' = ToKill
        /\ prompt' = prompt => ToWrite' = ToWrite
    BY DEF StagesLeft, LinesLeft, ToKill, ToWrite
  <2>3. ASSUME StagesLeft' <= StagesLeft, LinesLeft' <= LinesLeft, ToKill' <= ToKill,
               ToWrite' <= ToWrite, StagesLeft' \in Nat, LinesLeft' \in Nat,
               ToKill' \in Nat, ToWrite' \in Nat
        PROVE  /\ Rank \in Nat /\ Rank' <= Rank
               /\ (\/ StagesLeft' < StagesLeft \/ LinesLeft' < LinesLeft
                   \/ ToKill' < ToKill \/ ToWrite' < ToWrite)
                  => Rank' < Rank
    BY <2>1, <2>3, SumsDescend DEF Rank
  <2>4. CASE Scan
    <3>1. UNCHANGED <<run, stdout, proc, prompt>> /\ Len(pipe') = Len(pipe) - 1 /\ Len(pipe') \in Nat
      BY <2>0, <2>4 DEF Scan, cli
    <3>2. LinesLeft' <= LinesLeft /\ LinesLeft' \in Nat /\ (~stdout => LinesLeft' < LinesLeft)
      BY <2>0, <3>1 DEF LinesLeft
    <3>3. Helps => ~stdout
      BY <2>4 DEF Helps, Scan, ScanEnds, WaitProcess, WaitPipes, Judge, DeferCloseResult,
                  DeferCloseEvents, WatchContext, Kill, WriteFails, cli, pipes, goroutine
    <3> QED BY <2>1, <2>2, <2>3, <3>1, <3>2, <3>3
  <2>5. CASE ScanEnds \/ WaitProcess \/ WaitPipes \/ Judge \/ DeferCloseResult \/ DeferCloseEvents
    <3>1. /\ \/ run = "scan" /\ run' = "wait"
             \/ run = "wait" /\ run' = "drain"
             \/ run = "drain" /\ run' = "judge"
             \/ run = "judge" /\ run' = "told"
             \/ run = "told" /\ run' = "sealed"
             \/ run = "sealed" /\ run' = "closed"
          /\ stdout' = stdout \/ ~stdout'
          /\ proc' = proc \/ proc' = "reaped"
          /\ UNCHANGED <<pipe, prompt>>
      BY <2>5 DEF ScanEnds, WaitProcess, WaitPipes, Judge, DeferCloseResult, DeferCloseEvents,
                  cli, pipes
    <3>2. StagesLeft' < StagesLeft /\ StagesLeft' \in Nat
      BY <3>1 DEF StagesLeft
    <3>3. LinesLeft' <= LinesLeft /\ LinesLeft' \in Nat
      BY <2>0, <3>1 DEF LinesLeft
    <3>4. ToKill' <= ToKill /\ ToKill' \in Nat
      BY <3>1 DEF ToKill
    <3> QED BY <2>1, <2>2, <2>3, <3>1, <3>2, <3>3, <3>4
  <2>6. CASE WatchContext
    <3>1. stdout /\ ~stdout' /\ UNCHANGED <<run, pipe, proc, prompt>>
      BY <2>6 DEF WatchContext, goroutine, cli
    <3>2. LinesLeft' < LinesLeft /\ LinesLeft' \in Nat
      BY <2>0, <3>1 DEF LinesLeft
    <3> QED BY <2>1, <2>2, <2>3, <3>1, <3>2
  <2>7. CASE Kill \/ Finishes \/ Crashes
    <3>1. proc = "running" /\ proc' = "dead" /\ UNCHANGED <<run, stdout, pipe, prompt>>
      BY <2>7 DEF Kill, Finishes, Crashes, Exits, Running, goroutine, pipes
    <3>2. ToKill' < ToKill /\ ToKill' \in Nat
      BY <3>1 DEF ToKill
    <3> QED BY <2>1, <2>2, <2>3, <3>1, <3>2
  <2>8. CASE WriteFails \/ ReadsPrompt
    <3>1. /\ prompt = "writing" /\ prompt' # "writing"
          /\ UNCHANGED <<run, stdout, pipe, proc>>
      BY <2>8 DEF WriteFails, ReadsPrompt, goroutine, cli
    <3>2. ToWrite' < ToWrite /\ ToWrite' \in Nat
      BY <3>1 DEF ToWrite
    <3> QED BY <2>1, <2>2, <2>3, <3>1, <3>2
  <2>9. CASE Says \/ Answers
    <3>a. PICK line \in Lines : Writes(line)
      BY <2>9 DEF Says, Answers, Lines
    <3>b. printed \in Nat
      BY DEF WaitInv, RunInv, TypeOK
    <3>1. stdout /\ printed' # printed /\ UNCHANGED <<run, stdout, proc, prompt>>
      BY <3>a, <3>b DEF Writes, goroutine
    <3>2. LinesLeft' = LinesLeft
      BY <3>1 DEF LinesLeft
    <3>3. ~Helps
      BY <3>1 DEF Helps, Scan, ScanEnds, WaitProcess, WaitPipes, Judge, DeferCloseResult,
                  DeferCloseEvents, WatchContext, Kill, WriteFails, cli
    <3> QED BY <2>1, <2>2, <2>3, <3>1, <3>2, <3>3
  <2>10. CASE Cancel \/ Interrupt \/ TakeEvent \/ HolderExits
    <3>1. UNCHANGED <<run, stdout, pipe, proc, prompt>>
      BY <2>10 DEF Cancel, Interrupt, TakeEvent, HolderExits, goroutine, pipes, cli
    <3>a. ~Scan
      <4>1. Scan => Len(pipe') = Len(pipe) - 1
        BY <2>0 DEF Scan
      <4> QED BY <2>0, <3>1, <4>1
    <3>2. ~Helps
      BY <3>1, <3>a DEF Helps, ScanEnds, WaitProcess, WaitPipes, Judge, DeferCloseResult,
                  DeferCloseEvents, WatchContext, Kill, WriteFails
    <3> QED BY <2>1, <2>2, <2>3, <3>1, <3>2
  <2>11. ~(ExecuteFails \/ Execute \/ ExecuteClaude \/ ExecuteCodex)
    BY <2>0 DEF ExecuteFails, Execute, ExecuteClaude, ExecuteCodex
  <2> QED BY <2>4, <2>5, <2>6, <2>7, <2>8, <2>9, <2>10, <2>11 DEF Next, Goroutine, Cli
<1> QED BY <1>1, WaitInvariant, PTL DEF Spec
=============================================================================
