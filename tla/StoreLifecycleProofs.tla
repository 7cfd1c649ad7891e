------------------------ MODULE StoreLifecycleProofs ------------------------
(***************************************************************************)
(* What holds of the store for any number of sessions, readers and         *)
(* migrations and any capacity of the channel: the version row never       *)
(* promises a column that is missing, rows of dead processes are settled   *)
(* before the store serves, what Write reported as done stays done, and a  *)
(* caller of Write comes nearer to its answer whatever else is asked.      *)
(***************************************************************************)
EXTENDS StoreLifecycle, FiniteSetTheorems, TLAPS

\* Where migrate is: the local version follows the row, and the step that
\* writes the row comes after the column has been added.
Migrating ==
    /\ pc \in {"apply", "version", "open", "closing", "exited"} => mig = version
    /\ pc \in {"apply", "version", "open", "closing", "exited"} => version # 0
    /\ pc = "version" => mig \in columns
    /\ Up => version = LastVersion
    /\ pc = "seed" => version = 0
    /\ version # 0 => 1..(version - 1) \subseteq columns

SchemaInv == TypeOK /\ Migrating

\* Outside a store that is open nobody is calling it and nothing is queued.
Quiet ==
    ~Up => /\ queue = <<>>
           /\ job = {}
           /\ writer = "idle"
           /\ call = [s \in Sessions |-> NoCall]
           /\ started = {}

\* An operation is in one place: its caller waits while it is in the channel or
\* in the hands of the writer, and it is there once.
OnePlace ==
    /\ \A i \in DOMAIN queue : call[queue[i]].at = "wait" /\ queue[i] \notin job
    /\ \A i, j \in DOMAIN queue : queue[i] = queue[j] => i = j
    /\ \A s \in job : call[s].at = "wait"

\* A caller is told only of the operation it has got back, and a start is under
\* way only for a session the process has started.
Callers ==
    /\ \A s \in Sessions : told[s] # "none" => call[s].at = "idle"
    /\ \A s \in Sessions : call[s].op = "start" => s \in started

\* What the writer is about to report is what the transaction left.
Outcome ==
    writer = "reply" /\ outcome = "ok" =>
        \A s \in job : IF call[s].op = "start" THEN status[s] = "running"
                       ELSE status[s] \notin {"running", "interrupted"}

WriteInv == Quiet /\ OnePlace /\ Callers /\ Outcome /\ NoStaleRunning /\ AckedIsDurable

LEMMA TypeStep ==
    ASSUME SchemaInv, [Next]_vars
    PROVE  TypeOK'
<1> USE ConstantsAssumption DEF SchemaInv, TypeOK, Migrations, NoCall
<1>1. CASE WriteVersion
  <2>1. mig \in Migrations
    BY <1>1 DEF WriteVersion, Migrating
  <2> QED BY <1>1, <2>1 DEF WriteVersion, loop, callers
<1>11. CASE Start \/ CreateTables \/ ReadVersion \/ SeedVersion \/ ApplyMigration \/ ApplyAgain
  <2>1. CASE Start
    BY <2>1 DEF Start, file, loop, callers
  <2>2. CASE CreateTables
    BY <2>2 DEF CreateTables, loop, callers
  <2>3. CASE ReadVersion
    BY <2>3 DEF ReadVersion, file, loop, callers
  <2>6. CASE ApplyAgain
    BY <2>6 DEF ApplyAgain, file, loop, callers
  <2>4. CASE SeedVersion
    BY <2>4 DEF SeedVersion, loop, callers
  <2>5. CASE ApplyMigration
    BY <2>5 DEF ApplyMigration, loop, callers
  <2> QED BY <1>11, <2>1, <2>2, <2>3, <2>4, <2>5, <2>6
<1>2. CASE Sweep
  BY <1>2 DEF Sweep, Swept, loop, callers
<1>3. CASE Take
  BY <1>3 DEF Take, file, callers
<1>4. CASE RunTx
  BY <1>4 DEF RunTx, After, callers
<1>5. CASE Reply
  BY <1>5 DEF Reply, Told, file
<1>6. CASE Close \/ CloseDone
  BY <1>6 DEF Close, CloseDone, file, loop, callers
<1>7. CASE Die
  BY <1>7 DEF Die, Gone, file
<1>8. ASSUME NEW s \in Sessions, Request(s) \/ Enqueue(s) \/ EnqueuePanics(s)
      PROVE  TypeOK'
  <2>1. CASE Request(s)
    BY <2>1 DEF Request, file, loop
  <2>2. CASE Enqueue(s)
    <3>1. queue' \in Seq(Sessions) /\ Len(queue') <= QueueCap
      BY <2>2 DEF Enqueue
    <3>2. call' \in [Sessions -> [op : {"start", "finish"}, at : {"idle", "send", "wait"}]]
      BY <2>2 DEF Enqueue
    <3> QED BY <2>2, <3>1, <3>2 DEF Enqueue, file
  <2>3. CASE EnqueuePanics(s)
    BY <2>3 DEF EnqueuePanics, Gone, file
  <2> QED BY <1>8, <2>1, <2>2, <2>3
<1>9. ASSUME NEW r \in Readers, Query(r) \/ QueryEnds(r)
      PROVE  TypeOK'
  <2>1. UNCHANGED <<file, pc, mig, loop, callers, sweep>>
    BY <1>9 DEF Query, QueryEnds
  <2>2. reader' \in [Readers -> {"idle", "read"}]
    BY <1>9 DEF Query, QueryEnds
  <2> QED BY <2>1, <2>2 DEF file, loop, callers
<1>10. CASE UNCHANGED vars
  BY <1>10 DEF vars, file, loop, callers
<1> QED
  BY <1>1, <1>2, <1>3, <1>4, <1>5, <1>6, <1>7, <1>8, <1>9, <1>10, <1>11
     DEF Next, Open, Migrate, WriteLoop

LEMMA MigratingStep ==
    ASSUME SchemaInv, [Next]_vars
    PROVE  Migrating'
<1> USE ConstantsAssumption DEF SchemaInv, TypeOK, Migrations, Migrating, Up
<1>1. CASE Start
  BY <1>1 DEF Start, file
<1>2. CASE CreateTables \/ ReadVersion \/ SeedVersion
  BY <1>2 DEF CreateTables, ReadVersion, SeedVersion, file
<1>3. CASE ApplyMigration
  BY <1>3 DEF ApplyMigration
<1>4. CASE ApplyAgain
  BY <1>4 DEF ApplyAgain, file
<1>5. CASE WriteVersion
  <2>1. 1..mig \subseteq columns
    BY <1>5 DEF WriteVersion
  <2> QED BY <1>5, <2>1 DEF WriteVersion
<1>6. CASE Sweep
  BY <1>6 DEF Sweep
<1>7. CASE WriteLoop
  BY <1>7 DEF WriteLoop, Take, RunTx, Reply, file
<1>8. CASE Close \/ CloseDone
  BY <1>8 DEF Close, CloseDone, file
<1>9. CASE Die
  BY <1>9 DEF Die, Gone, file
<1>10. ASSUME NEW s \in Sessions, Request(s) \/ Enqueue(s) \/ EnqueuePanics(s)
       PROVE  Migrating'
  BY <1>10 DEF Request, Enqueue, EnqueuePanics, Gone, file
<1>11. ASSUME NEW r \in Readers, Query(r) \/ QueryEnds(r)
       PROVE  Migrating'
  BY <1>11 DEF Query, QueryEnds, file
<1>12. CASE UNCHANGED vars
  BY <1>12 DEF vars, file
<1> QED
  BY <1>1, <1>2, <1>3, <1>4, <1>5, <1>6, <1>7, <1>8, <1>9, <1>10, <1>11, <1>12
     DEF Next, Open, Migrate

LEMMA InitSchema == Init => SchemaInv
  BY ConstantsAssumption DEF Init, SchemaInv, TypeOK, Migrating, NoCall, Up

\* The inductive invariant of the schema, of which the type invariant is a part.
THEOREM SchemaInvariant == Spec => []SchemaInv
<1>1. SchemaInv /\ [Next]_vars => SchemaInv'
  BY TypeStep, MigratingStep DEF SchemaInv
<1> QED
  BY InitSchema, <1>1, PTL DEF Spec

\* SchemaMatchesVersion for any number of migrations, wherever a process dies
\* in the middle of them.
THEOREM VersionIsHonest == Spec => []SchemaMatchesVersion
<1>1. SchemaInv => SchemaMatchesVersion
  BY DEF SchemaInv, Migrating, SchemaMatchesVersion
<1> QED
  BY SchemaInvariant, <1>1, PTL

-----------------------------------------------------------------------------
(* The rows and the writers.                                               *)

LEMMA InitWrite == Init => WriteInv
  BY DEF Init, WriteInv, Quiet, OnePlace, Callers, Outcome, NoStaleRunning,
         AckedIsDurable, NoCall, Up

\* Nobody calls a store that is being opened.
LEMMA OpenStep ==
    ASSUME SchemaInv, WriteInv, Start \/ Open
    PROVE  WriteInv'
<1> USE DEF WriteInv
<1>1. CASE Start \/ Migrate
  <2>1. UNCHANGED <<status, loop, callers>> /\ ~Up /\ ~Up'
    BY <1>1 DEF Start, Migrate, CreateTables, ReadVersion, SeedVersion, ApplyMigration,
                ApplyAgain, WriteVersion, file, Up
  <2> QED
    BY <2>1 DEF Quiet, OnePlace, Callers, Outcome, NoStaleRunning, AckedIsDurable,
                loop, callers
<1>2. CASE Sweep
  <2>1. UNCHANGED <<loop, callers>> /\ ~Up /\ Up'
    BY <1>2 DEF Sweep, Up
  <2>2. /\ queue = <<>> /\ job = {} /\ writer = "idle"
        /\ call = [s \in Sessions |-> NoCall] /\ started = {}
    BY <2>1 DEF Quiet
  <2>3. \/ sweep' = "failed" /\ status' = status
        \/ \A s \in Sessions : status'[s] = IF status[s] = "running" THEN "interrupted"
                                            ELSE status[s]
    BY <1>2 DEF Sweep, Swept
  <2>4. Quiet' /\ OnePlace' /\ Callers' /\ Outcome'
    BY <2>1, <2>2 DEF Quiet, OnePlace, Callers, Outcome, loop, callers
  <2>5. NoStaleRunning'
    BY <2>3 DEF NoStaleRunning
  <2>6. AckedIsDurable'
    BY <2>1, <2>2, <2>3 DEF AckedIsDurable, callers
  <2> QED BY <2>4, <2>5, <2>6
<1> QED BY <1>1, <1>2 DEF Open

\* The callers' side of Write.
LEMMA CallStep ==
    ASSUME SchemaInv, WriteInv, NEW s \in Sessions, Request(s) \/ Enqueue(s)
    PROVE  WriteInv'
<1> USE DEF WriteInv
<1>1. CASE Request(s)
  <2> DEFINE op == IF call[s].op = "start" THEN "finish" ELSE "start"
  <2>1. /\ Up /\ Up' /\ call[s].at = "idle"
        /\ UNCHANGED <<sweep, status, queue, writer, job, outcome>>
        /\ started' = IF op = "start" THEN started \cup {s} ELSE started
    BY <1>1 DEF Request, Up, file, loop
  <2>2. /\ call'[s] = [op |-> op, at |-> "send"]
        /\ \A u \in Sessions : u # s => call'[u] = call[u]
        /\ told'[s] = "none"
        /\ \A u \in Sessions : u # s => told'[u] = told[u]
    BY <1>1 DEF Request, SchemaInv, TypeOK
  <2>3. Quiet'
    BY <2>1 DEF Quiet
  <2>4. s \notin job /\ \A i \in DOMAIN queue : queue[i] # s /\ queue[i] \in Sessions
    BY <2>1 DEF OnePlace, SchemaInv, TypeOK
  <2>10. job \subseteq Sessions /\ job' = job /\ queue' = queue
    BY <2>1 DEF SchemaInv, TypeOK
  <2>5. OnePlace'
    BY <2>2, <2>4, <2>10 DEF OnePlace
  <2>6. Callers'
    BY <2>1, <2>2 DEF Callers
  <2>7. Outcome'
    BY <2>1, <2>2, <2>4 DEF Outcome, SchemaInv, TypeOK
  <2>8. NoStaleRunning'
    BY <2>1 DEF NoStaleRunning
  <2>9. AckedIsDurable'
    BY <2>1, <2>2 DEF AckedIsDurable
  <2> QED BY <2>3, <2>5, <2>6, <2>7, <2>8, <2>9
<1>2. CASE Enqueue(s)
  <2>1. /\ Up /\ Up' /\ call[s].at = "send"
        /\ UNCHANGED <<sweep, status, writer, job, outcome, started, told>>
        /\ queue' = Append(queue, s)
        /\ queue \in Seq(Sessions)
    BY <1>2 DEF Enqueue, Up, file, SchemaInv, TypeOK
  <2>2. /\ call'[s].at = "wait" /\ call'[s].op = call[s].op
        /\ \A u \in Sessions : u # s => call'[u] = call[u]
    BY <1>2 DEF Enqueue, SchemaInv, TypeOK
  <2>3. Quiet'
    BY <2>1 DEF Quiet
  <2>4. s \notin job /\ \A i \in DOMAIN queue : queue[i] # s /\ queue[i] \in Sessions
    BY <2>1 DEF OnePlace
  <2>5. /\ DOMAIN queue' = DOMAIN queue \cup {Len(queue) + 1}
        /\ queue'[Len(queue) + 1] = s
        /\ \A i \in DOMAIN queue : queue'[i] = queue[i]
    BY <2>1
  <2>6. OnePlace'
    <3>1. \A i \in DOMAIN queue' : call'[queue'[i]].at = "wait" /\ queue'[i] \notin job'
      BY <2>1, <2>2, <2>4, <2>5 DEF OnePlace
    <3>2. ASSUME NEW i \in DOMAIN queue', NEW j \in DOMAIN queue', queue'[i] = queue'[j]
          PROVE  i = j
      <4>1. CASE i \in DOMAIN queue /\ j \in DOMAIN queue
        <5>1. queue[i] = queue[j]
          BY <2>5, <3>2, <4>1
        <5> QED BY <4>1, <5>1 DEF OnePlace
      <4>2. CASE i \in DOMAIN queue /\ j = Len(queue) + 1
        BY <2>4, <2>5, <3>2, <4>2
      <4>3. CASE i = Len(queue) + 1 /\ j \in DOMAIN queue
        BY <2>4, <2>5, <3>2, <4>3
      <4>4. CASE i = Len(queue) + 1 /\ j = Len(queue) + 1
        BY <4>4
      <4> QED BY <2>5, <4>1, <4>2, <4>3, <4>4
    <3>3. \A u \in job' : call'[u].at = "wait"
      <4>1. job' = job /\ job \subseteq Sessions
        BY <2>1 DEF SchemaInv, TypeOK
      <4> QED BY <2>2, <2>4, <4>1 DEF OnePlace
    <3> QED BY <3>1, <3>2, <3>3 DEF OnePlace
  <2>7. Callers'
    BY <2>1, <2>2 DEF Callers
  <2>8. Outcome'
    BY <2>1, <2>2, <2>4 DEF Outcome, SchemaInv, TypeOK
  <2>9. NoStaleRunning' /\ AckedIsDurable'
    BY <2>1 DEF NoStaleRunning, AckedIsDurable
  <2> QED BY <2>3, <2>6, <2>7, <2>8, <2>9
<1> QED BY <1>1, <1>2

\* The writer's side.  What it holds has left the channel; the caller hears of
\* it in the same step that takes it out of the writer's hands.
LEMMA LoopStep ==
    ASSUME SchemaInv, WriteInv, WriteLoop
    PROVE  WriteInv'
<1> USE DEF WriteInv
<1>1. CASE Take
  <2>1. /\ UNCHANGED <<sweep, status, pc, call, started, told>>
        /\ queue # <<>> /\ queue \in Seq(Sessions)
        /\ writer' = "begin" /\ job' = {Head(queue)} /\ queue' = Tail(queue)
    BY <1>1 DEF Take, file, callers, SchemaInv, TypeOK
  <2>2. Up /\ Quiet'
    BY <2>1 DEF Quiet, Up
  <2>3. /\ DOMAIN queue' = 1..(Len(queue) - 1) /\ DOMAIN queue = 1..Len(queue)
        /\ Len(queue) \in Nat \ {0}
        /\ \A i \in DOMAIN queue' : queue'[i] = queue[i + 1]
        /\ Head(queue) = queue[1]
    BY <2>1
  <2>4. OnePlace'
    <3>1. \A i \in DOMAIN queue' : i + 1 \in DOMAIN queue /\ i + 1 # 1
      BY <2>3
    <3>2. 1 \in DOMAIN queue
      BY <2>3
    <3>3. \A i \in DOMAIN queue' : call'[queue'[i]].at = "wait" /\ queue'[i] \notin job'
      BY <2>1, <2>3, <3>1, <3>2 DEF OnePlace
    <3>4. \A i, j \in DOMAIN queue' : queue'[i] = queue'[j] => i = j
      BY <2>3, <3>1 DEF OnePlace
    <3>5. \A u \in job' : call'[u].at = "wait"
      BY <2>1, <2>3, <3>2 DEF OnePlace
    <3> QED BY <3>3, <3>4, <3>5 DEF OnePlace
  <2>5. Callers' /\ Outcome' /\ NoStaleRunning' /\ AckedIsDurable'
    BY <2>1 DEF Callers, Outcome, NoStaleRunning, AckedIsDurable, Up
  <2> QED BY <2>2, <2>4, <2>5
<1>2. CASE RunTx
  <2>1. /\ UNCHANGED <<sweep, pc, queue, job, call, started, told>>
        /\ writer = "begin" /\ writer' = "reply"
    BY <1>2 DEF RunTx, callers
  <2>2. Quiet' /\ OnePlace' /\ Callers' /\ Up /\ Up'
    BY <2>1 DEF Quiet, OnePlace, Callers, Up
  <2>3. \A u \in Sessions : u \in job => call[u].at = "wait" /\ told[u] = "none"
    BY DEF OnePlace, Callers
  <2>4. CASE outcome' = "error" /\ UNCHANGED status
    BY <2>1, <2>2, <2>4 DEF Outcome, NoStaleRunning, AckedIsDurable
  <2>5. CASE status' = [u \in Sessions |-> IF u \in job THEN After(u) ELSE status[u]]
    <3>1. \A u \in Sessions : /\ u \in job => status'[u] = After(u)
                              /\ u \notin job => status'[u] = status[u]
      BY <2>5
    <3>2. Outcome'
      <4>1. \A u \in Sessions : IF call[u].op = "start" THEN After(u) = "running"
                               ELSE After(u) \in {"absent", "completed"}
        BY DEF After
      <4>2. job \subseteq Sessions
        BY DEF SchemaInv, TypeOK
      <4> QED BY <2>1, <3>1, <4>1, <4>2 DEF Outcome
    <3>3. NoStaleRunning'
      BY <2>1, <2>2, <3>1 DEF NoStaleRunning, After, Callers
    <3>4. AckedIsDurable'
      BY <2>1, <2>3, <3>1 DEF AckedIsDurable
    <3> QED BY <2>2, <3>2, <3>3, <3>4
  <2> QED BY <1>2, <2>4, <2>5 DEF RunTx
<1>3. CASE Reply
  <2>1. /\ UNCHANGED <<sweep, status, pc, queue, outcome, started>>
        /\ writer = "reply" /\ writer' = "idle" /\ job' = {}
    BY <1>3 DEF Reply, file
  <2>2. \A u \in Sessions :
          /\ call'[u].op = call[u].op
          /\ u \in job => call'[u].at = "idle"
          /\ u \notin job => call'[u] = call[u] /\ told'[u] = told[u]
          /\ u \in job => told'[u] = IF outcome = "ok" THEN Told(u) ELSE told[u]
    BY <1>3 DEF Reply, SchemaInv, TypeOK
  <2>3. Up /\ Up' /\ Quiet'
    BY <2>1 DEF Quiet, Up
  <2>4. OnePlace'
    BY <2>1, <2>2 DEF OnePlace, SchemaInv, TypeOK
  <2>5. Callers'
    BY <2>1, <2>2 DEF Callers
  <2>6. Outcome' /\ NoStaleRunning'
    BY <2>1, <2>3 DEF Outcome, NoStaleRunning
  <2>7. AckedIsDurable'
    BY <2>1, <2>2 DEF AckedIsDurable, Outcome, Told
  <2> QED BY <2>3, <2>4, <2>5, <2>6, <2>7
<1> QED BY <1>1, <1>2, <1>3 DEF WriteLoop

\* The process ends: by itself, by a panic of a sender, or killed.
LEMMA EndStep ==
    ASSUME SchemaInv, WriteInv,
           \/ Close \/ CloseDone \/ Die
           \/ \E s \in Sessions : EnqueuePanics(s)
           \/ \E r \in Readers : Query(r) \/ QueryEnds(r)
           \/ UNCHANGED vars
    PROVE  WriteInv'
<1> USE DEF WriteInv
<1>1. CASE Close \/ CloseDone
  <2>1. UNCHANGED <<sweep, status, loop, callers>> /\ Up /\ Up'
    BY <1>1 DEF Close, CloseDone, file, Up
  <2> QED
    BY <2>1 DEF Quiet, OnePlace, Callers, Outcome, NoStaleRunning, AckedIsDurable,
                loop, callers
<1>2. CASE Die \/ \E s \in Sessions : EnqueuePanics(s)
  <2>1. /\ ~Up' /\ UNCHANGED <<status, told>>
        /\ queue' = <<>> /\ job' = {} /\ writer' = "idle"
        /\ call' = [s \in Sessions |-> NoCall] /\ started' = {}
    BY <1>2 DEF Die, EnqueuePanics, Gone, file, Up
  <2>2. \A s \in Sessions : call'[s].at = "idle" /\ call'[s].op = "finish"
    BY <2>1 DEF NoCall
  <2>3. Quiet' /\ OnePlace' /\ Callers' /\ Outcome'
    BY <2>1, <2>2 DEF Quiet, OnePlace, Callers, Outcome
  <2>4. NoStaleRunning' /\ AckedIsDurable'
    BY <2>1 DEF NoStaleRunning, AckedIsDurable
  <2> QED BY <2>3, <2>4
<1>3. CASE (\E r \in Readers : Query(r) \/ QueryEnds(r)) \/ UNCHANGED vars
  <2>1. UNCHANGED <<sweep, status, pc, loop, callers>>
    BY <1>3 DEF Query, QueryEnds, vars, file
  <2> QED
    BY <2>1 DEF Quiet, OnePlace, Callers, Outcome, NoStaleRunning, AckedIsDurable,
                loop, callers, Up
<1> QED BY <1>1, <1>2, <1>3

LEMMA WriteInvariant == Spec => []WriteInv
<1>1. SchemaInv /\ WriteInv /\ [Next]_vars => WriteInv'
  BY OpenStep, CallStep, LoopStep, EndStep DEF Next
<1> QED
  BY InitWrite, SchemaInvariant, <1>1, PTL DEF Spec

\* The types; in particular the channel never holds more than QueueCap operations.
THEOREM TypeCorrect == Spec => []TypeOK
<1>1. SchemaInv => TypeOK
  BY DEF SchemaInv
<1> QED
  BY SchemaInvariant, <1>1, PTL

\* NoStaleRunning for any number of sessions and any number of failed sweeps
\* before: where the sweep has succeeded it came before the first request, and
\* no row says running for a process that is dead.
THEOREM NobodyRunsInADeadProcess == Spec => []NoStaleRunning
<1>1. WriteInv => NoStaleRunning
  BY DEF WriteInv
<1> QED
  BY WriteInvariant, <1>1, PTL

\* AckedIsDurable for any number of sessions and readers and any capacity.
THEOREM AcknowledgedSurvives == Spec => []AckedIsDurable
<1>1. WriteInv => AckedIsDurable
  BY DEF WriteInv
<1> QED
  BY WriteInvariant, <1>1, PTL

-----------------------------------------------------------------------------
(* How a Write ends: WriteSettles short of fairness.                       *)

\* An operation whose caller waits is in the channel or in the hands of the writer,
\* the writer has one exactly while it works, and Close leaves none behind.
PlaceInv ==
    /\ writer = "idle" <=> job = {}
    /\ \A s \in Sessions : call[s].at = "wait" => s \in job \/ \E i \in DOMAIN queue : queue[i] = s
    /\ pc = "exited" => queue = <<>> /\ writer = "idle"

\* The writer has something to do and what it takes, or a reader holds the
\* connection it waits for.
WriterOwed ==
    \/ writer = "idle" /\ queue # <<>>
    \/ writer = "begin" /\ (ConnFree \/ \E r \in Readers : reader[r] = "read")
    \/ writer = "reply"

\* Whoever waits in Write is owed a step, and so is Close.
WritesCanMove ==
    /\ \A s \in Sessions : call[s].at = "wait" => WriterOwed
    /\ \A s \in Sessions : call[s].at = "send" =>
          WriterOwed \/ Len(queue) < QueueCap \/ pc \in {"closing", "exited"}
    /\ pc = "closing" => WriterOwed \/ (queue = <<>> /\ writer = "idle")

Index(q, s) == CHOOSE i \in DOMAIN q : q[i] = s

\* How much the writer has to do until the caller of s, who waits, is answered:
\* three steps for each operation, those of the one at hand counted down.
Distance(s) ==
    3 * (IF s \in job THEN 0 ELSE Index(queue, s))
    + (CASE writer = "begin" -> 2 [] writer = "reply" -> 1 [] OTHER -> 0)

\* A caller that waits leaves only with its answer or with its process; until then
\* no other call, no reader and no Close brings it further from its answer, and
\* each step of the writer brings it nearer, failed transactions included.
WritesDescend ==
    \A s \in Sessions : call[s].at = "wait" =>
        \/ /\ call'[s] = call[s]
           /\ Distance(s)' <= Distance(s)
           /\ WriteLoop => Distance(s)' < Distance(s)
        \/ Reply /\ s \in job /\ call'[s].at = "idle"
        \/ pc' = "down"

\* Every step keeps what is waited for in its place.
LEMMA PlaceStep ==
    ASSUME SchemaInv, WriteInv, PlaceInv, [Next]_vars
    PROVE  PlaceInv'
<1>0. TypeOK
  BY DEF SchemaInv
<1> USE DEF PlaceInv
<1>1. ASSUME UNCHANGED <<writer, job, queue, call>>, pc' = "exited" => pc = "exited"
      PROVE  PlaceInv'
  BY <1>1
<1>2. CASE Start \/ Open \/ Close
  BY <1>1, <1>2 DEF Start, Open, Migrate, CreateTables, ReadVersion, SeedVersion, ApplyMigration,
     ApplyAgain, WriteVersion, Sweep, Close, loop, callers
<1>3. CASE CloseDone
  BY <1>3 DEF CloseDone, loop, callers
<1>4. CASE Take
  <2>1. /\ writer' = "begin" /\ job' = {Head(queue)} /\ queue' = Tail(queue)
        /\ UNCHANGED <<pc, call>> /\ queue # <<>> /\ queue \in Seq(Sessions)
        /\ writer = "idle" /\ job = {} /\ pc # "exited"
    BY <1>0, <1>4 DEF Take, callers, TypeOK
  <2>2. /\ DOMAIN queue = 1..Len(queue) /\ Len(queue) \in Nat \ {0} /\ Head(queue) = queue[1]
        /\ DOMAIN queue' = 1..(Len(queue) - 1)
        /\ \A i \in DOMAIN queue' : queue'[i] = queue[i + 1]
    BY <2>1
  <2>3. ASSUME NEW s \in Sessions, call'[s].at = "wait"
        PROVE  s \in job' \/ \E i \in DOMAIN queue' : queue'[i] = s
    <3>1. PICK i \in DOMAIN queue : queue[i] = s
      BY <2>1, <2>3
    <3>2. CASE i = 1
      BY <2>1, <2>2, <3>1, <3>2
    <3>3. CASE i # 1
      <4>1. i - 1 \in DOMAIN queue' /\ (i - 1) + 1 = i
        BY <2>2, <3>3
      <4>2. queue'[i - 1] = s
        BY <2>2, <3>1, <4>1
      <4> QED BY <4>1, <4>2
    <3> QED BY <3>2, <3>3
  <2> QED BY <2>1, <2>3
<1>5. CASE RunTx
  BY <1>5 DEF RunTx, callers
<1>6. CASE Reply
  <2>1. /\ writer' = "idle" /\ job' = {} /\ UNCHANGED <<pc, queue>>
        /\ \A s \in Sessions : IF s \in job THEN call'[s].at = "idle" ELSE call'[s] = call[s]
    BY <1>0, <1>6 DEF Reply, TypeOK
  <2> QED BY <2>1
<1>7. CASE Die
  BY <1>7 DEF Die, Gone, NoCall
<1>8. ASSUME NEW s \in Sessions, Request(s) PROVE PlaceInv'
  <2>1. UNCHANGED <<pc, writer, job, queue>>
    BY <1>8 DEF Request, loop
  <2>2. \A u \in Sessions : call'[u].at = "wait" => call[u].at = "wait"
    BY <1>0, <1>8 DEF Request, TypeOK
  <2> QED BY <2>1, <2>2
<1>9. ASSUME NEW s \in Sessions, Enqueue(s) PROVE PlaceInv'
  <2>1. /\ UNCHANGED <<pc, writer, job>> /\ queue' = Append(queue, s) /\ pc = "open"
        /\ queue \in Seq(Sessions)
        /\ \A u \in Sessions : call'[u].at = "wait" => u = s \/ call[u].at = "wait"
    BY <1>0, <1>9 DEF Enqueue, TypeOK
  <2>2. /\ DOMAIN queue \subseteq DOMAIN queue' /\ \A i \in DOMAIN queue : queue'[i] = queue[i]
        /\ Len(queue) + 1 \in DOMAIN queue' /\ queue'[Len(queue) + 1] = s
    BY <2>1
  <2> QED BY <2>1, <2>2
<1>10. ASSUME NEW s \in Sessions, EnqueuePanics(s) PROVE PlaceInv'
  BY <1>10 DEF EnqueuePanics, Gone, NoCall
<1>11. CASE (\E r \in Readers : Query(r) \/ QueryEnds(r)) \/ UNCHANGED vars
  BY <1>1, <1>11 DEF Query, QueryEnds, vars, loop, callers
<1> QED
  BY <1>2, <1>3, <1>4, <1>5, <1>6, <1>7, <1>8, <1>9, <1>10, <1>11 DEF Next, WriteLoop

\* The places of the operations, for any number of sessions and any capacity.
LEMMA PlaceInvariant == Spec => [](SchemaInv /\ WriteInv /\ PlaceInv)
<1>1. Init => PlaceInv
  BY DEF Init, PlaceInv, NoCall
<1>2. SchemaInv /\ WriteInv /\ PlaceInv /\ [Next]_vars => PlaceInv'
  BY PlaceStep
<1> QED BY <1>1, <1>2, SchemaInvariant, WriteInvariant, PTL DEF Spec

\* In every reachable state a caller of Write has the writer, room in the channel
\* or a channel that is closed to go on with, the writer has a connection or a
\* reader that will give one up, and Close has the writer or is done (Write, writeLoop).
THEOREM WritersAreNeverStuck == Spec => []WritesCanMove
<1>1. SchemaInv /\ WriteInv /\ PlaceInv => WritesCanMove
  <2> SUFFICES ASSUME SchemaInv, WriteInv, PlaceInv PROVE WritesCanMove
    OBVIOUS
  <2>0. TypeOK
    BY DEF SchemaInv
  <2>1. ConnFree \/ \E r \in Readers : reader[r] = "read"
    <3>1. ASSUME \A r \in Readers : reader[r] # "read" PROVE ConnFree
      <4>1. {r \in Readers : reader[r] = "read"} = {}
        BY <3>1
      <4>2. Cardinality({r \in Readers : reader[r] = "read"}) = 0
        BY <4>1, FS_EmptySet
      <4> QED BY <4>2, ConstantsAssumption DEF ConnFree
    <3> QED BY <3>1
  <2>2. writer # "idle" \/ queue # <<>> => WriterOwed
    BY <2>0, <2>1 DEF WriterOwed, TypeOK
  <2>3. ASSUME NEW s \in Sessions, call[s].at = "wait" PROVE WriterOwed
    BY <2>2, <2>3 DEF PlaceInv
  <2>4. queue = <<>> => Len(queue) < QueueCap
    BY ConstantsAssumption
  <2> QED BY <2>2, <2>3, <2>4 DEF WritesCanMove
<1> QED BY <1>1, PlaceInvariant, PTL

\* An operation that is in the channel once has one place there.
LEMMA IndexIs ==
    ASSUME NEW q, NEW i \in DOMAIN q, \A j, k \in DOMAIN q : q[j] = q[k] => j = k
    PROVE  Index(q, q[i]) = i
  BY DEF Index

\* A step while the caller of s waits: only Take, RunTx and Reply change what it
\* waits for.
LEMMA WriteMoves ==
    ASSUME SchemaInv, WriteInv, PlaceInv, Next, NEW s \in Sessions, call[s].at = "wait"
    PROVE  \/ /\ call'[s] = call[s]
              /\ Distance(s)' <= Distance(s)
              /\ WriteLoop => Distance(s)' < Distance(s)
           \/ Reply /\ s \in job /\ call'[s].at = "idle"
           \/ pc' = "down"
<1> DEFINE Toil == CASE writer = "begin" -> 2 [] writer = "reply" -> 1 [] OTHER -> 0
<1>0. TypeOK /\ OnePlace /\ queue \in Seq(Sessions)
  BY DEF SchemaInv, WriteInv, TypeOK
<1>1. Toil \in 0..2 /\ Toil' \in 0..2
  OBVIOUS
<1>2. s \in job => Distance(s) = Toil
  <2>1. s \in job => Distance(s) = 3 * 0 + Toil
    BY DEF Distance
  <2> HIDE DEF Toil
  <2> QED BY <1>1, <2>1
<1>3. s \in job' => Distance(s)' = Toil'
  <2>1. s \in job' => Distance(s)' = 3 * 0 + Toil'
    BY DEF Distance
  <2>2. \A t \in 0..2 : 3 * 0 + t = t
    OBVIOUS
  <2> HIDE DEF Toil
  <2> QED BY <1>1, <2>1, <2>2
<1>4. ASSUME NEW i \in DOMAIN queue, queue[i] = s PROVE Distance(s) = 3 * i + Toil
  <2>1. s \notin job
    BY <1>0, <1>4 DEF OnePlace
  <2>2. Index(queue, s) = i
    BY <1>0, <1>4, IndexIs DEF OnePlace
  <2> QED BY <2>1, <2>2 DEF Distance
<1>5. OnePlace'
  <2>1. WriteInv'
    BY OpenStep, CallStep, LoopStep, EndStep DEF Next
  <2> QED BY <2>1 DEF WriteInv
<1>6. ASSUME NEW i \in DOMAIN queue', queue'[i] = s PROVE Distance(s)' = 3 * i + Toil'
  <2>1. s \notin job'
    BY <1>5, <1>6 DEF OnePlace
  <2>2. Index(queue', s) = i
    BY <1>5, <1>6, IndexIs DEF OnePlace
  <2> QED BY <2>1, <2>2 DEF Distance
<1>7. Distance(s) \in Nat
  <2>1. CASE s \in job
    BY <1>1, <1>2, <2>1
  <2>2. CASE s \notin job
    <3>1. PICK i \in DOMAIN queue : queue[i] = s
      BY <2>2 DEF PlaceInv
    <3>2. i \in Nat /\ Distance(s) = 3 * i + Toil
      BY <1>0, <1>4, <3>1
    <3> HIDE DEF Toil
    <3> QED BY <1>1, <3>2
  <2> QED BY <2>1, <2>2
<1>8. ASSUME UNCHANGED <<writer, job, queue>> PROVE Distance(s)' = Distance(s)
  BY <1>8 DEF Distance
<1>9. CASE Take
  <2>1. /\ writer' = "begin" /\ job' = {Head(queue)} /\ queue' = Tail(queue)
        /\ UNCHANGED call /\ queue # <<>>
        /\ writer = "idle" /\ job = {}
    BY <1>9 DEF Take, callers, PlaceInv
  <2>2. /\ DOMAIN queue = 1..Len(queue) /\ Len(queue) \in Nat \ {0} /\ Head(queue) = queue[1]
        /\ DOMAIN queue' = 1..(Len(queue) - 1)
        /\ \A i \in DOMAIN queue' : queue'[i] = queue[i + 1]
    BY <1>0, <2>1
  <2>3. PICK i \in DOMAIN queue : queue[i] = s
    BY <2>1 DEF PlaceInv
  <2>4. Distance(s) = 3 * i
    <3>1. Toil = 0
      BY <2>1
    <3>2. i \in Nat
      BY <2>2
    <3> HIDE DEF Toil
    <3> QED BY <1>4, <2>3, <3>1, <3>2
  <2>5. Toil' = 2
    BY <2>1
  <2>6. CASE i = 1
    <3>1. Distance(s)' = 2
      BY <1>3, <2>1, <2>2, <2>3, <2>5, <2>6
    <3> QED BY <2>1, <2>4, <2>6, <3>1
  <2>7. CASE i # 1
    <3>1. i - 1 \in DOMAIN queue' /\ (i - 1) + 1 = i /\ i \in Nat
      BY <2>2, <2>7
    <3>2. queue'[i - 1] = s
      BY <2>2, <2>3, <3>1
    <3>3. Distance(s)' = 3 * (i - 1) + 2
      BY <1>6, <2>5, <3>1, <3>2
    <3>4. Distance(s)' < Distance(s) /\ Distance(s)' <= Distance(s)
      BY <2>4, <3>1, <3>3
    <3> QED BY <2>1, <3>4
  <2> QED BY <2>6, <2>7
<1>10. CASE RunTx
  <2>1. writer = "begin" /\ writer' = "reply" /\ UNCHANGED <<call, job, queue>>
    BY <1>10 DEF RunTx, callers
  <2>2. Distance(s) = 3 * (IF s \in job THEN 0 ELSE Index(queue, s)) + 2
    BY <2>1 DEF Distance
  <2>3. Distance(s)' = 3 * (IF s \in job THEN 0 ELSE Index(queue, s)) + 1
    BY <2>1 DEF Distance
  <2>4. (IF s \in job THEN 0 ELSE Index(queue, s)) \in Nat
    <3>1. ASSUME NEW i \in DOMAIN queue, queue[i] = s PROVE Index(queue, s) \in Nat
      BY <1>0, <3>1, IndexIs DEF OnePlace
    <3> QED BY <3>1 DEF PlaceInv
  <2> QED BY <2>1, <2>2, <2>3, <2>4
<1>11. CASE Reply
  <2>1. /\ writer = "reply" /\ writer' = "idle" /\ job' = {} /\ UNCHANGED queue
        /\ IF s \in job THEN call'[s].at = "idle" ELSE call'[s] = call[s]
    BY <1>0, <1>11 DEF Reply, TypeOK
  <2>2. CASE s \notin job
    <3>1. PICK i \in DOMAIN queue : queue[i] = s
      BY <2>2 DEF PlaceInv
    <3>2. i \in Nat
      BY <1>0
    <3>3. Toil = 1 /\ Toil' = 0
      BY <2>1
    <3>4. Distance(s) = 3 * i + 1 /\ Distance(s)' = 3 * i + 0
      BY <1>4, <1>6, <2>1, <3>1, <3>3
    <3> QED BY <2>1, <2>2, <3>2, <3>4
  <2> QED BY <1>11, <2>1, <2>2
<1>12. CASE ~WriteLoop
  <2>1. CASE Die \/ \E u \in Sessions : EnqueuePanics(u)
    BY <2>1 DEF Die, EnqueuePanics
  <2>2. CASE Start \/ Open \/ Close \/ CloseDone
    <3>1. UNCHANGED <<call, writer, job, queue>>
      BY <2>2 DEF Start, Open, Migrate, CreateTables, ReadVersion, SeedVersion, ApplyMigration,
         ApplyAgain, WriteVersion, Sweep, Close, CloseDone, loop, callers
    <3> QED BY <1>7, <1>8, <1>12, <3>1
  <2>3. ASSUME NEW u \in Sessions, Request(u)
        PROVE  UNCHANGED <<writer, job, queue>> /\ call'[s] = call[s]
    BY <1>0, <2>3 DEF Request, TypeOK, loop
  <2>4. ASSUME NEW u \in Sessions, Enqueue(u)
        PROVE  call'[s] = call[s] /\ Distance(s)' = Distance(s)
    <3>1. /\ UNCHANGED <<writer, job>> /\ queue' = Append(queue, u) /\ call'[s] = call[s]
      BY <1>0, <2>4 DEF Enqueue, TypeOK
    <3>2. DOMAIN queue \subseteq DOMAIN queue' /\ \A i \in DOMAIN queue : queue'[i] = queue[i]
      BY <1>0, <3>1
    <3>3. CASE s \in job
      BY <1>2, <1>3, <3>1, <3>3
    <3>4. CASE s \notin job
      <4>1. PICK i \in DOMAIN queue : queue[i] = s
        BY <3>4 DEF PlaceInv
      <4>2. Distance(s) = 3 * i + Toil
        BY <1>4, <4>1
      <4>3. Distance(s)' = 3 * i + Toil'
        BY <1>6, <3>2, <4>1
      <4> QED BY <3>1, <4>2, <4>3
    <3> QED BY <3>1, <3>3, <3>4
  <2>5. CASE \E r \in Readers : Query(r) \/ QueryEnds(r)
    <3>1. UNCHANGED <<call, writer, job, queue>>
      BY <2>5 DEF Query, QueryEnds, loop, callers
    <3> QED BY <1>7, <1>8, <1>12, <3>1
  <2>6. (\E u \in Sessions : Request(u) \/ Enqueue(u)) =>
            call'[s] = call[s] /\ Distance(s)' = Distance(s)
    BY <1>8, <2>3, <2>4
  <2> QED BY <1>7, <1>12, <2>1, <2>2, <2>5, <2>6 DEF Next
<1> QED BY <1>9, <1>10, <1>11, <1>12 DEF WriteLoop

\* What WriteSettles says of a caller that waits, short of fairness, for any number
\* of sessions, readers and connections: with WritersAreNeverStuck and the fairness of
\* FairSpec, Distance falls until the caller is answered or its process is gone.
THEOREM WaitingWritesEnd == Spec => [][WritesDescend]_vars
<1>1. SchemaInv /\ WriteInv /\ PlaceInv /\ [Next]_vars => [WritesDescend]_vars
  BY WriteMoves DEF WritesDescend
<1> QED BY <1>1, PlaceInvariant, PTL DEF Spec
=============================================================================
