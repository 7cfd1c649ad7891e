------------------------- MODULE AgentSessionProofs -------------------------
(***************************************************************************)
(* Theorems about AgentSession, for every number of turns and resumes and  *)
(* every capacity and bound: its inductive invariant, the log and the      *)
(* channels, and the store as an implementation of the append-only log.    *)
(***************************************************************************)
EXTENDS AgentSession, TLAPS, FiniteSetTheorems, FunctionTheorems, SequenceTheorems

-----------------------------------------------------------------------------
(* The inductive invariant, part by part.                                  *)

\* The steps of HandleStart before the row is written.
Opening == {"exec", "install", "mark"}

\* A row was created by some call, and a call that will create the row finds
\* none and no other call begun.
CreatesOnce ==
  /\ row.exists => \E t \in Turns : pc[t] # "idle"
  /\ \A t \in Turns : pc[t] \in Opening /\ ~view[t].cont =>
        /\ ~row.exists
        /\ \A u \in Turns \ {t} : pc[u] = "idle"

\* Without a row nothing has been stored.
RowFirst == ~row.exists => row.lastSeq = 0

\* Every number a call or an entry knows has been given out, to an event that
\* is stored or whose transaction failed; and the log is finite.
Numbering ==
    /\ IsFiniteSet(log)
    /\ \A t \in Turns : Accounted(seq[t], log \cup failed)
    /\ \A s \in Streams : /\ Accounted(view[s].from, log \cup failed)
                          /\ Accounted(view[s].last, log \cup failed)

\* Whoever is about to attach has found an entry.
EntryFound ==
    \A r \in Resumes : pc[r] \in {"attach", "insert", "rereplay"} => view[r].entry \in Turns

\* The status FinishSession records is one the backend sent.
ResultHeld ==
    \A t \in Turns : cpc[t] = "finish" => result[t] \in {"completed", "aborted"}

\* All of the above but for the types.
Bookkeeping ==
    HolesAreFailures /\ CreatesOnce /\ RowFirst /\ Numbering /\ EntryFound /\ ResultHeld

LogInv == TypeOK /\ Bookkeeping

-----------------------------------------------------------------------------
\* Rows above n, each above the one before it.
Ascending(q, n) ==
    /\ \A i \in 1..Len(q) : q[i] \in log /\ q[i].seq > n
    /\ \A i, j \in 1..Len(q) : i < j => q[i].seq < q[j].seq

\* Counting the rows before a row gives each its place in the order.
LEMMA PlaceOfRow ==
    ASSUME NEW E, IsFiniteSet(E), \A e \in E : e.seq \in Nat,
           \A e, f \in E : e.seq = f.seq => e = f
    PROVE  /\ Cardinality(E) \in Nat
           /\ \A e \in E : Before(E, e) \in 0..Cardinality(E) - 1
           /\ \A e, f \in E : Before(E, e) < Before(E, f) => e.seq < f.seq
           /\ \A e, f \in E : Before(E, e) = Before(E, f) => e = f
           /\ \A k \in 0..Cardinality(E) - 1 : \E e \in E : Before(E, e) = k
<1> DEFINE n == Cardinality(E)
           B(e) == {f \in E : f.seq < e.seq}
<1>1. n \in Nat
  BY FS_CardinalityType
<1>2. ASSUME NEW e \in E
      PROVE  IsFiniteSet(B(e)) /\ Before(E, e) = Cardinality(B(e)) /\ Before(E, e) \in 0..n - 1
  <2>1. B(e) \in SUBSET E /\ e \notin B(e)
    OBVIOUS
  <2> HIDE DEF B
  <2>2. IsFiniteSet(B(e)) /\ Cardinality(B(e)) <= n /\ (n = Cardinality(B(e)) => E = B(e))
    BY <2>1, FS_Subset
  <2>3. Cardinality(B(e)) \in Nat
    BY <2>2, FS_CardinalityType
  <2>4. Before(E, e) = Cardinality(B(e))
    BY DEF Before, B
  <2> HIDE DEF n
  <2>5. Cardinality(B(e)) # n
    BY <2>1, <2>2
  <2> QED BY <1>1, <2>2, <2>3, <2>4, <2>5
<1>3. ASSUME NEW e \in E, NEW f \in E, e.seq < f.seq
      PROVE  Before(E, e) < Before(E, f)
  <2>1. B(e) \in SUBSET B(f) /\ e \in B(f) /\ e \notin B(e)
    BY <1>3
  <2> HIDE DEF B
  <2>2. Cardinality(B(e)) <= Cardinality(B(f))
        /\ (Cardinality(B(f)) = Cardinality(B(e)) => B(f) = B(e))
    BY <1>2, <2>1, FS_Subset
  <2>3. Cardinality(B(e)) \in Nat /\ Cardinality(B(f)) \in Nat
    BY <1>2, FS_CardinalityType
  <2>4. Cardinality(B(e)) # Cardinality(B(f))
    BY <2>1, <2>2
  <2>5. Cardinality(B(e)) < Cardinality(B(f))
    BY <2>2, <2>3, <2>4
  <2> QED BY <1>2, <2>5
<1>a. \A e \in E : Before(E, e) \in 0..n - 1
  BY <1>2
<1>b. \A e, f \in E : e.seq < f.seq => Before(E, e) < Before(E, f)
  BY <1>3
<1> HIDE DEF n, B
<1>c. \A e \in E : Before(E, e) \in Nat
  BY <1>1, <1>a
<1>4. ASSUME NEW e \in E, NEW f \in E, Before(E, e) < Before(E, f)
      PROVE  e.seq < f.seq
  <2>1. e.seq \in Nat /\ f.seq \in Nat /\ Before(E, e) \in Nat /\ Before(E, f) \in Nat
    BY <1>c
  <2>2. e.seq # f.seq
    BY <2>1, <1>4
  <2>3. ~(f.seq < e.seq)
    BY <2>1, <1>b, <1>4
  <2> QED BY <2>1, <2>2, <2>3
<1>5. ASSUME NEW e \in E, NEW f \in E, Before(E, e) = Before(E, f)
      PROVE  e = f
  <2>1. Before(E, e) \in Nat /\ e.seq \in Nat /\ f.seq \in Nat
    BY <1>c
  <2>2. ~(e.seq < f.seq) /\ ~(f.seq < e.seq)
    BY <2>1, <1>b, <1>5
  <2>3. e.seq = f.seq
    BY <2>1, <2>2
  <2> QED BY <2>3
<1> DEFINE g == [e \in E |-> Before(E, e)]
<1>d. g \in Injection(E, 0..n - 1)
  <2>1. g \in [E -> 0..n - 1]
    BY <1>a
  <2>2. \A e, f \in E : g[e] = g[f] => e = f
    BY <1>5
  <2> HIDE DEF g
  <2> QED BY <2>1, <2>2, Fun_IsInj
<1>6. IsFiniteSet(0..n - 1) /\ Cardinality(0..n - 1) = n
  <2>1. 0 \in Int /\ n - 1 \in Int
    BY <1>1
  <2>2. IsFiniteSet(0..n - 1) /\ Cardinality(0..n - 1) = IF 0 > n - 1 THEN 0 ELSE n - 1 - 0 + 1
    BY <2>1, FS_Interval, Zenon
  <2> QED BY <1>1, <2>2
<1>7. g \in Surjection(E, 0..n - 1)
  <2> HIDE DEF g
  <2>1. Cardinality(E) = Cardinality(0..n - 1)
    BY <1>6 DEF n
  <2> QED BY <1>d, <1>6, <2>1, FS_Injection
<1>8. ASSUME NEW k \in 0..n - 1 PROVE \E e \in E : Before(E, e) = k
  BY <1>7 DEF Surjection
<1>e. \A e, f \in E : Before(E, e) < Before(E, f) => e.seq < f.seq
  BY <1>4
<1>f. \A e, f \in E : Before(E, e) = Before(E, f) => e = f
  BY <1>5
<1>g. \A k \in 0..n - 1 : \E e \in E : Before(E, e) = k
  BY <1>8
<1> HIDE DEF g
<1> QED BY <1>1, <1>a, <1>e, <1>f, <1>g DEF n

\* A replay writes exactly the stored events after its number, in their order.
LEMMA ReplayIsStored ==
    ASSUME TypeOK, HolesAreFailures, IsFiniteSet(log), NEW n \in Nat
    PROVE  /\ Replay(n) \in Seq(Event)
           /\ Ascending(Replay(n), n)
           /\ \A e \in log : e.seq > n => \E i \in 1..Len(Replay(n)) : Replay(n)[i] = e
<1> DEFINE E == Rows(n)
           m == Cardinality(E)
           R(i) == CHOOSE e \in E : Before(E, e) = i - 1
<1>1. /\ E \subseteq log /\ E \subseteq Event
      /\ \A e \in E : e.seq \in Nat /\ e.seq > n
      /\ \A e, f \in E : e.seq = f.seq => e = f
  BY DEF TypeOK, Event, HolesAreFailures, Rows
<1>2. IsFiniteSet(E)
  BY <1>1, FS_Subset
<1> HIDE DEF E
<1>3. /\ m \in Nat
      /\ \A e \in E : Before(E, e) \in 0..m - 1
      /\ \A e, f \in E : Before(E, e) < Before(E, f) => e.seq < f.seq
      /\ \A e, f \in E : Before(E, e) = Before(E, f) => e = f
      /\ \A k \in 0..m - 1 : \E e \in E : Before(E, e) = k
  <2> QED BY <1>1, <1>2, PlaceOfRow
<1>4. Replay(n) = [i \in 1..m |-> R(i)]
  BY DEF Replay, E
<1> HIDE DEF m
<1>5. ASSUME NEW i \in 1..m PROVE R(i) \in E /\ Before(E, R(i)) = i - 1
  <2>1. i - 1 \in 0..m - 1
    BY <1>3
  <2>2. \E e \in E : Before(E, e) = i - 1
    BY <1>3, <2>1
  <2> QED BY <2>2
<1> DEFINE q == Replay(n)
<1>6. q \in [1..m -> Event] /\ \A i \in 1..m : q[i] \in E /\ Before(E, q[i]) = i - 1
  BY <1>1, <1>4, <1>5
<1> HIDE DEF q, R
<1>7. q \in Seq(Event)
  BY <1>3, <1>6, SeqDef
<1>8. Len(q) = m
  BY <1>3, <1>6, <1>7, LenProperties
<1>9. \A i, j \in 1..m : i < j => q[i].seq < q[j].seq
  <2> SUFFICES ASSUME NEW i \in 1..m, NEW j \in 1..m, i < j PROVE q[i].seq < q[j].seq
    OBVIOUS
  <2>1. Before(E, q[i]) < Before(E, q[j])
    BY <1>3, <1>6
  <2> QED BY <1>3, <1>6, <2>1
<1>10. Ascending(q, n)
  BY <1>1, <1>6, <1>8, <1>9 DEF Ascending
<1>11. ASSUME NEW e \in log, e.seq > n PROVE \E i \in 1..m : q[i] = e
  <2>1. e \in E
    BY <1>11 DEF E, Rows
  <2> DEFINE k == Before(E, e)
             i == k + 1
  <2>2. k \in 0..m - 1
    BY <1>3, <2>1
  <2> HIDE DEF k
  <2>3. i \in 1..m /\ i - 1 = k
    BY <1>3, <2>2
  <2>4. q[i] \in E /\ Before(E, q[i]) = Before(E, e)
    BY <1>6, <2>3 DEF k
  <2> QED BY <1>3, <2>1, <2>3, <2>4
<1> QED BY <1>7, <1>8, <1>10, <1>11 DEF q

-----------------------------------------------------------------------------
(* Type correctness.                                                       *)

USE DEF store, manager, agent, flow, ctrl, env, Goto, CGoto

\* The type of what emit changes.
LEMMA EmitType ==
    ASSUME TypeOK, NEW t \in Turns, NEW type \in EventTypes, Emit(t, type)
    PROVE  /\ row' \in [exists : BOOLEAN, ended : BOOLEAN, status : Statuses, lastSeq : Nat]
           /\ log' \subseteq Event /\ lost' \subseteq Event /\ failed' \subseteq Event
           /\ fails' \in Nat
           /\ seq' \in [Turns -> Nat] /\ pending' \in [Turns -> Event]
           /\ UNCHANGED <<sessions, finished, cancelled, watchers>>
<1> DEFINE e == [seq |-> seq[t] + 1, turn |-> t, type |-> type]
<1>1. e \in Event /\ seq[t] + 1 \in Nat
  BY DEF TypeOK, Event
<1>2. pending' = [pending EXCEPT ![t] = e] /\ seq' = [seq EXCEPT ![t] = @ + 1] /\ AppendEvent(e)
  BY DEF Emit
<1>3. UNCHANGED <<sessions, finished, cancelled, watchers>>
  BY DEF Emit
<1>4. e.seq \in Nat
  BY <1>1 DEF Event
<1>5. seq' \in [Turns -> Nat]
  <2>1. seq \in [Turns -> Nat] /\ seq' = [seq EXCEPT ![t] = @ + 1]
    BY <1>2 DEF TypeOK
  <2> QED BY <2>1
<1>6. pending' \in [Turns -> Event]
  <2> HIDE DEF e
  <2>1. pending \in [Turns -> Event] /\ pending' = [pending EXCEPT ![t] = e]
    BY <1>2 DEF TypeOK
  <2> QED BY <1>1, <2>1
<1>7. row' \in [exists : BOOLEAN, ended : BOOLEAN, status : Statuses, lastSeq : Nat]
      /\ log' \subseteq Event /\ lost' \subseteq Event /\ failed' \subseteq Event
      /\ fails' \in Nat
  <2> DEFINE n == e.seq
  <2>1. \/ row' = row
        \/ row' = [row EXCEPT !.lastSeq = n]
    BY <1>2 DEF AppendEvent
  <2>2. log' \subseteq log \cup {e} /\ lost' \subseteq lost \cup {e} /\ failed' \subseteq failed \cup {e}
    BY <1>2 DEF AppendEvent
  <2>3. fails' = fails \/ fails' = fails + 1
    BY <1>2 DEF AppendEvent, Refused
  <2>4. n \in Nat /\ row \in [exists : BOOLEAN, ended : BOOLEAN, status : Statuses, lastSeq : Nat]
    BY <1>4 DEF TypeOK
  <2>5. log \subseteq Event /\ lost \subseteq Event /\ failed \subseteq Event /\ fails \in Nat
    BY DEF TypeOK
  <2> HIDE DEF n, e
  <2>6. row' \in [exists : BOOLEAN, ended : BOOLEAN, status : Statuses, lastSeq : Nat]
    BY <2>1, <2>4
  <2>7. log' \subseteq Event /\ lost' \subseteq Event /\ failed' \subseteq Event
    BY <1>1, <2>2, <2>5
  <2> QED BY <2>3, <2>5, <2>6, <2>7
<1> QED BY <1>3, <1>5, <1>6, <1>7

\* The type of what a statement about the sessions row changes.
LEMMA WriteRowType ==
    ASSUME TypeOK, NEW r \in [exists : BOOLEAN, ended : BOOLEAN, status : Statuses, lastSeq : Nat],
           WriteRow(r)
    PROVE  /\ row' \in [exists : BOOLEAN, ended : BOOLEAN, status : Statuses, lastSeq : Nat]
           /\ fails' \in Nat
BY DEF TypeOK, WriteRow, Refused

LEMMA StartType ==
    ASSUME TypeOK, NEW t \in Turns, HandleStart(t)
    PROVE  TypeOK'
<1> USE DEF Streams, StartPCs, ResumePCs
<1>1. CASE StartNew(t)
  BY <1>1 DEF TypeOK, StartNew, StartLocals
<1>2. CASE StartContinue(t)
  BY <1>2 DEF TypeOK, StartContinue, StartLocals
<1>3. CASE StartExecute(t)
  BY <1>3 DEF TypeOK, StartExecute
<1>4. CASE StartExecuteFails(t)
  BY <1>4 DEF TypeOK, StartExecuteFails
<1>5. CASE StartInstall(t)
  BY <1>5 DEF TypeOK, StartInstall
<1>6. CASE StartMark(t)
  <2> DEFINE Rows0 == [exists : BOOLEAN, ended : BOOLEAN, status : Statuses, lastSeq : Nat]
             x == IF view[t].cont
                  THEN [row EXCEPT !.ended = FALSE, !.status = "running"]
                  ELSE [exists |-> TRUE, ended |-> FALSE, status |-> "none", lastSeq |-> 0]
  <2>1. x \in Rows0
    BY DEF TypeOK, Statuses
  <2>2. WriteRow(x) /\ UNCHANGED <<log, lost, failed, manager, agent, flow, cpc, view, env>>
        /\ pc' = [pc EXCEPT ![t] = "respond"]
    BY <1>6 DEF StartMark
  <2> HIDE DEF x
  <2>3. row' \in Rows0 /\ fails' \in Nat
    BY <2>1, <2>2, WriteRowType
  <2> QED BY <2>2, <2>3 DEF TypeOK
<1>7. CASE StartRespond(t)
  BY <1>7 DEF TypeOK, StartRespond
<1>8. CASE StartRespondFails(t)
  BY <1>8 DEF TypeOK, StartRespondFails, Release
<1>9. CASE StartWatch(t)
  BY <1>9 DEF TypeOK, StartWatch
<1>10. CASE StartEmit(t)
  <2>1. pc[t] \in EventTypes
    BY <1>10 DEF StartEmit, EventTypes
  <2>2. Emit(t, pc[t])
    BY <1>10 DEF StartEmit
  <2>3. pc' \in [Streams -> StartPCs \cup ResumePCs]
    BY <1>10 DEF TypeOK, StartEmit
  <2>4. UNCHANGED <<agent, flow, cpc, view, env>>
    BY <1>10 DEF StartEmit
  <2> QED BY <2>1, <2>2, <2>3, <2>4, EmitType DEF TypeOK
<1>11. CASE StartConsumer(t)
  BY <1>11 DEF TypeOK, StartConsumer, ConsumerPCs
<1> QED BY <1>1, <1>2, <1>3, <1>4, <1>5, <1>6, <1>7, <1>8, <1>9, <1>10, <1>11
        DEF HandleStart

LEMMA PumpType ==
    ASSUME TypeOK, NEW s \in Streams, Pump(s) \/ BreakStream(s)
    PROVE  TypeOK'
<1> USE DEF StartPCs, ResumePCs
<1>1. CASE PumpFrame(s)
  <2>1. chan[s] \in Seq(Event) /\ chan[s] # <<>> /\ out[s] \in Seq(Event)
    BY <1>1 DEF TypeOK, PumpFrame
  <2>2. Head(chan[s]) \in Event /\ Tail(chan[s]) \in Seq(Event)
    BY <2>1, HeadTailProperties
  <2>3. Append(out[s], Head(chan[s])) \in Seq(Event)
    BY <2>1, <2>2, AppendProperties
  <2>4. chan' \in [Streams -> Seq(Event)] /\ out' \in [Streams -> Seq(Event)]
    BY <1>1, <2>2, <2>3 DEF TypeOK, PumpFrame
  <2> QED BY <1>1, <2>4 DEF TypeOK, PumpFrame
<1>2. CASE PumpWriteFails(s)
  BY <1>2, SMTT(20) DEF TypeOK, PumpWriteFails, RemoveWatcher
<1>3. CASE PumpEnds(s)
  BY <1>3 DEF TypeOK, PumpEnds, RemoveWatcher
<1>4. CASE BreakStream(s)
  BY <1>4 DEF TypeOK, BreakStream
<1> QED BY <1>1, <1>2, <1>3, <1>4 DEF Pump

LEMMA ConsumeType ==
    ASSUME TypeOK, ResultHeld, NEW t \in Turns, ConsumeEvents(t) \/ Backend(t)
    PROVE  TypeOK'
<1> USE DEF ConsumerPCs
<1>1. CASE ConsumeEvent(t)
  <2>1. "backend" \in EventTypes /\ Emit(t, "backend")
    BY <1>1 DEF ConsumeEvent, EventTypes
  <2>2. events' \in [Turns -> Nat]
    BY <1>1 DEF TypeOK, ConsumeEvent
  <2>3. UNCHANGED <<backend, result, produced, flow, ctrl, env>>
    BY <1>1 DEF ConsumeEvent
  <2> QED BY <2>1, <2>2, <2>3, EmitType DEF TypeOK
<1>2. CASE ConsumeResult(t)
  <2>1. "status" \in EventTypes /\ Emit(t, "status")
    BY <1>2 DEF ConsumeResult, EventTypes
  <2>2. cpc' \in [Turns -> ConsumerPCs]
    BY <1>2 DEF TypeOK, ConsumeResult
  <2>3. UNCHANGED <<agent, flow, pc, view, env>>
    BY <1>2 DEF ConsumeResult
  <2> QED BY <2>1, <2>2, <2>3, EmitType DEF TypeOK
<1>3. CASE ConsumeFinish(t)
  <2> DEFINE Rows0 == [exists : BOOLEAN, ended : BOOLEAN, status : Statuses, lastSeq : Nat]
             x == IF row.exists THEN [row EXCEPT !.ended = TRUE, !.status = result[t]] ELSE row
  <2>1. result[t] \in Statuses
    BY <1>3 DEF ConsumeFinish, ResultHeld, Statuses
  <2>2. x \in Rows0
    BY <2>1 DEF TypeOK
  <2>3. WriteRow(x) /\ UNCHANGED <<log, lost, failed, manager, backend, events, produced, flow,
                                   pc, view, env>>
        /\ result' = [result EXCEPT ![t] = "taken"] /\ cpc' = [cpc EXCEPT ![t] = "loop"]
    BY <1>3 DEF ConsumeFinish
  <2> HIDE DEF x
  <2>4. row' \in Rows0 /\ fails' \in Nat
    BY <2>2, <2>3, WriteRowType
  <2> QED BY <2>3, <2>4 DEF TypeOK
<1>4. CASE ConsumeClosed(t)
  <2>1. "idle" \in EventTypes /\ Emit(t, "idle")
    BY <1>4 DEF ConsumeClosed, EventTypes
  <2>2. cpc' \in [Turns -> ConsumerPCs]
    BY <1>4 DEF TypeOK, ConsumeClosed
  <2>3. UNCHANGED <<agent, flow, pc, view, env>>
    BY <1>4 DEF ConsumeClosed
  <2> QED BY <2>1, <2>2, <2>3, EmitType DEF TypeOK
<1>5. CASE SetFinished(t)
  BY <1>5 DEF TypeOK, SetFinished
<1>6. CASE CloseAllWatchers(t)
  BY <1>6 DEF TypeOK, CloseAllWatchers
<1>7. CASE ConsumeRelease(t)
  BY <1>7 DEF TypeOK, ConsumeRelease, Release
<1>8. CASE BackendEvent(t)
  BY <1>8 DEF TypeOK, BackendEvent
<1>9. CASE BackendExit(t)
  BY <1>9 DEF TypeOK, BackendExit
<1>10. CASE BackendClose(t)
  BY <1>10 DEF TypeOK, BackendClose
<1> QED BY <1>1, <1>2, <1>3, <1>4, <1>5, <1>6, <1>7, <1>8, <1>9, <1>10
        DEF ConsumeEvents, Backend

LEMMA ResumeType ==
    ASSUME TypeOK, HolesAreFailures, Numbering, EntryFound, NEW r \in Resumes, HandleResume(r)
    PROVE  TypeOK'
<1> USE DEF Streams, StartPCs, ResumePCs
<1>1. ASSUME NEW since \in 0..MaxSince, ResumeInfo(r, since)
      PROVE  TypeOK'
  <2>1. since \in Nat /\ row.lastSeq \in Nat /\ row.ended \in BOOLEAN
    BY DEF TypeOK
  <2>2. view' = [view EXCEPT ![r] = ResumeLocals(since, row.lastSeq, row.ended)]
    BY <1>1 DEF ResumeInfo
  <2>3. view' \in [Streams -> [cont : BOOLEAN, from : Nat, last : Nat,
                               ended : BOOLEAN, entry : Turns \cup {NoTurn}]]
    BY <2>1, <2>2 DEF TypeOK, ResumeLocals
  <2> QED BY <1>1, <2>3 DEF TypeOK, ResumeInfo
<1>2. CASE ResumeLookup(r)
  <2> DEFINE Locals == [cont : BOOLEAN, from : Nat, last : Nat,
                        ended : BOOLEAN, entry : Turns \cup {NoTurn}]
  <2>1. view[r] \in Locals /\ sessions \in Turns \cup {NoTurn}
    BY DEF TypeOK
  <2>2. [view[r] EXCEPT !.entry = sessions] \in Locals
    BY <2>1
  <2>3. view' = [view EXCEPT ![r] = [view[r] EXCEPT !.entry = sessions]]
    BY <1>2 DEF ResumeLookup
  <2>4. view \in [Streams -> Locals]
    BY DEF TypeOK
  <2> HIDE DEF Locals
  <2>5. view' \in [Streams -> Locals]
    BY <2>2, <2>3, <2>4
  <2> USE DEF Locals
  <2> QED BY <1>2, <2>5 DEF TypeOK, ResumeLookup
<1>3. CASE ResumeRespond(r)
  BY <1>3 DEF TypeOK, ResumeRespond
<1>4. CASE ResumeReplay(r)
  <2>1. view[r].from \in Nat /\ IsFiniteSet(log)
    BY DEF TypeOK, Numbering
  <2>2. Replay(view[r].from) \in Seq(Event)
    BY <2>1, ReplayIsStored
  <2>3. out[r] \o Replay(view[r].from) \in Seq(Event)
    BY <2>2, ConcatProperties DEF TypeOK
  <2>4. out' \in [Streams -> Seq(Event)]
    BY <1>4, <2>3, ZenonT(30) DEF TypeOK, ResumeReplay
  <2> QED BY <1>4, <2>4, ZenonT(30) DEF TypeOK, ResumeReplay
<1>5. CASE ResumeAttach(r)
  BY <1>5 DEF TypeOK, ResumeAttach
<1>6. CASE ResumeInsert(r)
  <2> DEFINE t == view[r].entry
  <2>0. t \in Turns /\ watchers \in [Turns -> SUBSET Streams]
    BY <1>6 DEF TypeOK, ResumeInsert, EntryFound
  <2>1. watchers' \in [Turns -> SUBSET Streams]
    <3>1. watchers' = watchers \/ watchers' = [watchers EXCEPT ![t] = @ \cup {r}]
      BY <1>6 DEF ResumeInsert
    <3> HIDE DEF t
    <3> QED BY <2>0, <3>1
  <2>2. pc' \in [Streams -> StartPCs \cup ResumePCs]
    BY <1>6 DEF TypeOK, ResumeInsert
  <2> QED BY <1>6, <2>1, <2>2 DEF TypeOK, ResumeInsert
<1>7. CASE ResumeRereplay(r)
  <2>1. view[r].last \in Nat /\ IsFiniteSet(log)
    BY DEF TypeOK, Numbering
  <2>2. Replay(view[r].last) \in Seq(Event)
    BY <2>1, ReplayIsStored
  <2>3. out[r] \o Replay(view[r].last) \in Seq(Event)
    BY <2>2, ConcatProperties DEF TypeOK
  <2>4. out' \in [Streams -> Seq(Event)]
    BY <1>7, <2>3 DEF TypeOK, ResumeRereplay
  <2> QED BY <1>7, <2>4 DEF TypeOK, ResumeRereplay
<1>8. CASE ResumeSynthIdle(r)
  <2>1. SynthIdle \in Event
    BY DEF SynthIdle, Event, EventTypes
  <2>2. Append(out[r], SynthIdle) \in Seq(Event)
    BY <2>1, AppendProperties DEF TypeOK
  <2>3. out' \in [Streams -> Seq(Event)]
    BY <1>8, <2>2 DEF TypeOK, ResumeSynthIdle
  <2> QED BY <1>8, <2>3 DEF TypeOK, ResumeSynthIdle
<1> QED BY <1>1, <1>2, <1>3, <1>4, <1>5, <1>6, <1>7, <1>8 DEF HandleResume, ResumeSteps

LEMMA OtherType ==
    ASSUME TypeOK, Interrupt \/ Crash \/ (\E t \in Turns : Broadcast(t))
    PROVE  TypeOK'
<1>1. CASE Interrupt
  BY <1>1 DEF TypeOK, Interrupt
<1>2. CASE Crash
  <2>1. NoEvent \in Event
    BY DEF NoEvent, Event, EventTypes
  <2>2. pending' \in [Turns -> Event] /\ chan' \in [Streams -> Seq(Event)]
    BY <1>2, <2>1 DEF Crash
  <2>3. /\ row' \in [exists : BOOLEAN, ended : BOOLEAN, status : Statuses, lastSeq : Nat]
        /\ fails' \in Nat
    <3> DEFINE x == IF row.exists /\ (~row.ended \/ row.status = "running")
                    THEN [row EXCEPT !.ended = TRUE, !.status = "interrupted"] ELSE row
    <3>1. x \in [exists : BOOLEAN, ended : BOOLEAN, status : Statuses, lastSeq : Nat]
      BY DEF TypeOK, Statuses
    <3>2. WriteRow(x)
      BY <1>2 DEF Crash
    <3> HIDE DEF x
    <3> QED BY <3>1, <3>2, WriteRowType
  <2>4. /\ pc' \in [Streams -> StartPCs \cup ResumePCs]
        /\ cpc' \in [Turns -> ConsumerPCs]
        /\ backend' \in [Turns -> {"none", "running", "exited", "closed"}]
        /\ result' \in [Turns -> {"empty", "completed", "aborted", "taken"}]
        /\ events' \in [Turns -> Nat]
        /\ watchers' \in [Turns -> SUBSET Streams]
    BY <1>2 DEF TypeOK, Crash, StartPCs, ResumePCs, ConsumerPCs
  <2>5. /\ log' \subseteq Event /\ lost' \subseteq Event /\ failed' \subseteq Event
        /\ seq' \in [Turns -> Nat] /\ produced' \in [Turns -> Nat]
        /\ closed' \subseteq Streams /\ dropped' \subseteq Streams
        /\ out' \in [Streams -> Seq(Event)]
        /\ view' \in [Streams -> [cont : BOOLEAN, from : Nat, last : Nat,
                                  ended : BOOLEAN, entry : Turns \cup {NoTurn}]]
        /\ breaks' \in Nat
    BY <1>2 DEF TypeOK, Crash
  <2>6. /\ sessions' \in Turns \cup {NoTurn}
        /\ finished' \subseteq Turns /\ cancelled' \subseteq Turns
        /\ broken' \subseteq Streams
        /\ crashes' \in Nat
    BY <1>2 DEF TypeOK, Crash
  <2> QED BY <2>2, <2>3, <2>4, <2>5, <2>6 DEF TypeOK
<1>3. ASSUME NEW t \in Turns, Broadcast(t)
      PROVE  TypeOK'
  <2>1. NoEvent \in Event
    BY DEF NoEvent, Event, EventTypes
  <2>2. pending[t] \in Event
    BY DEF TypeOK
  <2>3. \A s \in Streams : Append(chan[s], pending[t]) \in Seq(Event)
    BY <2>2, AppendProperties DEF TypeOK
  <2>4. chan' \in [Streams -> Seq(Event)]
    BY <1>3, <2>3 DEF TypeOK, Broadcast
  <2>5. pending' \in [Turns -> Event] /\ dropped' \subseteq Streams
    BY <1>3, <2>1 DEF TypeOK, Broadcast
  <2> QED BY <1>3, <2>4, <2>5 DEF TypeOK, Broadcast
<1> QED BY <1>1, <1>2, <1>3

LEMMA TypeInit == Init => TypeOK
<1>1. NoEvent \in Event
  BY DEF NoEvent, Event, EventTypes
<1> QED BY <1>1, ConstantsAssumption
        DEF Init, TypeOK, StartLocals, Statuses, StartPCs, ResumePCs, ConsumerPCs

LEMMA TypeStep == LogInv /\ [Next]_vars => TypeOK'
<1> SUFFICES ASSUME LogInv, [Next]_vars PROVE TypeOK'
  OBVIOUS
<1> USE DEF LogInv, Bookkeeping
<1>1. CASE UNCHANGED vars
  BY <1>1 DEF TypeOK, vars
<1>2. CASE Next
  BY <1>2, StartType, PumpType, ConsumeType, ResumeType, OtherType DEF Next
<1> QED BY <1>1, <1>2

-----------------------------------------------------------------------------
(* The log and the numbers.                                                *)

\* What is accounted for stays so when more events are.
LEMMA AccountedMore ==
    ASSUME NEW E, NEW F, E \subseteq F
    PROVE  \A n : Accounted(n, E) => Accounted(n, F)
BY DEF Accounted, Numbered

LEMMA AccountedNext ==
    ASSUME NEW E, NEW n \in Nat, Accounted(n, E), Numbered(n + 1, E)
    PROVE  Accounted(n + 1, E)
<1>1. \A m \in 1..n + 1 : m \in 1..n \/ m = n + 1
  OBVIOUS
<1> QED BY <1>1 DEF Accounted

\* Nothing is stored and nothing fails.
LEMMA LogKept ==
    ASSUME HolesAreFailures, UNCHANGED <<log, failed, row.lastSeq>>
    PROVE  HolesAreFailures'
BY DEF HolesAreFailures

LEMMA NumberingKept ==
    ASSUME Numbering, UNCHANGED <<log, failed>>,
           \A u \in Turns : seq'[u] = seq[u] \/ Accounted(seq'[u], log \cup failed),
           \A s \in Streams : \/ view'[s] = view[s]
                              \/ /\ Accounted(view'[s].from, log \cup failed)
                                 /\ Accounted(view'[s].last, log \cup failed)
    PROVE  Numbering'
BY DEF Numbering

\* Number 0 and last_seq are accounted for.
LEMMA FromTheStart ==
    ASSUME TypeOK, HolesAreFailures
    PROVE  /\ Accounted(0, log \cup failed)
           /\ Accounted(row.lastSeq, log \cup failed)
<1>1. Accounted(0, log \cup failed)
  BY DEF Accounted
<1>2. CASE row.lastSeq = 0
  BY <1>1, <1>2
<1>3. CASE Numbered(row.lastSeq, log)
  BY <1>1, <1>3 DEF Numbered, HolesAreFailures
<1> QED BY <1>1, <1>2, <1>3 DEF HolesAreFailures

\* emit counts on: the number it takes is that of a row, or becomes one, or its
\* transaction fails.
LEMMA EmitLog ==
    ASSUME TypeOK, HolesAreFailures, Numbering, UNCHANGED view,
           NEW t \in Turns, NEW type \in EventTypes, Emit(t, type)
    PROVE  /\ HolesAreFailures' /\ Numbering'
           /\ row'.exists = row.exists
           /\ ~row.exists => row'.lastSeq = row.lastSeq
<1> DEFINE e == [seq |-> seq[t] + 1, turn |-> t, type |-> type]
           E == log \cup failed
           F == log' \cup failed'
<1>1. /\ seq' = [seq EXCEPT ![t] = @ + 1] /\ AppendEvent(e)
      /\ seq \in [Turns -> Nat] /\ e.seq = seq[t] + 1 /\ e.seq \in Nat /\ e.seq # 0
      /\ row \in [exists : BOOLEAN, ended : BOOLEAN, status : Statuses, lastSeq : Nat]
  BY DEF Emit, TypeOK
<1> HIDE DEF e
<1>2. \/ Taken(e) /\ UNCHANGED <<row, log, failed>>
      \/ /\ ~Taken(e) /\ row.exists /\ log' = log \cup {e} /\ UNCHANGED failed
         /\ row' = [row EXCEPT !.lastSeq = e.seq]
      \/ ~Taken(e) /\ failed' = failed \cup {e} /\ UNCHANGED <<row, log>>
  BY <1>1 DEF AppendEvent
<1>3. E \subseteq F /\ Numbered(e.seq, F)
  BY <1>2 DEF Taken, Numbered
<1>4. IsFiniteSet(log')
  <2>1. log' = log \/ log' = log \cup {e}
    BY <1>2
  <2> QED BY <2>1, FS_AddElement DEF Numbering
<1>5. \A n : Accounted(n, E) => Accounted(n, F)
  BY <1>3, AccountedMore
<1>6. Accounted(e.seq, F)
  <2>1. Accounted(seq[t], F) /\ seq[t] \in Nat
    BY <1>1, <1>5 DEF Numbering
  <2> HIDE DEF F
  <2> QED BY <1>1, <1>3, <2>1, AccountedNext
<1>7. \A u \in Turns : Accounted(seq'[u], F)
  <2>1. \A u \in Turns : seq'[u] = IF u = t THEN e.seq ELSE seq[u]
    BY <1>1
  <2>2. \A u \in Turns : Accounted(seq[u], F)
    BY <1>5 DEF Numbering
  <2> QED BY <1>6, <2>1, <2>2
<1>8. Numbering'
  BY <1>4, <1>5, <1>7 DEF Numbering
<1>9. HolesAreFailures'
  <2>1. \A f, g \in log' : f.seq = g.seq => f = g
    BY <1>2 DEF HolesAreFailures, Taken
  <2>2. \A f \in log' : f.seq # 0 /\ Accounted(f.seq, F)
    <3>1. \A f \in log : f.seq # 0 /\ Accounted(f.seq, F)
      BY <1>5 DEF HolesAreFailures
    <3>2. \A f \in log' : f \in log \/ f = e
      BY <1>2
    <3> QED BY <1>1, <1>6, <3>1, <3>2
  <2>3. row'.lastSeq = 0 \/ Numbered(row'.lastSeq, log')
    <3>1. CASE row' = row /\ log' = log
      BY <3>1 DEF HolesAreFailures
    <3>2. CASE log' = log \cup {e} /\ row' = [row EXCEPT !.lastSeq = e.seq]
      <4>1. row'.lastSeq = e.seq
        BY <1>1, <3>2
      <4> QED BY <3>2, <4>1 DEF Numbered
    <3> QED BY <1>2, <3>1, <3>2
  <2> QED BY <2>1, <2>2, <2>3 DEF HolesAreFailures
<1>10. row'.exists = row.exists /\ (~row.exists => row'.lastSeq = row.lastSeq)
  BY <1>1, <1>2
<1> QED BY <1>8, <1>9, <1>10

\* The parts of the invariant that are not about numbers.
Control == CreatesOnce /\ RowFirst /\ EntryFound /\ ResultHeld

LEMMA StartControl ==
    ASSUME LogInv, NEW t \in Turns, HandleStart(t), ~StartEmit(t)
    PROVE  Control'
<1> USE DEF LogInv, Bookkeeping, Control, CreatesOnce, RowFirst, EntryFound, ResultHeld,
            Opening, Streams
<1>0. TypeOK
  OBVIOUS
<1>a. \A r \in Resumes : r # t
  BY ConstantsAssumption
<1>1. CASE StartNew(t)
  <2>1. CreatesOnce'
    BY <1>1, <1>0, <1>a DEF TypeOK, StartNew, StartLocals
  <2>2. RowFirst'
    BY <1>1, <1>0, <1>a DEF TypeOK, StartNew, StartLocals
  <2>3. EntryFound'
    BY <1>1, <1>0, <1>a DEF TypeOK, StartNew, StartLocals
  <2>4. ResultHeld'
    BY <1>1, <1>0, <1>a DEF TypeOK, StartNew, StartLocals
  <2> QED BY <2>1, <2>2, <2>3, <2>4
<1>2. CASE StartContinue(t)
  <2>1. CreatesOnce'
    BY <1>2, <1>0, <1>a DEF TypeOK, StartContinue, StartLocals
  <2>2. RowFirst'
    BY <1>2, <1>0, <1>a DEF TypeOK, StartContinue, StartLocals
  <2>3. EntryFound'
    BY <1>2, <1>0, <1>a DEF TypeOK, StartContinue, StartLocals
  <2>4. ResultHeld'
    BY <1>2, <1>0, <1>a DEF TypeOK, StartContinue, StartLocals
  <2> QED BY <2>1, <2>2, <2>3, <2>4
<1>3. CASE StartExecute(t)
  <2>1. CreatesOnce'
    BY <1>3, <1>0, <1>a DEF TypeOK, StartExecute
  <2>2. RowFirst'
    BY <1>3, <1>0, <1>a DEF TypeOK, StartExecute
  <2>3. EntryFound'
    BY <1>3, <1>0, <1>a DEF TypeOK, StartExecute
  <2>4. ResultHeld'
    BY <1>3, <1>0, <1>a DEF TypeOK, StartExecute
  <2> QED BY <2>1, <2>2, <2>3, <2>4
<1>4. CASE StartExecuteFails(t)
  <2>1. CreatesOnce'
    BY <1>4, <1>0, <1>a DEF TypeOK, StartExecuteFails
  <2>2. RowFirst'
    BY <1>4, <1>0, <1>a DEF TypeOK, StartExecuteFails
  <2>3. EntryFound'
    BY <1>4, <1>0, <1>a DEF TypeOK, StartExecuteFails
  <2>4. ResultHeld'
    BY <1>4, <1>0, <1>a DEF TypeOK, StartExecuteFails
  <2> QED BY <2>1, <2>2, <2>3, <2>4
<1>5. CASE StartInstall(t)
  <2>1. CreatesOnce'
    BY <1>5, <1>0, <1>a DEF TypeOK, StartInstall
  <2>2. RowFirst'
    BY <1>5, <1>0, <1>a DEF TypeOK, StartInstall
  <2>3. EntryFound'
    BY <1>5, <1>0, <1>a DEF TypeOK, StartInstall
  <2>4. ResultHeld'
    BY <1>5, <1>0, <1>a DEF TypeOK, StartInstall
  <2> QED BY <2>1, <2>2, <2>3, <2>4
<1>6. CASE StartMark(t)
  <2>1. CreatesOnce'
    BY <1>6, <1>0, <1>a DEF TypeOK, StartMark, WriteRow
  <2>2. RowFirst'
    <3>1. /\ row \in [exists : BOOLEAN, ended : BOOLEAN, status : Statuses, lastSeq : Nat]
          /\ RowFirst
      BY <1>0 DEF TypeOK
    <3>2. CASE view[t].cont
      BY <1>6, <3>1, <3>2 DEF StartMark, WriteRow
    <3>3. CASE ~view[t].cont
      BY <1>6, <3>1, <3>3 DEF StartMark, WriteRow
    <3> QED BY <3>2, <3>3
  <2>3. EntryFound'
    BY <1>6, <1>0, <1>a DEF TypeOK, StartMark, WriteRow
  <2>4. ResultHeld'
    BY <1>6, <1>0, <1>a DEF TypeOK, StartMark, WriteRow
  <2> QED BY <2>1, <2>2, <2>3, <2>4
<1>7. CASE StartRespond(t)
  <2>1. CreatesOnce'
    BY <1>7, <1>0, <1>a DEF TypeOK, StartRespond
  <2>2. RowFirst'
    BY <1>7, <1>0, <1>a DEF TypeOK, StartRespond
  <2>3. EntryFound'
    BY <1>7, <1>0, <1>a DEF TypeOK, StartRespond
  <2>4. ResultHeld'
    BY <1>7, <1>0, <1>a DEF TypeOK, StartRespond
  <2> QED BY <2>1, <2>2, <2>3, <2>4
<1>8. CASE StartRespondFails(t)
  <2>1. CreatesOnce'
    BY <1>8, <1>0, <1>a DEF TypeOK, StartRespondFails, Release
  <2>2. RowFirst'
    BY <1>8, <1>0, <1>a DEF TypeOK, StartRespondFails, Release
  <2>3. EntryFound'
    BY <1>8, <1>0, <1>a DEF TypeOK, StartRespondFails, Release
  <2>4. ResultHeld'
    BY <1>8, <1>0, <1>a DEF TypeOK, StartRespondFails, Release
  <2> QED BY <2>1, <2>2, <2>3, <2>4
<1>9. CASE StartWatch(t)
  <2>1. CreatesOnce'
    BY <1>9, <1>0, <1>a DEF TypeOK, StartWatch
  <2>2. RowFirst'
    BY <1>9, <1>0, <1>a DEF TypeOK, StartWatch
  <2>3. EntryFound'
    BY <1>9, <1>0, <1>a DEF TypeOK, StartWatch
  <2>4. ResultHeld'
    BY <1>9, <1>0, <1>a DEF TypeOK, StartWatch
  <2> QED BY <2>1, <2>2, <2>3, <2>4
<1>10. CASE StartConsumer(t)
  <2>1. CreatesOnce'
    BY <1>10, <1>0, <1>a DEF TypeOK, StartConsumer
  <2>2. RowFirst'
    BY <1>10, <1>0, <1>a DEF TypeOK, StartConsumer
  <2>3. EntryFound'
    BY <1>10, <1>0, <1>a DEF TypeOK, StartConsumer
  <2>4. ResultHeld'
    BY <1>10, <1>0, <1>a DEF TypeOK, StartConsumer
  <2> QED BY <2>1, <2>2, <2>3, <2>4
<1> QED BY <1>1, <1>2, <1>3, <1>4, <1>5, <1>6, <1>7, <1>8, <1>9, <1>10
        DEF HandleStart

\* A step of HandleStart that emits nothing leaves the log alone and learns
\* only numbers that are accounted for.
LEMMA StartNumbers ==
    ASSUME LogInv, NEW t \in Turns, HandleStart(t), ~StartEmit(t)
    PROVE  HolesAreFailures' /\ Numbering'
<1> DEFINE E == log \cup failed
<1>0. /\ TypeOK /\ HolesAreFailures /\ Numbering /\ t \in Streams
      /\ seq \in [Turns -> Nat] /\ row \in [exists : BOOLEAN, ended : BOOLEAN,
                                            status : Statuses, lastSeq : Nat]
      /\ view \in [Streams -> [cont : BOOLEAN, from : Nat, last : Nat,
                               ended : BOOLEAN, entry : Turns \cup {NoTurn}]]
  BY DEF LogInv, Bookkeeping, TypeOK, Streams
<1>a. Accounted(0, E) /\ Accounted(row.lastSeq, E)
  BY <1>0, FromTheStart
<1>b. \A s \in Streams : Accounted(view[s].from, E) /\ Accounted(view[s].last, E)
  BY <1>0 DEF Numbering
<1> HIDE DEF E
<1>1. UNCHANGED <<log, failed>>
  BY DEF HandleStart, StartNew, StartContinue, StartExecute, StartExecuteFails, StartInstall,
         StartMark, StartRespond, StartRespondFails, StartWatch, StartConsumer
<1>2. row'.lastSeq = row.lastSeq
  <2>1. CASE StartMark(t)
    <3>1. CASE view[t].cont
      BY <1>0, <2>1, <3>1 DEF StartMark, WriteRow
    <3>2. CASE ~view[t].cont
      <4>1. row.lastSeq = 0
        BY <2>1, <3>2 DEF StartMark, LogInv, Bookkeeping, CreatesOnce, RowFirst, Opening
      <4> QED BY <2>1, <3>2, <4>1 DEF StartMark, WriteRow
    <3> QED BY <3>1, <3>2
  <2>2. CASE ~StartMark(t)
    BY <2>2 DEF HandleStart, StartNew, StartContinue, StartExecute, StartExecuteFails,
       StartInstall, StartRespond, StartRespondFails, StartWatch, StartConsumer
  <2> QED BY <2>1, <2>2
<1>3. \A u \in Turns : seq'[u] = seq[u] \/ Accounted(seq'[u], E)
  <2>1. CASE StartInstall(t)
    <3>1. seq' = [seq EXCEPT ![t] = view[t].from]
      BY <2>1 DEF StartInstall
    <3> QED BY <1>0, <1>b, <3>1
  <2>2. CASE ~StartInstall(t)
    BY <2>2 DEF HandleStart, StartNew, StartContinue, StartExecute, StartExecuteFails,
       StartMark, StartRespond, StartRespondFails, Release, StartWatch, StartConsumer
  <2> QED BY <2>1, <2>2
<1>4. \A s \in Streams : \/ view'[s] = view[s]
                         \/ Accounted(view'[s].from, E) /\ Accounted(view'[s].last, E)
  <2>1. CASE StartNew(t)
    <3>1. view' = [view EXCEPT ![t] = StartLocals(FALSE, 0)]
      BY <2>1 DEF StartNew
    <3> QED BY <1>0, <1>a, <3>1 DEF StartLocals
  <2>2. CASE StartContinue(t)
    <3>1. view' = [view EXCEPT ![t] = StartLocals(TRUE, row.lastSeq)]
      BY <2>2 DEF StartContinue
    <3> QED BY <1>0, <1>a, <3>1 DEF StartLocals
  <2>3. CASE ~StartNew(t) /\ ~StartContinue(t)
    BY <2>3 DEF HandleStart, StartExecute, StartExecuteFails, StartInstall,
       StartMark, StartRespond, StartRespondFails, StartWatch, StartConsumer
  <2> QED BY <2>1, <2>2, <2>3
<1>5. HolesAreFailures'
  BY <1>0, <1>1, <1>2, LogKept
<1>6. Numbering'
  BY <1>0, <1>1, <1>3, <1>4, NumberingKept DEF E
<1> QED BY <1>5, <1>6

LEMMA StartBookkeeping ==
    ASSUME LogInv, NEW t \in Turns, HandleStart(t)
    PROVE  Bookkeeping'
<1>1. CASE ~StartEmit(t)
  BY <1>1, StartControl, StartNumbers DEF Bookkeeping, Control
<1>2. CASE StartEmit(t)
  <2> USE DEF LogInv, Bookkeeping, CreatesOnce, RowFirst, EntryFound, ResultHeld, Opening, Streams
  <2>0. TypeOK /\ \A r \in Resumes : r # t
    BY ConstantsAssumption
  <2>1. pc[t] \in EventTypes /\ Emit(t, pc[t]) /\ UNCHANGED view
    BY <1>2 DEF StartEmit, EventTypes
  <2>2. /\ HolesAreFailures' /\ Numbering'
        /\ row'.exists = row.exists /\ (~row.exists => row'.lastSeq = row.lastSeq)
    BY <2>0, <2>1, EmitLog
  <2>3. pc[t] \in {"created", "prompt", "running"} /\ UNCHANGED <<cpc, view, result>>
        /\ pc' = [pc EXCEPT ![t] = pc'[t]] /\ pc'[t] \in {"prompt", "running", "spawn"}
    BY <1>2 DEF StartEmit, TypeOK
  <2>4. CreatesOnce'
    BY <2>2, <2>3 DEF TypeOK
  <2>5. RowFirst'
    BY <2>2
  <2>6. EntryFound' /\ ResultHeld'
    BY <2>0, <2>3 DEF TypeOK
  <2> QED BY <2>2, <2>4, <2>5, <2>6
<1> QED BY <1>1, <1>2

\* What a step that emits leaves of the control part.
LEMMA EmitControl ==
    ASSUME LogInv, UNCHANGED <<pc, view>>, row'.exists = row.exists,
           ~row.exists => row'.lastSeq = row.lastSeq
    PROVE  CreatesOnce' /\ RowFirst' /\ EntryFound'
BY DEF LogInv, Bookkeeping, CreatesOnce, RowFirst, EntryFound

LEMMA ConsumeBookkeeping ==
    ASSUME LogInv, NEW t \in Turns, ConsumeEvents(t) \/ Backend(t) \/ Broadcast(t)
    PROVE  Bookkeeping'
<1>0. /\ TypeOK /\ HolesAreFailures /\ Numbering /\ ResultHeld
      /\ row \in [exists : BOOLEAN, ended : BOOLEAN, status : Statuses, lastSeq : Nat]
      /\ cpc \in [Turns -> ConsumerPCs]
      /\ result \in [Turns -> {"empty", "completed", "aborted", "taken"}]
  BY DEF LogInv, Bookkeeping, TypeOK
<1>1. CASE ConsumeEvent(t) \/ ConsumeResult(t) \/ ConsumeClosed(t)
  <2>1. /\ UNCHANGED <<pc, view, result>> /\ \E type \in EventTypes : Emit(t, type)
        /\ cpc[t] = "loop"
        /\ \/ cpc' = cpc
           \/ cpc' = [cpc EXCEPT ![t] = "finish"] /\ result[t] \in {"completed", "aborted"}
           \/ cpc' = [cpc EXCEPT ![t] = "idle"]
    BY <1>1 DEF ConsumeEvent, ConsumeResult, ConsumeClosed, AtLoop, EventTypes
  <2>2. /\ HolesAreFailures' /\ Numbering'
        /\ row'.exists = row.exists /\ (~row.exists => row'.lastSeq = row.lastSeq)
    BY <2>1, <1>0, EmitLog
  <2>3. CreatesOnce' /\ RowFirst' /\ EntryFound'
    BY <2>1, <2>2, EmitControl
  <2>4. ResultHeld'
    BY <2>1, <1>0 DEF ResultHeld
  <2> QED BY <2>2, <2>3, <2>4 DEF Bookkeeping
<1>2. CASE ConsumeFinish(t)
  <2>1. /\ UNCHANGED <<log, failed, seq, pc, view>>
        /\ result' = [result EXCEPT ![t] = "taken"] /\ cpc' = [cpc EXCEPT ![t] = "loop"]
    BY <1>2 DEF ConsumeFinish
  <2>2. row'.exists = row.exists /\ row'.lastSeq = row.lastSeq
    BY <1>0, <1>2 DEF ConsumeFinish, WriteRow
  <2>3. HolesAreFailures' /\ Numbering'
    BY <1>0, <2>1, <2>2, LogKept, NumberingKept
  <2>4. CreatesOnce' /\ RowFirst' /\ EntryFound'
    BY <2>1, <2>2, EmitControl
  <2>5. ResultHeld'
    BY <2>1, <1>0 DEF ResultHeld
  <2> QED BY <2>3, <2>4, <2>5 DEF Bookkeeping
<1>3. CASE SetFinished(t) \/ CloseAllWatchers(t) \/ ConsumeRelease(t) \/ Backend(t) \/ Broadcast(t)
  <2>1. UNCHANGED <<row, log, failed, seq, pc, view>>
    BY <1>3 DEF SetFinished, CloseAllWatchers, ConsumeRelease, Release, Backend, BackendEvent,
       BackendExit, BackendClose, Broadcast
  <2>2. \A u \in Turns : cpc'[u] = "finish" =>
           /\ cpc[u] = "finish"
           /\ result'[u] = result[u] \/ result'[u] \in {"completed", "aborted"}
    <3>1. CASE SetFinished(t) \/ CloseAllWatchers(t) \/ ConsumeRelease(t)
      BY <1>0, <3>1 DEF SetFinished, CloseAllWatchers, ConsumeRelease
    <3>2. CASE BackendEvent(t) \/ BackendClose(t) \/ Broadcast(t)
      BY <3>2 DEF BackendEvent, BackendClose, Broadcast
    <3>3. CASE BackendExit(t)
      BY <1>0, <3>3 DEF TypeOK, BackendExit
    <3> QED BY <1>3, <3>1, <3>2, <3>3 DEF Backend
  <2>3. HolesAreFailures' /\ Numbering'
    BY <1>0, <2>1, LogKept, NumberingKept
  <2>4. CreatesOnce' /\ RowFirst' /\ EntryFound'
    BY <2>1, EmitControl
  <2>5. ResultHeld'
    BY <1>0, <2>2 DEF ResultHeld
  <2> QED BY <2>3, <2>4, <2>5 DEF Bookkeeping
<1> QED BY <1>1, <1>2, <1>3 DEF ConsumeEvents

\* What a step of HandleResume leaves alone settles most of the invariant.
LEMMA ResumeFrame ==
    ASSUME LogInv, NEW r \in Resumes, UNCHANGED <<row, log, failed, seq, cpc, result>>,
           \A t \in Turns : pc'[t] = pc[t] /\ view'[t] = view[t]
    PROVE  HolesAreFailures' /\ CreatesOnce' /\ RowFirst' /\ ResultHeld'
<1>1. HolesAreFailures'
  BY LogKept DEF LogInv, Bookkeeping
<1> QED BY <1>1 DEF LogInv, Bookkeeping, CreatesOnce, RowFirst, ResultHeld, Opening

LEMMA ResumeBookkeeping ==
    ASSUME LogInv, NEW r \in Resumes, HandleResume(r)
    PROVE  Bookkeeping'
<1> USE DEF LogInv
<1>0. /\ pc \in [Streams -> StartPCs \cup ResumePCs]
      /\ view \in [Streams -> [cont : BOOLEAN, from : Nat, last : Nat,
                               ended : BOOLEAN, entry : Turns \cup {NoTurn}]]
      /\ sessions \in Turns \cup {NoTurn} /\ row.lastSeq \in Nat
      /\ r \in Streams /\ \A t \in Turns : r # t /\ t \in Streams
  BY ConstantsAssumption DEF TypeOK, Streams
<1>1. UNCHANGED <<row, log, failed, seq, cpc, result>>
  BY DEF HandleResume, ResumeSteps, ResumeInfo, ResumeLookup, ResumeRespond, ResumeReplay,
         ResumeAttach, ResumeInsert, ResumeRereplay, ResumeSynthIdle
<1>2. \E l : pc' = [pc EXCEPT ![r] = l]
  BY DEF HandleResume, ResumeSteps, ResumeInfo, ResumeLookup, ResumeRespond, ResumeReplay,
         ResumeAttach, ResumeInsert, ResumeRereplay, ResumeSynthIdle
<1>3. /\ \A t \in Turns : pc'[t] = pc[t]
      /\ \A u \in Resumes \ {r} : pc'[u] = pc[u]
  BY <1>0, <1>2 DEF Streams
<1>4. \/ UNCHANGED view
      \/ view' = [view EXCEPT ![r] = [view[r] EXCEPT !.entry = sessions]]
      \/ \E since \in Nat : /\ since = 0 \/ \E t \in Turns : since <= seq[t]
                            /\ view' = [view EXCEPT ![r] =
                                          ResumeLocals(since, row.lastSeq, row.ended)]
  <2>1. CASE \E since \in 0..MaxSince : ResumeInfo(r, since)
    <3>1. PICK since \in 0..MaxSince : ResumeInfo(r, since)
      BY <2>1
    <3>2. since \in Nat
      BY ConstantsAssumption
    <3>3. /\ since = 0 \/ \E t \in Turns : since <= seq[t]
          /\ view' = [view EXCEPT ![r] = ResumeLocals(since, row.lastSeq, row.ended)]
      BY <3>1 DEF ResumeInfo
    <3> QED BY <3>2, <3>3
  <2>2. CASE ResumeLookup(r)
    BY <2>2 DEF ResumeLookup
  <2>3. CASE ResumeSteps(r) /\ ~ResumeLookup(r)
    BY <2>3 DEF ResumeSteps, ResumeRespond, ResumeReplay, ResumeAttach, ResumeInsert,
                ResumeRereplay, ResumeSynthIdle
  <2> QED BY <2>1, <2>2, <2>3 DEF HandleResume
<1>5. \A u \in Streams \ {r} : view'[u] = view[u]
  BY <1>0, <1>4
<1>6. \/ view'[r] = view[r]
      \/ /\ Accounted(view'[r].from, log \cup failed)
         /\ Accounted(view'[r].last, log \cup failed)
  <2> DEFINE E == log \cup failed
  <2>1. Accounted(0, E) /\ Accounted(row.lastSeq, E)
    BY FromTheStart DEF Bookkeeping
  <2>2. Accounted(view[r].from, E) /\ Accounted(view[r].last, E)
    BY <1>0 DEF Bookkeeping, Numbering
  <2>3. ASSUME NEW since \in Nat, NEW t \in Turns, since <= seq[t]
        PROVE  Accounted(since, E)
    <3>1. Accounted(seq[t], E) /\ seq[t] \in Nat
      BY DEF Bookkeeping, Numbering, TypeOK
    <3>2. \A m \in 1..since : m \in 1..seq[t]
      BY <2>3, <3>1
    <3> QED BY <3>1, <3>2 DEF Accounted
  <2> HIDE DEF E
  <2>4. CASE UNCHANGED view
    BY <2>4
  <2>5. CASE view' = [view EXCEPT ![r] = [view[r] EXCEPT !.entry = sessions]]
    BY <1>0, <2>2, <2>5 DEF E
  <2>6. ASSUME NEW since \in Nat, since = 0 \/ \E t \in Turns : since <= seq[t],
               view' = [view EXCEPT ![r] = ResumeLocals(since, row.lastSeq, row.ended)]
        PROVE  Accounted(view'[r].from, E) /\ Accounted(view'[r].last, E)
    <3>1. view'[r] = ResumeLocals(since, row.lastSeq, row.ended)
      BY <1>0, <2>6
    <3>2. view'[r].from = since /\ view'[r].last = row.lastSeq
      BY <3>1 DEF ResumeLocals
    <3> QED BY <2>1, <2>3, <2>6, <3>2
  <2> QED BY <1>4, <2>4, <2>5, <2>6 DEF E
<1>7. Numbering'
  BY <1>1, <1>5, <1>6, NumberingKept DEF Bookkeeping
<1>8. EntryFound'
  <2>1. CASE ResumeReplay(r)
    <3>1. view' = view /\ view[r].entry \in Turns \cup {NoTurn}
      BY <2>1, <1>0 DEF ResumeReplay
    <3>2. pc'[r] \in {"attach", "insert", "rereplay"} => view[r].entry # NoTurn
      BY <2>1, <1>0 DEF ResumeReplay
    <3> QED BY <3>1, <3>2, <1>3 DEF EntryFound, Bookkeeping
  <2>2. CASE ResumeLookup(r) \/ \E since \in 0..MaxSince : ResumeInfo(r, since)
    <3>1. pc'[r] \in {"lookup", "respond"}
      BY <2>2, <1>0 DEF ResumeLookup, ResumeInfo
    <3> QED BY <3>1, <1>0, <1>3, <1>5 DEF EntryFound, Bookkeeping, Streams
  <2>3. CASE ResumeRespond(r) \/ ResumeSynthIdle(r) \/ ResumeRereplay(r)
    <3>1. pc'[r] \in {"failed", "replay", "done", "recovered"} /\ view' = view
      BY <2>3, <1>0 DEF ResumeRespond, ResumeSynthIdle, ResumeRereplay
    <3> QED BY <3>1, <1>3 DEF EntryFound, Bookkeeping
  <2>4. CASE ResumeAttach(r) \/ ResumeInsert(r)
    <3>1. pc[r] \in {"attach", "insert"} /\ view' = view
      BY <2>4 DEF ResumeAttach, ResumeInsert
    <3> QED BY <3>1, <1>3 DEF EntryFound, Bookkeeping
  <2> QED BY <2>1, <2>2, <2>3, <2>4 DEF HandleResume, ResumeSteps
<1>9. \A t \in Turns : view'[t] = view[t]
  BY <1>0, <1>5
<1> QED BY <1>1, <1>3, <1>7, <1>8, <1>9, ResumeFrame DEF Bookkeeping

LEMMA OtherBookkeeping ==
    ASSUME LogInv, Interrupt \/ Crash \/ (\E s \in Streams : Pump(s) \/ BreakStream(s))
    PROVE  Bookkeeping'
<1> USE DEF LogInv, Bookkeeping, CreatesOnce, RowFirst, EntryFound, ResultHeld,
            Opening, Streams
<1>0. TypeOK
  OBVIOUS
<1>1. CASE Interrupt
  <2>1. UNCHANGED <<row, log, failed, seq, view, pc, cpc, result>>
    BY <1>1 DEF Interrupt
  <2>2. HolesAreFailures' /\ Numbering'
    BY <2>1, LogKept, NumberingKept
  <2> QED BY <2>1, <2>2
<1>2. CASE Crash
  <2>1. row'.exists = row.exists /\ row'.lastSeq = row.lastSeq /\ UNCHANGED <<log, failed, seq, view>>
    BY <1>2, <1>0 DEF Crash, TypeOK, WriteRow
  <2>2. \A u \in Streams : pc'[u] = IF pc[u] \in Over THEN pc[u] ELSE "failed"
    BY <1>2 DEF Crash
  <2>3. \A u \in Turns : cpc'[u] = IF cpc[u] = "none" THEN "none" ELSE "done"
    BY <1>2 DEF Crash
  <2>4. HolesAreFailures' /\ Numbering'
    BY <2>1, LogKept, NumberingKept
  <2>5. CreatesOnce' /\ RowFirst'
    BY <2>1, <2>2, <2>3 DEF Over
  <2>6. EntryFound' /\ ResultHeld'
    BY <2>2, <2>3 DEF Over
  <2> QED BY <2>4, <2>5, <2>6
<1>3. ASSUME NEW s \in Streams, Pump(s) \/ BreakStream(s)
      PROVE  Bookkeeping'
  <2>1. /\ UNCHANGED <<row, log, failed, seq, cpc, view, result>>
        /\ pc' = pc \/ (pc[s] = "pump" /\ (pc' = [pc EXCEPT ![s] = "failed"]
                                           \/ pc' = [pc EXCEPT ![s] = "done"]))
    BY <1>3 DEF Pump, PumpFrame, PumpWriteFails, PumpEnds, BreakStream
  <2>2. HolesAreFailures' /\ Numbering' /\ ResultHeld'
    BY <2>1, LogKept, NumberingKept
  <2>3. \A u \in Streams \ {s} : pc'[u] = pc[u]
    BY <2>1, <1>0 DEF TypeOK
  <2>4. pc'[s] = pc[s] \/ (pc[s] = "pump" /\ pc'[s] \in {"failed", "done"})
    BY <2>1, <1>0 DEF TypeOK
  <2>5. CreatesOnce'
    BY <2>1, <2>3, <2>4
  <2>6. RowFirst' /\ EntryFound'
    BY <2>1, <2>3, <2>4
  <2> QED BY <2>2, <2>5, <2>6
<1> QED BY <1>1, <1>2, <1>3

-----------------------------------------------------------------------------
\* The inductive invariant holds.
LEMMA LogInvInit == Init => LogInv
<1> SUFFICES ASSUME Init PROVE LogInv
  OBVIOUS
<1>1. TypeOK
  BY TypeInit
<1>2. Bookkeeping
  <2>1. HolesAreFailures
    BY DEF Init, HolesAreFailures
  <2>2. Numbering
    BY FS_EmptySet DEF Init, Numbering, Accounted, StartLocals
  <2>3. CreatesOnce /\ RowFirst /\ EntryFound /\ ResultHeld
    BY ConstantsAssumption DEF Init, CreatesOnce, RowFirst, EntryFound, ResultHeld, StartLocals,
       Streams, Opening
  <2> QED BY <2>1, <2>2, <2>3 DEF Bookkeeping
<1> QED BY <1>1, <1>2 DEF LogInv

LEMMA LogInvStep == LogInv /\ [Next]_vars => LogInv'
<1> SUFFICES ASSUME LogInv, [Next]_vars PROVE LogInv'
  OBVIOUS
<1>1. TypeOK'
  BY TypeStep
<1>2. Bookkeeping'
  <2>1. CASE UNCHANGED vars
    <3>1. UNCHANGED <<row, log, failed, seq, view, pc, cpc, result>>
      BY <2>1 DEF vars
    <3>2. HolesAreFailures' /\ Numbering'
      BY <3>1, LogKept, NumberingKept DEF LogInv, Bookkeeping
    <3> QED BY <3>1, <3>2 DEF LogInv, Bookkeeping, CreatesOnce, RowFirst, EntryFound, ResultHeld
  <2>2. CASE Next
    BY <2>2, StartBookkeeping, ConsumeBookkeeping, ResumeBookkeeping, OtherBookkeeping
       DEF Next
  <2> QED BY <2>1, <2>2
<1> QED BY <1>1, <1>2 DEF LogInv

\* How rows, numbers given out and failed transactions belong together, in every
\* state (emit, AppendEvent).
THEOREM LogInvariant == Spec => []LogInv
  BY LogInvInit, LogInvStep, PTL DEF Spec

\* Every state has the types the module declares.
THEOREM TypeCorrect == Spec => []TypeOK
<1>1. LogInv => TypeOK
  BY DEF LogInv
<1> QED BY <1>1, LogInvariant, PTL

\* No number is stored twice, and a hole below a stored event is the number of
\* an event whose transaction failed, even when a takeover leaves two entries
\* emitting under one id.
THEOREM LogHoles == Spec => []HolesAreFailures
<1>1. LogInv => HolesAreFailures
  BY DEF LogInv, Bookkeeping
<1> QED BY <1>1, LogInvariant, PTL

-----------------------------------------------------------------------------
(* The store implements DurableLog.                                        *)

\* The next event of a writer, numbered above numbers given out before.
Next1(e) == \A n \in 1..e.seq - 1 : \E f \in log \cup failed : f.seq = n

Stores ==
    \/ UNCHANGED <<log, failed, row.lastSeq>>
    \/ \E e \in log' \ log : /\ Next1(e) /\ log' = log \cup {e}
                            /\ (\A f \in log : f.seq # e.seq)
                            /\ row'.lastSeq = e.seq /\ UNCHANGED failed
    \/ \E e \in failed' \ failed : /\ Next1(e) /\ failed' = failed \cup {e}
                                  /\ UNCHANGED <<log, row.lastSeq>>

\* An emitted event is refused for its number, or stored, or fails.
LEMMA EmitStores ==
    ASSUME LogInv, NEW t \in Turns, NEW type \in EventTypes, Emit(t, type)
    PROVE  Stores
<1> DEFINE e == [seq |-> seq[t] + 1, turn |-> t, type |-> type]
<1>1. /\ AppendEvent(e) /\ e.seq = seq[t] + 1 /\ seq[t] \in Nat
      /\ row \in [exists : BOOLEAN, ended : BOOLEAN, status : Statuses, lastSeq : Nat]
      /\ Accounted(seq[t], log \cup failed)
  BY DEF Emit, LogInv, Bookkeeping, TypeOK, Numbering
<1> HIDE DEF e
<1>2. Next1(e)
  <2>1. 1..e.seq - 1 = 1..seq[t]
    BY <1>1
  <2> QED BY <1>1, <2>1 DEF Next1, Accounted, Numbered
<1>3. CASE Taken(e)
  BY <1>1, <1>3 DEF AppendEvent, Stores
<1>4. CASE ~Taken(e) /\ log' = log \cup {e} /\ row' = [row EXCEPT !.lastSeq = e.seq] /\ UNCHANGED failed
  <2>1. e \notin log /\ \A f \in log : f.seq # e.seq
    BY <1>4 DEF Taken
  <2>2. row'.lastSeq = e.seq
    BY <1>1, <1>4
  <2> QED BY <1>2, <1>4, <2>1, <2>2 DEF Stores
<1>5. CASE ~Taken(e) /\ failed' = failed \cup {e} /\ UNCHANGED <<row, log>>
  <2>1. CASE e \in failed
    BY <1>5, <2>1 DEF Stores
  <2>2. CASE e \notin failed
    BY <1>2, <1>5, <2>2 DEF Stores
  <2> QED BY <2>1, <2>2
<1> QED BY <1>1, <1>3, <1>4, <1>5 DEF AppendEvent

LEMMA StepStores == LogInv /\ [Next]_vars => Stores
<1> SUFFICES ASSUME LogInv, [Next]_vars PROVE Stores
  OBVIOUS
<1>1. row \in [exists : BOOLEAN, ended : BOOLEAN, status : Statuses, lastSeq : Nat]
  BY DEF LogInv, TypeOK
<1>2. ASSUME NEW t \in Turns, HandleStart(t) PROVE Stores
  <2>1. CASE StartEmit(t)
    BY <2>1, EmitStores DEF StartEmit, EventTypes
  <2>2. CASE StartMark(t)
    <3>1. CASE view[t].cont
      BY <2>2, <3>1, <1>1 DEF StartMark, WriteRow, Stores
    <3>2. CASE ~view[t].cont
      <4>1. row.lastSeq = 0
        BY <2>2, <3>2 DEF StartMark, LogInv, Bookkeeping, CreatesOnce, RowFirst, Opening
      <4> QED BY <2>2, <3>2, <4>1 DEF StartMark, WriteRow, Stores
    <3> QED BY <3>1, <3>2
  <2>3. CASE HandleStart(t) /\ ~StartEmit(t) /\ ~StartMark(t)
    BY <2>3 DEF HandleStart, StartNew, StartContinue, StartExecute, StartExecuteFails,
                StartInstall, StartRespond, StartRespondFails, StartWatch, StartConsumer,
                Stores
  <2> QED BY <1>2, <2>1, <2>2, <2>3
<1>3. ASSUME NEW t \in Turns, ConsumeEvents(t) PROVE Stores
  <2>1. CASE ConsumeEvent(t) \/ ConsumeResult(t) \/ ConsumeClosed(t)
    BY <2>1, EmitStores DEF ConsumeEvent, ConsumeResult, ConsumeClosed, EventTypes
  <2>2. CASE ConsumeFinish(t)
    BY <2>2, <1>1 DEF ConsumeFinish, WriteRow, Stores
  <2>3. CASE SetFinished(t) \/ CloseAllWatchers(t) \/ ConsumeRelease(t)
    BY <2>3 DEF SetFinished, CloseAllWatchers, ConsumeRelease, Stores
  <2> QED BY <1>3, <2>1, <2>2, <2>3 DEF ConsumeEvents
<1>4. ASSUME NEW t \in Turns, Broadcast(t) \/ Backend(t) PROVE Stores
  BY <1>4 DEF Broadcast, Backend, BackendEvent, BackendExit, BackendClose, Stores
<1>5. ASSUME NEW r \in Resumes, HandleResume(r) PROVE Stores
  BY <1>5 DEF HandleResume, ResumeSteps, ResumeInfo, ResumeLookup, ResumeRespond, ResumeReplay,
              ResumeAttach, ResumeInsert, ResumeRereplay, ResumeSynthIdle, Stores
<1>6. ASSUME NEW s \in Streams, Pump(s) \/ BreakStream(s) PROVE Stores
  BY <1>6 DEF Pump, PumpFrame, PumpWriteFails, PumpEnds, BreakStream, Stores
<1>7. CASE Interrupt \/ UNCHANGED vars
  BY <1>7 DEF Interrupt, vars, Stores
<1>8. CASE Crash
  BY <1>8, <1>1 DEF Crash, WriteRow, Stores
<1> QED BY <1>2, <1>3, <1>4, <1>5, <1>6, <1>7, <1>8 DEF Next

\* The two tables of a session implement the append-only log of DurableLog:
\* takeovers, crashes and refused transactions included, a step adds an event
\* under a number of its own, or fails to, or leaves the log as it is.
THEOREM StoreRefinesLog == Spec => StoreImplementsLog
<1>1. Init => Store!Init
  BY DEF Init, Store!Init
<1>2. LogInv /\ [Next]_vars => [Store!Next]_<<log, failed, row.lastSeq>>
  <2> SUFFICES ASSUME LogInv, [Next]_vars PROVE [Store!Next]_<<log, failed, row.lastSeq>>
    OBVIOUS
  <2>1. Stores
    BY StepStores
  <2>2. CASE UNCHANGED <<log, failed, row.lastSeq>>
    BY <2>2
  <2>3. ASSUME NEW e \in log' \ log, Next1(e), log' = log \cup {e}, \A f \in log : f.seq # e.seq,
               row'.lastSeq = e.seq, UNCHANGED failed
        PROVE  Store!Next
    BY <2>3 DEF Next1, Store!Next, Store!Append, Store!Follows
  <2>4. ASSUME NEW e \in failed' \ failed, Next1(e), failed' = failed \cup {e},
               UNCHANGED <<log, row.lastSeq>>
        PROVE  Store!Next
    BY <2>4 DEF Next1, Store!Next, Store!Fail, Store!Follows
  <2> QED BY <2>1, <2>2, <2>3, <2>4 DEF Stores
<1> QED BY <1>1, <1>2, LogInvariant, PTL DEF Spec, StoreImplementsLog, Store!Spec

-----------------------------------------------------------------------------
(* No backend process is orphaned.                                         *)

\* NoOrphanBackend is inductive given the types: only StartInstall takes a
\* running process out of "install", and it registers it; whoever takes it out
\* of the map cancels it.
LEMMA NoOrphanStep == TypeOK /\ NoOrphanBackend /\ [Next]_vars => NoOrphanBackend'
<1> SUFFICES ASSUME TypeOK, NoOrphanBackend, [Next]_vars PROVE NoOrphanBackend'
  OBVIOUS
<1>0. /\ pc \in [Streams -> StartPCs \cup ResumePCs]
      /\ backend \in [Turns -> {"none", "running", "exited", "closed"}]
      /\ \A t \in Turns : t \in Streams
      /\ \A r \in Resumes : r \in Streams /\ r \notin Turns
  BY ConstantsAssumption DEF TypeOK, Streams
<1>1. ASSUME NEW t \in Turns, HandleStart(t) PROVE NoOrphanBackend'
  <2>1. CASE StartExecute(t)
    BY <2>1, <1>0 DEF StartExecute, NoOrphanBackend
  <2>2. CASE StartInstall(t)
    <3>1. /\ sessions' = t /\ pc' = [pc EXCEPT ![t] = "mark"] /\ UNCHANGED backend
          /\ cancelled \subseteq cancelled' /\ (sessions # NoTurn => sessions \in cancelled')
      BY <2>2 DEF StartInstall
    <3>2. ASSUME NEW u \in Turns \ {t}, backend'[u] = "running", pc'[u] # "install"
          PROVE  u \in cancelled'
      BY <3>1, <3>2, <1>0, ConstantsAssumption DEF NoOrphanBackend
    <3> QED BY <3>1, <3>2 DEF NoOrphanBackend
  <2>3. CASE StartRespondFails(t)
    BY <2>3, <1>0 DEF StartRespondFails, Release, NoOrphanBackend
  <2>4. CASE HandleStart(t) /\ ~StartExecute(t) /\ ~StartInstall(t) /\ ~StartRespondFails(t)
    <3>1. /\ UNCHANGED <<sessions, cancelled, backend>>
          /\ pc[t] # "install"
          /\ \E l : pc' = [pc EXCEPT ![t] = l]
      BY <2>4 DEF HandleStart, StartNew, StartContinue, StartExecuteFails, StartMark,
                  StartRespond, StartWatch, StartEmit, Emit, StartConsumer
    <3> QED BY <3>1, <1>0 DEF NoOrphanBackend
  <2> QED BY <1>1, <2>1, <2>2, <2>3, <2>4
<1>2. ASSUME NEW t \in Turns, ConsumeEvents(t) \/ Backend(t) \/ Broadcast(t)
      PROVE  NoOrphanBackend'
  <2>1. UNCHANGED pc /\ (backend' = backend \/ \E l \in {"exited", "closed"} :
                                                 backend' = [backend EXCEPT ![t] = l])
    BY <1>2 DEF ConsumeEvents, ConsumeEvent, ConsumeResult, ConsumeFinish, ConsumeClosed,
                SetFinished, CloseAllWatchers, ConsumeRelease, Backend, BackendEvent,
                BackendExit, BackendClose, Broadcast
  <2>2. \/ UNCHANGED <<sessions, cancelled>>
        \/ Release(t)
    BY <1>2 DEF ConsumeEvents, ConsumeEvent, ConsumeResult, ConsumeFinish, ConsumeClosed, Emit,
                SetFinished, CloseAllWatchers, ConsumeRelease, Backend, BackendEvent,
                BackendExit, BackendClose, Broadcast
  <2>3. \A u \in Turns : backend'[u] = "running" => backend[u] = "running"
    BY <2>1, <1>0
  <2> QED BY <2>1, <2>2, <2>3 DEF NoOrphanBackend, Release
<1>3. ASSUME NEW r \in Resumes, HandleResume(r) PROVE NoOrphanBackend'
  <2>1. UNCHANGED <<sessions, cancelled, backend>> /\ \E l : pc' = [pc EXCEPT ![r] = l]
    BY <1>3 DEF HandleResume, ResumeSteps, ResumeInfo, ResumeLookup, ResumeRespond,
                ResumeReplay, ResumeAttach, ResumeInsert, ResumeRereplay, ResumeSynthIdle
  <2> QED BY <2>1, <1>0 DEF NoOrphanBackend
<1>4. ASSUME NEW s \in Streams, Pump(s) \/ BreakStream(s) PROVE NoOrphanBackend'
  <2>1. /\ UNCHANGED <<sessions, cancelled, backend>>
        /\ pc' = pc \/ (pc[s] = "pump" /\ \E l : pc' = [pc EXCEPT ![s] = l])
    BY <1>4 DEF Pump, PumpFrame, PumpWriteFails, PumpEnds, BreakStream
  <2> QED BY <2>1, <1>0 DEF NoOrphanBackend
<1>5. CASE Interrupt
  BY <1>5 DEF Interrupt, NoOrphanBackend
<1>6. CASE Crash
  BY <1>6 DEF Crash, NoOrphanBackend
<1>7. CASE UNCHANGED vars
  BY <1>7 DEF vars, NoOrphanBackend
<1> QED BY <1>1, <1>2, <1>3, <1>4, <1>5, <1>6, <1>7 DEF Next

\* A registered backend process that still runs can be stopped: it is the one
\* the session map names, or its run is already cancelled.
THEOREM NoBackendIsOrphaned == Spec => []NoOrphanBackend
<1>1. Init => NoOrphanBackend
  BY DEF Init, NoOrphanBackend
<1> QED BY <1>1, NoOrphanStep, TypeCorrect, PTL DEF Spec

-----------------------------------------------------------------------------
(* Watcher channels.                                                       *)

\* Where a call is while its channel may be in an entry's watcher map.
Attached == {"created", "prompt", "running", "spawn", "pump"}

\* Who has closed the watchers of an entry has set its finished flag before;
\* a call is a watcher of one entry at most, while it is attached; and only a
\* channel that has been registered is ever closed.
ChannelInv ==
    /\ \A t \in Turns : cpc[t] \in {"close", "release", "done"} => t \in finished
    /\ \A t, u \in Turns : t # u => watchers[t] \cap watchers[u] = {}
    /\ \A t \in Turns : \A s \in watchers[t] : pc[s] \in Attached
    /\ \A s \in closed : pc[s] \in Attached \cup {"done", "failed"}
    /\ NoOrphanWatcher
    /\ NoSendOnClosed

LEMMA ChannelStep == TypeOK /\ EntryFound /\ ChannelInv /\ [Next]_vars => ChannelInv'
<1> SUFFICES ASSUME TypeOK, EntryFound, ChannelInv, [Next]_vars PROVE ChannelInv'
  OBVIOUS
<1> USE DEF ChannelInv, NoOrphanWatcher, NoSendOnClosed, Attached
<1>0. /\ pc \in [Streams -> StartPCs \cup ResumePCs]
      /\ cpc \in [Turns -> ConsumerPCs]
      /\ watchers \in [Turns -> SUBSET Streams]
      /\ closed \subseteq Streams
      /\ \A t \in Turns : t \in Streams
      /\ \A r \in Resumes : r \in Streams /\ r \notin Turns
  BY ConstantsAssumption DEF TypeOK, Streams
<1>1. ASSUME NEW t \in Turns, HandleStart(t) PROVE ChannelInv'
  <2>1. CASE StartWatch(t)
    <3>1. pc[t] = "watch" /\ UNCHANGED <<closed, finished, cpc>>
          /\ \A s \in Streams \ {t} : pc'[s] = pc[s]
      BY <2>1, <1>0 DEF StartWatch
    <3>2. pc'[t] \in {"prompt", "created"}
      BY <2>1, <1>0 DEF StartWatch
    <3>3. CASE t \in finished
      BY <3>1, <3>2, <3>3, <2>1, <1>0 DEF StartWatch
    <3>4. CASE t \notin finished
      <4>1. \A u \in Turns : watchers'[u] = IF u = t THEN watchers[t] \cup {t} ELSE watchers[u]
        BY <3>4, <2>1, <1>0 DEF StartWatch
      <4>2. t \notin closed /\ \A u \in Turns : t \notin watchers[u]
        BY <3>1
      <4>3. \A u \in Turns : cpc[u] \in {"close", "release", "done"} => u # t
        BY <3>4
      <4>4. \A u, v \in Turns : u # v => watchers'[u] \cap watchers'[v] = {}
        BY <4>1, <4>2
      <4>5. \A u \in Turns : \A s \in watchers'[u] : pc'[s] \in Attached
        BY <3>1, <3>2, <4>1, <4>2, <1>0
      <4>6. \A s \in closed : pc'[s] \in Attached \cup {"done", "failed"}
        BY <3>1, <4>2, <1>0
      <4> QED BY <3>1, <4>1, <4>2, <4>3, <4>4, <4>5, <4>6
    <3> QED BY <3>3, <3>4
  <2>2. CASE StartConsumer(t)
    BY <2>2, <1>0 DEF StartConsumer
  <2>3. CASE HandleStart(t) /\ ~StartWatch(t) /\ ~StartConsumer(t)
    <3>1. /\ UNCHANGED <<watchers, closed, finished, cpc>>
          /\ \E l : pc' = [pc EXCEPT ![t] = l]
      BY <2>3 DEF HandleStart, StartNew, StartContinue, StartExecute, StartExecuteFails,
                  StartInstall, StartMark, StartRespond, StartRespondFails, Release,
                  StartEmit, Emit
    <3>2. pc[t] \in Attached \cup {"done", "failed"} => pc'[t] \in Attached
      BY <2>3, <1>0 DEF HandleStart, StartNew, StartContinue, StartExecute, StartExecuteFails,
                        StartInstall, StartMark, StartRespond, StartRespondFails, StartEmit
    <3> QED BY <3>1, <3>2, <1>0
  <2> QED BY <1>1, <2>1, <2>2, <2>3
<1>2. ASSUME NEW t \in Turns, ConsumeEvents(t) PROVE ChannelInv'
  <2>1. CASE SetFinished(t)
    BY <2>1, <1>0 DEF SetFinished
  <2>2. CASE CloseAllWatchers(t)
    <3>1. /\ UNCHANGED <<finished, pc>> /\ cpc[t] = "close"
          /\ closed' = closed \cup watchers[t]
          /\ \A u \in Turns : watchers'[u] = IF u = t THEN {} ELSE watchers[u]
          /\ \A u \in Turns : cpc'[u] = IF u = t THEN "release" ELSE cpc[u]
      BY <2>2, <1>0 DEF CloseAllWatchers
    <3> QED BY <3>1
  <2>3. CASE ConsumeRelease(t)
    BY <2>3, <1>0 DEF ConsumeRelease, Release
  <2>4. CASE ConsumeEvents(t) /\ ~SetFinished(t) /\ ~CloseAllWatchers(t) /\ ~ConsumeRelease(t)
    <3>1. /\ UNCHANGED <<watchers, closed, finished, pc>>
          /\ cpc' = cpc \/ \E l \in {"finish", "loop", "idle"} : cpc' = [cpc EXCEPT ![t] = l]
      BY <2>4 DEF ConsumeEvents, ConsumeEvent, ConsumeResult, ConsumeFinish, ConsumeClosed, Emit
    <3> QED BY <3>1, <1>0
  <2> QED BY <1>2, <2>1, <2>2, <2>3, <2>4
<1>3. ASSUME NEW t \in Turns, Backend(t) \/ Broadcast(t) PROVE ChannelInv'
  BY <1>3 DEF Backend, BackendEvent, BackendExit, BackendClose, Broadcast
<1>4. ASSUME NEW r \in Resumes, HandleResume(r) PROVE ChannelInv'
  <2>1. CASE ResumeInsert(r) /\ view[r].entry \notin finished
    <3> DEFINE t == view[r].entry
    <3>1. /\ t \in Turns /\ t \notin finished /\ pc[r] = "insert"
          /\ UNCHANGED <<closed, finished, cpc>>
          /\ watchers' = [watchers EXCEPT ![t] = @ \cup {r}]
          /\ \A s \in Streams : pc'[s] = IF s = r THEN "pump" ELSE pc[s]
      BY <2>1, <1>0 DEF ResumeInsert, EntryFound
    <3> HIDE DEF t
    <3>2. \A u \in Turns : watchers'[u] = IF u = t THEN watchers[t] \cup {r} ELSE watchers[u]
      BY <3>1, <1>0
    <3>3. r \notin closed /\ \A u \in Turns : r \notin watchers[u]
      BY <3>1
    <3> QED BY <3>1, <3>2, <3>3, <1>0
  <2>2. CASE ~(ResumeInsert(r) /\ view[r].entry \notin finished)
    <3>1. /\ UNCHANGED <<watchers, closed, finished, cpc>>
          /\ pc[r] \notin Attached \cup {"done", "failed"}
          /\ \E l : pc' = [pc EXCEPT ![r] = l]
      BY <1>4, <2>2 DEF HandleResume, ResumeSteps, ResumeInfo, ResumeLookup, ResumeRespond,
                  ResumeReplay, ResumeAttach, ResumeInsert, ResumeRereplay, ResumeSynthIdle
    <3> QED BY <3>1, <1>0
  <2> QED BY <2>1, <2>2
<1>5. ASSUME NEW s \in Streams, Pump(s) \/ BreakStream(s) PROVE ChannelInv'
  <2>1. CASE PumpFrame(s) \/ BreakStream(s)
    BY <2>1 DEF PumpFrame, BreakStream
  <2>2. CASE PumpWriteFails(s) \/ PumpEnds(s)
    <3>1. /\ UNCHANGED <<closed, finished, cpc>>
          /\ watchers' = [t \in Turns |-> watchers[t] \ {s}]
          /\ \E l \in {"done", "failed"} : pc' = [pc EXCEPT ![s] = l]
      BY <2>2 DEF PumpWriteFails, PumpEnds, RemoveWatcher
    <3> QED BY <3>1, <1>0
  <2> QED BY <1>5, <2>1, <2>2 DEF Pump
<1>6. CASE Interrupt \/ UNCHANGED vars
  BY <1>6 DEF Interrupt, vars
<1>7. CASE Crash
  <2>1. /\ UNCHANGED closed
        /\ finished' = {t \in Turns : cpc[t] # "none"}
        /\ \A t \in Turns : watchers'[t] = {}
        /\ \A t \in Turns : cpc'[t] = IF cpc[t] = "none" THEN "none" ELSE "done"
        /\ \A s \in Streams : pc'[s] = IF pc[s] \in Over THEN pc[s] ELSE "failed"
    BY <1>7 DEF Crash
  <2> QED BY <2>1, <1>0 DEF Over
<1> QED BY <1>1, <1>2, <1>3, <1>4, <1>5, <1>6, <1>7 DEF Next

LEMMA ChannelInvariant == Spec => []ChannelInv
<1>1. Init => ChannelInv
  BY DEF Init, ChannelInv, NoOrphanWatcher, NoSendOnClosed
<1>2. LogInv => TypeOK /\ EntryFound
  BY DEF LogInv, Bookkeeping
<1> QED BY <1>1, <1>2, ChannelStep, LogInvariant, PTL DEF Spec

\* After an entry has closed its watchers nobody hangs on it.
THEOREM NobodyLeftWatching == Spec => []NoOrphanWatcher
<1>1. ChannelInv => NoOrphanWatcher
  BY DEF ChannelInv
<1> QED BY <1>1, ChannelInvariant, PTL

\* broadcast never sends on a closed channel.
THEOREM NoPanicOnBroadcast == Spec => []NoSendOnClosed
<1>1. ChannelInv => NoSendOnClosed
  BY DEF ChannelInv
<1> QED BY <1>1, ChannelInvariant, PTL
=============================================================================
