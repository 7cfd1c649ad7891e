------------------------- MODULE AgentStreamProofs -------------------------
(***************************************************************************)
(* Theorems about what a browser receives from AgentSession: the stream of *)
(* the browser that started a turn is the turn's events and nothing else,  *)
(* a replay leaves out no stored row, discarding duplicates loses none,    *)
(* what the store refuses is refused because two turns overlap, and a      *)
(* turn that is cancelled comes nearer to its end and lets go of everyone. *)
(***************************************************************************)
EXTENDS AgentSessionProofs

USE DEF store, manager, agent, flow, ctrl, env, Goto, CGoto

-----------------------------------------------------------------------------
(* The stream of the browser that started a turn.                          *)

\* Where a turn is before its channel has been registered.
Unheard == {"idle", "exec", "install", "mark", "respond", "watch"}

\* Where a consumer is once it has set the finished flag.
Closing == {"close", "release", "done"}

\* StartStreamFaithful for one turn.
Faithful(t) ==
    /\ t \notin broken
    /\ t \notin dropped
    /\ pc[t] \in Attached \cup {"done"}
    => LET emitted == seq[t] - (IF pending[t] = NoEvent THEN 0 ELSE 1)
       IN /\ Len(Delivered(t)) = emitted - view[t].from
          /\ \A i \in 1..Len(Delivered(t)) :
                /\ Delivered(t)[i].seq = view[t].from + i
                /\ Delivered(t)[i].turn = t

\* The stream of a turn hangs on the turn's own entry, from before the first
\* event until the stream breaks or the entry closes it, which is after the
\* last event has been broadcast; before it is registered nothing has been
\* emitted.
StreamOf(t) ==
    /\ \A u \in Turns \ {t} : t \notin watchers[u]
    /\ cpc[t] # "none" => pc[t] \in {"pump", "done", "failed"}
    /\ t \in finished => cpc[t] \in Closing
    /\ cpc[t] \in Closing => pending[t] = NoEvent
    /\ t \in closed => cpc[t] \in {"release", "done"}
    /\ pc[t] \in Attached /\ t \notin broken => t \in watchers[t] \/ t \in closed
    /\ pc[t] = "done" => t \in closed /\ chan[t] = <<>>
    /\ pc[t] \in Unheard => out[t] = <<>> /\ chan[t] = <<>> /\ pending[t] = NoEvent
    /\ pc[t] \in {"mark", "respond", "watch"} => seq[t] = view[t].from
    /\ pending[t] # NoEvent => pending[t].seq = seq[t] /\ pending[t].turn = t
    /\ Faithful(t)

StreamInv == \A t \in Turns : StreamOf(t)

\* A step that does not concern the stream of a turn.
Untouched(t) ==
    /\ pc'[t] = pc[t] /\ cpc'[t] = cpc[t] /\ view'[t] = view[t]
    /\ seq'[t] = seq[t] /\ pending'[t] = pending[t]
    /\ chan'[t] = chan[t] /\ out'[t] = out[t]
    /\ t \in finished' <=> t \in finished
    /\ t \in closed' <=> t \in closed
    /\ t \in broken' <=> t \in broken
    /\ t \in dropped' <=> t \in dropped
    /\ \A u \in Turns : t \in watchers'[u] <=> t \in watchers[u]

LEMMA UntouchedKeeps ==
    ASSUME NEW t \in Turns, StreamOf(t), Untouched(t)
    PROVE  StreamOf(t)'
BY DEF StreamOf, Untouched, Faithful, Delivered

\* What the parts of the other invariants say that the stream depends on.
StreamTypes ==
    /\ pc \in [Streams -> StartPCs \cup ResumePCs]
    /\ cpc \in [Turns -> ConsumerPCs]
    /\ seq \in [Turns -> Nat]
    /\ finished \subseteq Turns
    /\ watchers \in [Turns -> SUBSET Streams]
    /\ pending \in [Turns -> Event]
    /\ chan \in [Streams -> Seq(Event)]
    /\ out \in [Streams -> Seq(Event)]
    /\ view \in [Streams -> [cont : BOOLEAN, from : Nat, last : Nat,
                             ended : BOOLEAN, entry : Turns \cup {NoTurn}]]
    /\ \A t \in Turns : t \in Streams
    /\ \A r \in Resumes : r \in Streams /\ r \notin Turns

LEMMA StreamTyped == TypeOK => StreamTypes
BY ConstantsAssumption DEF TypeOK, StreamTypes, Streams

\* Storing an event takes the next number and leaves it to be broadcast: what
\* counts as emitted stays the same.
LEMMA EmitFaithful ==
    ASSUME StreamTypes, NEW t \in Turns, NEW type, Emit(t, type), StreamOf(t),
           UNCHANGED <<view, flow, env>>, pc'[t] \in Attached <=> pc[t] \in Attached,
           pc[t] \in Attached \cup {"failed"}, pc'[t] \in Attached \cup {"failed"}
    PROVE  /\ Faithful(t)'
           /\ pending'[t].seq = seq'[t] /\ pending'[t].turn = t
           /\ pending'[t] # NoEvent
<1>1. /\ seq[t] \in Nat /\ pending[t] = NoEvent /\ seq'[t] = seq[t] + 1
      /\ pending'[t] = [seq |-> seq[t] + 1, turn |-> t, type |-> type]
  BY DEF Emit, StreamTypes
<1>2. pending'[t] # NoEvent
  BY <1>1 DEF NoEvent
<1>3. Delivered(t)' = Delivered(t)
  BY DEF Delivered
<1>4. Faithful(t)
  BY DEF StreamOf
<1>5. view[t].from \in Nat
  BY DEF StreamTypes
<1>6. Faithful(t)'
  <2> SUFFICES ASSUME t \notin broken, t \notin dropped, pc[t] \in Attached
               PROVE  LET emitted == seq'[t] - 1
                      IN /\ Len(Delivered(t)) = emitted - view[t].from
                         /\ \A i \in 1..Len(Delivered(t)) :
                               /\ Delivered(t)[i].seq = view[t].from + i
                               /\ Delivered(t)[i].turn = t
    BY <1>2, <1>3 DEF Faithful, Attached
  <2> QED BY <1>1, <1>4, <1>5 DEF Faithful
<1> QED BY <1>1, <1>2, <1>6

LEMMA StreamStart ==
    ASSUME TypeOK, ChannelInv, StreamInv, NEW t \in Turns, HandleStart(t)
    PROVE  StreamInv'
<1>0. StreamTypes
  BY StreamTyped
<1>1. ASSUME NEW u \in Turns, u # t PROVE StreamOf(u)'
  <2>1. Untouched(u)
    <3> USE <1>0, <1>1 DEF StreamTypes, Untouched
    <3>1. CASE StartNew(t) \/ StartContinue(t) \/ StartExecute(t) \/ StartExecuteFails(t)
      BY <3>1 DEF StartNew, StartContinue, StartExecute, StartExecuteFails
    <3>2. CASE StartInstall(t) \/ StartMark(t) \/ StartRespond(t) \/ StartRespondFails(t)
      BY <3>2 DEF StartInstall, StartMark, StartRespond, StartRespondFails, Release
    <3>3. CASE StartWatch(t)
      BY <3>3 DEF StartWatch
    <3>4. CASE StartEmit(t)
      <4>1. Emit(t, pc[t]) /\ UNCHANGED <<flow, cpc, view, env>> /\ pc' = [pc EXCEPT ![t] = pc'[t]]
        BY <3>4 DEF StartEmit
      <4>2. /\ seq' = [seq EXCEPT ![t] = @ + 1] /\ UNCHANGED <<finished, watchers>>
            /\ pending' = [pending EXCEPT ![t] = pending'[t]]
        BY <4>1 DEF Emit
      <4> QED BY <4>1, <4>2
    <3>5. CASE StartConsumer(t)
      BY <3>5 DEF StartConsumer
    <3> QED BY <3>1, <3>2, <3>3, <3>4, <3>5 DEF HandleStart
  <2> QED BY <1>1, <2>1, UntouchedKeeps DEF StreamInv
<1>2. StreamOf(t)'
  <2>0. StreamOf(t)
    BY DEF StreamInv
  <2>a. \A l : pc' = [pc EXCEPT ![t] = l] => pc'[t] = l
    BY <1>0 DEF StreamTypes
  <2>1. CASE StartNew(t) \/ StartContinue(t) \/ StartExecute(t) \/ StartExecuteFails(t)
    <3>1. /\ pc[t] \in Unheard /\ pc'[t] \in {"exec", "install", "failed"}
          /\ UNCHANGED <<manager, flow, cpc, env>>
      BY <2>1, <2>a DEF StartNew, StartContinue, StartExecute, StartExecuteFails, Unheard
    <3> QED BY <2>0, <3>1 DEF StreamOf, Faithful, Delivered, Unheard, Attached
  <2>2. CASE StartInstall(t)
    <3>1. /\ pc[t] \in Unheard /\ pc'[t] = "mark" /\ seq'[t] = view[t].from
          /\ UNCHANGED <<finished, watchers, pending, flow, cpc, view, env>>
      BY <2>2, <2>a, <1>0 DEF StartInstall, Unheard, StreamTypes
    <3>2. pending[t] = NoEvent
      BY <2>0, <3>1 DEF StreamOf
    <3> QED BY <2>0, <3>1, <3>2 DEF StreamOf, Faithful, Delivered, Unheard, Attached
  <2>3. CASE StartMark(t) \/ StartRespond(t) \/ StartRespondFails(t)
    <3>1. /\ pc[t] \in {"mark", "respond"} /\ pc'[t] \in {"respond", "watch", "failed"}
          /\ UNCHANGED <<seq, finished, watchers, pending, flow, cpc, view, env>>
      BY <2>3, <2>a DEF StartMark, StartRespond, StartRespondFails, Release
    <3> QED BY <2>0, <3>1 DEF StreamOf, Faithful, Delivered, Unheard, Attached
  <2>4. CASE StartWatch(t)
    <3>1. /\ pc[t] = "watch" /\ pc'[t] \in {"prompt", "created"}
          /\ UNCHANGED <<seq, finished, pending, flow, cpc, view, env>>
      BY <2>4, <2>a DEF StartWatch
    <3>2. t \notin finished /\ cpc[t] = "none"
      BY <2>0, <3>1 DEF StreamOf, Closing
    <3>3. /\ t \in watchers'[t]
          /\ \A u \in Turns \ {t} : watchers'[u] = watchers[u]
      BY <2>4, <3>2, <1>0 DEF StartWatch, StreamTypes
    <3>4. /\ out[t] = <<>> /\ chan[t] = <<>> /\ pending[t] = NoEvent /\ seq[t] = view[t].from
          /\ seq[t] \in Nat
      BY <2>0, <3>1, <1>0 DEF StreamOf, Unheard, StreamTypes
    <3>5. Delivered(t)' = <<>>
      BY <3>1, <3>4 DEF Delivered
    <3>6. Faithful(t)'
      BY <3>1, <3>4, <3>5 DEF Faithful
    <3> QED BY <2>0, <3>1, <3>2, <3>3, <3>4, <3>6 DEF StreamOf, Unheard, Attached
  <2>5. CASE StartEmit(t)
    <3>1. /\ pc[t] \in {"created", "prompt", "running"} /\ pc'[t] \in {"prompt", "running", "spawn"}
          /\ Emit(t, pc[t]) /\ UNCHANGED <<flow, cpc, view, env>>
      BY <2>5, <2>a DEF StartEmit
    <3>2. UNCHANGED <<finished, watchers>>
      BY <3>1 DEF Emit
    <3>3. Faithful(t)' /\ pending'[t].seq = seq'[t] /\ pending'[t].turn = t
      BY <2>0, <1>0, <3>1, EmitFaithful DEF Attached
    <3>4. cpc[t] = "none"
      BY <2>0, <3>1 DEF StreamOf
    <3> QED BY <2>0, <3>1, <3>2, <3>3, <3>4 DEF StreamOf, Unheard, Attached, Closing
  <2>6. CASE StartConsumer(t)
    <3>1. /\ pc[t] = "spawn" /\ pc'[t] = "pump" /\ cpc'[t] = "loop"
          /\ UNCHANGED <<manager, flow, view, env>>
      BY <2>6, <2>a, <1>0 DEF StartConsumer, StreamTypes
    <3>2. cpc[t] = "none"
      BY <2>0, <3>1 DEF StreamOf
    <3> QED BY <2>0, <3>1, <3>2 DEF StreamOf, Faithful, Delivered, Unheard, Attached, Closing
  <2> QED BY <2>1, <2>2, <2>3, <2>4, <2>5, <2>6 DEF HandleStart
<1> QED BY <1>1, <1>2 DEF StreamInv

LEMMA StreamConsume ==
    ASSUME TypeOK, ChannelInv, StreamInv, NEW t \in Turns, ConsumeEvents(t)
    PROVE  StreamInv'
<1>0. StreamTypes
  BY StreamTyped
<1>1. ASSUME NEW u \in Turns, u # t PROVE StreamOf(u)'
  <2>1. u \notin watchers[t]
    BY <1>1 DEF StreamInv, StreamOf
  <2>2. Untouched(u)
    <3>1. CASE ConsumeEvent(t) \/ ConsumeResult(t) \/ ConsumeClosed(t)
      BY <1>0, <1>1, <3>1 DEF StreamTypes, Untouched, ConsumeEvent, ConsumeResult, ConsumeClosed, Emit
    <3>2. CASE ConsumeFinish(t) \/ SetFinished(t) \/ ConsumeRelease(t)
      BY <1>0, <1>1, <3>2 DEF StreamTypes, Untouched, ConsumeFinish, SetFinished, ConsumeRelease, Release
    <3>3. CASE CloseAllWatchers(t)
      BY <1>0, <1>1, <2>1, <3>3 DEF StreamTypes, Untouched, CloseAllWatchers
    <3> QED BY <3>1, <3>2, <3>3 DEF ConsumeEvents
  <2> QED BY <1>1, <2>2, UntouchedKeeps DEF StreamInv
<1>2. StreamOf(t)'
  <2>0. StreamOf(t)
    BY DEF StreamInv
  <2>a. \A l : cpc' = [cpc EXCEPT ![t] = l] => cpc'[t] = l
    BY <1>0 DEF StreamTypes
  <2>1. CASE ConsumeEvent(t) \/ ConsumeResult(t) \/ ConsumeClosed(t)
    <3>1. /\ cpc[t] = "loop" /\ cpc'[t] \in {"loop", "finish", "idle"}
          /\ \E type \in EventTypes : Emit(t, type)
          /\ UNCHANGED <<flow, pc, view, env>>
      BY <2>1, <2>a DEF ConsumeEvent, ConsumeResult, ConsumeClosed, AtLoop, EventTypes
    <3>2. PICK type \in EventTypes : Emit(t, type)
      BY <3>1
    <3>3. UNCHANGED <<finished, watchers>>
      BY <3>2 DEF Emit
    <3>4. t \notin closed /\ t \notin finished /\ pc[t] \in {"pump", "failed"}
      BY <2>0, <3>1 DEF StreamOf, Closing
    <3>5. Faithful(t)' /\ pending'[t].seq = seq'[t] /\ pending'[t].turn = t
      BY <2>0, <1>0, <3>1, <3>2, <3>4, EmitFaithful DEF Attached
    <3> QED BY <2>0, <3>1, <3>3, <3>4, <3>5 DEF StreamOf, Unheard, Attached, Closing
  <2>2. CASE ConsumeFinish(t) \/ SetFinished(t) \/ ConsumeRelease(t)
    <3>1. /\ UNCHANGED <<seq, watchers, pending, flow, pc, view, env>>
          /\ \/ cpc[t] = "finish" /\ cpc'[t] = "loop" /\ UNCHANGED finished
             \/ cpc[t] = "idle" /\ cpc'[t] = "close" /\ pending[t] = NoEvent
             \/ cpc[t] = "release" /\ cpc'[t] = "done" /\ UNCHANGED finished
      BY <2>2, <2>a DEF ConsumeFinish, SetFinished, ConsumeRelease, Release
    <3> QED BY <2>0, <3>1 DEF StreamOf, Faithful, Delivered, Closing
  <2>3. CASE CloseAllWatchers(t)
    <3>1. /\ cpc[t] = "close" /\ cpc'[t] = "release"
          /\ closed' = closed \cup watchers[t]
          /\ \A u \in Turns : watchers'[u] = IF u = t THEN {} ELSE watchers[u]
          /\ UNCHANGED <<seq, finished, pending, chan, out, dropped, pc, view, env>>
      BY <2>3, <2>a, <1>0 DEF CloseAllWatchers, StreamTypes
    <3>2. Faithful(t)'
      <4>1. Faithful(t) /\ Delivered(t)' = Delivered(t)
        BY <2>0, <3>1 DEF StreamOf, Delivered
      <4> QED BY <3>1, <4>1 DEF Faithful
    <3> QED BY <2>0, <3>1, <3>2 DEF StreamOf, Closing
  <2> QED BY <2>1, <2>2, <2>3 DEF ConsumeEvents
<1> QED BY <1>1, <1>2 DEF StreamInv

\* What is appended to the channel is appended to what is delivered.
LEMMA AppendAtEnd ==
    ASSUME NEW S, NEW a \in Seq(S), NEW b \in Seq(S), NEW e \in S
    PROVE  a \o Append(b, e) = Append(a \o b, e)
<1> DEFINE c == <<e>>
<1>1. c \in Seq(S) /\ a \o b \in Seq(S)
  BY ConcatProperties
<1>2. Append(b, e) = b \o c /\ Append(a \o b, e) = (a \o b) \o c
  BY <1>1, AppendIsConcat
<1> HIDE DEF c
<1>3. (a \o b) \o c = a \o (b \o c)
  BY <1>1, ConcatAssociative, SMTT(20)
<1> QED BY <1>2, <1>3

\* Moving the head of the channel to the end of the stream changes nothing
\* in the sequence of both.
LEMMA HeadToEnd ==
    ASSUME NEW S, NEW a \in Seq(S), NEW b \in Seq(S), b # <<>>
    PROVE  Append(a, Head(b)) \o Tail(b) = a \o b
<1> DEFINE h == Head(b)
           t == Tail(b)
           c == <<h>>
<1>1. h \in S /\ t \in Seq(S) /\ Len(t) = Len(b) - 1 /\ \A i \in 1..Len(t) : t[i] = b[i + 1]
  BY HeadTailProperties
<1>2. /\ c \in Seq(S) /\ Len(c) = 1 /\ c[1] = b[1]
  BY <1>1
<1>3. Append(a, h) = a \o c
  BY <1>1, AppendIsConcat
<1>4. Len(b) \in Nat /\ Len(t) \in Nat
  BY <1>1, LenProperties
<1> HIDE DEF h, t, c
<1>5. c \o t = b
  <2>1. /\ c \o t \in Seq(S) /\ Len(c \o t) = Len(c) + Len(t)
        /\ \A i \in 1..Len(c) + Len(t) : (c \o t)[i] = IF i <= Len(c) THEN c[i] ELSE t[i - Len(c)]
    <3>1. c \in Seq(S) /\ t \in Seq(S)
      BY <1>1, <1>2
    <3> QED BY <3>1, ConcatProperties, Zenon
  <2> DEFINE x == c \o t
  <2>2. /\ x \in Seq(S) /\ Len(x) = Len(b)
        /\ \A i \in 1..Len(b) : x[i] = IF i <= 1 THEN c[i] ELSE t[i - 1]
    BY <1>1, <1>2, <1>4, <2>1
  <2> HIDE DEF x
  <2>3. \A i \in 1..Len(x) : x[i] = b[i]
    <3> TAKE i \in 1..Len(x)
    <3>1. CASE i = 1
      BY <3>1, <2>2, <1>2
    <3>2. CASE i # 1
      <4>1. i \in 1..Len(b) /\ i - 1 \in 1..Len(t) /\ ~(i <= 1) /\ i - 1 + 1 = i
        BY <3>2, <2>2, <1>1, <1>4
      <4> QED BY <4>1, <2>2, <1>1
    <3> QED BY <3>1, <3>2
  <2>4. x = b
    BY <2>2, <2>3, SeqEqual
  <2> QED BY <2>4 DEF x
<1>6. (a \o c) \o t = a \o (c \o t)
  <2>1. c \in Seq(S) /\ t \in Seq(S)
    BY <1>1, <1>2
  <2> QED BY <2>1, ConcatAssociative, SMTT(20)
<1>7. Append(a, h) \o t = a \o b
  BY <1>3, <1>5, <1>6
<1> QED BY <1>7 DEF h, t

\* broadcast hands the event to the stream's channel, or drops it and says so.
LEMMA StreamBroadcast ==
    ASSUME TypeOK, ChannelInv, StreamInv, NEW t \in Turns, Broadcast(t)
    PROVE  StreamInv'
<1>0. StreamTypes
  BY StreamTyped
<1>a. /\ pending[t] # NoEvent /\ pending' = [pending EXCEPT ![t] = NoEvent]
      /\ \A s \in Streams : s \notin watchers[t] => chan'[s] = chan[s] /\ (s \in dropped' <=> s \in dropped)
      /\ \A s \in Streams : s \in watchers[t] /\ s \notin dropped' => chan'[s] = Append(chan[s], pending[t])
      /\ dropped \subseteq dropped'
      /\ UNCHANGED <<seq, finished, watchers, closed, out, cpc, pc, view, env>>
  BY <1>0 DEF Broadcast, StreamTypes
<1>1. ASSUME NEW u \in Turns, u # t PROVE StreamOf(u)'
  <2>1. u \notin watchers[t]
    BY <1>1 DEF StreamInv, StreamOf
  <2>2. Untouched(u)
    BY <1>0, <1>1, <1>a, <2>1 DEF StreamTypes, Untouched
  <2> QED BY <1>1, <2>2, UntouchedKeeps DEF StreamInv
<1>2. StreamOf(t)'
  <2>0. StreamOf(t)
    BY DEF StreamInv
  <2>1. cpc[t] \notin Closing /\ t \notin closed /\ pc[t] \notin Unheard /\ pc[t] # "done"
    BY <1>a, <2>0 DEF StreamOf, Closing
  <2>2. Faithful(t)'
    <3> SUFFICES ASSUME t \notin broken, t \notin dropped', pc[t] \in Attached
                 PROVE  Faithful(t)'
      BY <1>a, <2>1 DEF Faithful
    <3>1. t \in watchers[t] /\ t \notin dropped
      BY <1>a, <2>0, <2>1 DEF StreamOf
    <3> DEFINE e == pending[t]
               D == Delivered(t)
    <3>2. /\ Len(D) = seq[t] - 1 - view[t].from
          /\ \A i \in 1..Len(D) : D[i].seq = view[t].from + i /\ D[i].turn = t
      BY <1>a, <2>0, <3>1 DEF StreamOf, Faithful
    <3>3. e.seq = seq[t] /\ e.turn = t
      BY <1>a, <2>0 DEF StreamOf
    <3>4. out[t] \in Seq(Event) /\ chan[t] \in Seq(Event) /\ e \in Event
          /\ seq[t] \in Nat /\ view[t].from \in Nat
      BY <1>0 DEF StreamTypes
    <3>5. Delivered(t)' = out[t] \o Append(chan[t], e)
      BY <1>0, <1>a, <3>1 DEF Delivered, StreamTypes
    <3>6. D \in Seq(Event) /\ Delivered(t)' = Append(D, e)
      <4> DEFINE o == out[t]
                 c == chan[t]
      <4>1. D = o \o c /\ Delivered(t)' = o \o Append(c, e)
        BY <3>5 DEF Delivered
      <4>2. o \in Seq(Event) /\ c \in Seq(Event) /\ e \in Event
        BY <3>4
      <4> HIDE DEF D, e, o, c
      <4>3. o \o Append(c, e) = Append(o \o c, e) /\ o \o c \in Seq(Event)
        BY <4>2, AppendAtEnd, ConcatProperties
      <4> QED BY <4>1, <4>3
    <3>7. pending'[t] = NoEvent
      BY <1>0, <1>a DEF StreamTypes
    <3> HIDE DEF D, e
    <3>8. /\ Len(Append(D, e)) = Len(D) + 1 /\ Len(D) \in Nat
          /\ Append(D, e)[Len(D) + 1] = e
          /\ \A i \in 1..Len(D) : Append(D, e)[i] = D[i]
      BY <3>4, <3>6, AppendProperties, LenProperties
    <3>9. \A i \in 1..Len(Append(D, e)) : Append(D, e)[i].seq = view[t].from + i
                                          /\ Append(D, e)[i].turn = t
      <4> DEFINE m == Len(D)
                 F == Append(D, e)
                 s == seq[t]
                 f == view[t].from
      <4>1. /\ Len(F) = m + 1 /\ m \in Nat /\ F[m + 1] = e
            /\ \A i \in 1..m : F[i] = D[i]
        BY <3>8
      <4>2. /\ e.seq = s /\ s \in Nat /\ f \in Nat /\ m = s - 1 - f /\ e.turn = t
            /\ \A i \in 1..m : D[i].seq = f + i /\ D[i].turn = t
        BY <3>2, <3>3, <3>4
      <4> HIDE DEF m, F, s, f
      <4>3. \A i \in 1..(m + 1) : i = m + 1 \/ i \in 1..m
        BY <4>1
      <4>4. e.seq = f + (m + 1)
        BY <4>2
      <4> QED BY <4>1, <4>2, <4>3, <4>4 DEF F, f
    <3>10. Len(Append(D, e)) = seq[t] - view[t].from
      BY <3>2, <3>4, <3>8
    <3> QED BY <1>a, <3>4, <3>6, <3>7, <3>9, <3>10 DEF Faithful
  <2>3. pending'[t] = NoEvent
    BY <1>0, <1>a DEF StreamTypes
  <2> QED BY <1>a, <2>0, <2>1, <2>2, <2>3 DEF StreamOf, Closing
<1> QED BY <1>1, <1>2 DEF StreamInv

\* The loop from channel to stream moves events along the same sequence.
LEMMA FrameMoves ==
    ASSUME StreamTypes, NEW s \in Streams, PumpFrame(s)
    PROVE  \A u \in Streams : Delivered(u)' = Delivered(u)
<1>1. ASSUME NEW u \in Streams, u # s PROVE Delivered(u)' = Delivered(u)
  BY <1>1 DEF PumpFrame, Delivered, StreamTypes
<1>2. Delivered(s)' = Delivered(s)
  <2> DEFINE c == chan[s]
             o == out[s]
  <2>1. c \in Seq(Event) /\ o \in Seq(Event) /\ c # <<>>
    BY DEF StreamTypes, PumpFrame
  <2>2. chan'[s] = Tail(c) /\ out'[s] = Append(o, Head(c))
    BY DEF StreamTypes, PumpFrame
  <2> HIDE DEF c, o
  <2>3. Append(o, Head(c)) \o Tail(c) = o \o c
    BY <2>1, HeadToEnd
  <2> USE DEF c, o
  <2> QED BY <2>2, <2>3 DEF Delivered
<1> QED BY <1>1, <1>2

LEMMA StreamPump ==
    ASSUME TypeOK, ChannelInv, StreamInv, NEW s \in Streams, Pump(s) \/ BreakStream(s)
    PROVE  StreamInv'
<1>0. StreamTypes
  BY StreamTyped
<1>1. CASE PumpFrame(s)
  <2>1. /\ UNCHANGED <<seq, finished, watchers, pending, closed, dropped, pc, cpc, view, env>>
        /\ pc[s] = "pump"
        /\ \A u \in Streams \ {s} : chan'[u] = chan[u] /\ out'[u] = out[u]
    BY <1>1, <1>0 DEF PumpFrame, StreamTypes
  <2>2. \A u \in Streams : Delivered(u)' = Delivered(u)
    BY <1>1, <1>0, FrameMoves
  <2>3. ASSUME NEW u \in Turns PROVE StreamOf(u)'
    <3>1. Faithful(u)'
      <4>1. Faithful(u) /\ Delivered(u)' = Delivered(u)
        BY <1>0, <2>2 DEF StreamInv, StreamOf, StreamTypes
      <4>2. UNCHANGED <<seq[u], pending[u], view[u], pc[u], broken, dropped>>
        BY <2>1 DEF env
      <4> QED BY <4>1, <4>2 DEF Faithful
    <3>2. pc[u] = "done" \/ pc[u] \in Unheard => chan'[u] = chan[u] /\ out'[u] = out[u]
      BY <1>0, <2>1 DEF StreamTypes, Unheard
    <3> QED BY <2>1, <3>1, <3>2 DEF StreamInv, StreamOf
  <2> QED BY <2>3 DEF StreamInv
<1>2. CASE PumpWriteFails(s)
  <2>1. ASSUME NEW u \in Turns, u # s PROVE StreamOf(u)'
    <3>1. Untouched(u)
      BY <1>2, <2>1, <1>0 DEF PumpWriteFails, RemoveWatcher, Untouched, StreamTypes
    <3> QED BY <2>1, <3>1, UntouchedKeeps DEF StreamInv
  <2>2. ASSUME s \in Turns PROVE StreamOf(s)'
    <3>1. /\ pc'[s] = "failed" /\ pc[s] = "pump"
          /\ \A u \in Turns : watchers'[u] = watchers[u] \ {s}
          /\ UNCHANGED <<seq, finished, pending, closed, dropped, cpc, view, env>>
      BY <1>2, <1>0 DEF PumpWriteFails, RemoveWatcher, StreamTypes
    <3> QED BY <2>2, <3>1 DEF StreamInv, StreamOf, Faithful, Attached, Unheard
  <2> QED BY <2>1, <2>2 DEF StreamInv
<1>3. CASE PumpEnds(s)
  <2>1. ASSUME NEW u \in Turns, u # s PROVE StreamOf(u)'
    <3>1. Untouched(u)
      BY <1>3, <2>1, <1>0 DEF PumpEnds, RemoveWatcher, Untouched, StreamTypes
    <3> QED BY <2>1, <3>1, UntouchedKeeps DEF StreamInv
  <2>2. ASSUME s \in Turns PROVE StreamOf(s)'
    <3>1. /\ pc'[s] = "done" /\ pc[s] = "pump" /\ chan[s] = <<>> /\ s \in closed
          /\ \A u \in Turns : watchers'[u] = watchers[u] \ {s}
          /\ UNCHANGED <<seq, finished, pending, flow, cpc, view, env>>
      BY <1>3, <1>0 DEF PumpEnds, RemoveWatcher, StreamTypes
    <3>2. Faithful(s)'
      <4>1. Delivered(s)' = Delivered(s)
        BY <3>1 DEF Delivered
      <4>2. Faithful(s)
        BY <2>2 DEF StreamInv, StreamOf
      <4> QED BY <3>1, <4>1, <4>2 DEF Faithful, Attached
    <3> QED BY <2>2, <3>1, <3>2 DEF StreamInv, StreamOf, Attached, Unheard
  <2> QED BY <2>1, <2>2 DEF StreamInv
<1>4. CASE BreakStream(s)
  <2>1. broken \subseteq broken' /\ UNCHANGED <<manager, flow, ctrl>>
    BY <1>4 DEF BreakStream
  <2>2. \A u \in Turns : Delivered(u)' = Delivered(u)
    BY <2>1 DEF Delivered
  <2>3. ASSUME NEW u \in Turns PROVE StreamOf(u)'
    <3>1. StreamOf(u)
      BY DEF StreamInv
    <3>2. Faithful(u)'
      BY <2>1, <2>2, <3>1 DEF StreamOf, Faithful
    <3> QED BY <2>1, <3>1, <3>2 DEF StreamOf
  <2> QED BY <2>3 DEF StreamInv
<1> QED BY <1>1, <1>2, <1>3, <1>4 DEF Pump

\* A resume moves nothing but itself and its registration.
LEMMA ResumeKeeps ==
    ASSUME StreamTypes, NEW r \in Resumes, HandleResume(r)
    PROVE  /\ UNCHANGED <<row, log, lost, failed, seq, finished, pending, chan>>
           /\ \A s \in Streams : s # r => pc'[s] = pc[s] /\ view'[s] = view[s] /\ out'[s] = out[s]
<1>1. CASE (\E since \in 0..MaxSince : ResumeInfo(r, since)) \/ ResumeLookup(r) \/ ResumeRespond(r)
  BY <1>1 DEF ResumeInfo, ResumeLookup, ResumeRespond, StreamTypes
<1>2. CASE ResumeReplay(r)
  BY <1>2 DEF ResumeReplay, StreamTypes
<1>3. CASE ResumeAttach(r) \/ ResumeInsert(r)
  BY <1>3 DEF ResumeAttach, ResumeInsert, StreamTypes
<1>4. CASE ResumeRereplay(r) \/ ResumeSynthIdle(r)
  BY <1>4 DEF ResumeRereplay, ResumeSynthIdle, StreamTypes
<1> QED BY <1>1, <1>2, <1>3, <1>4 DEF HandleResume, ResumeSteps

LEMMA StreamOther ==
    ASSUME TypeOK, EntryFound, ChannelInv, StreamInv,
           \/ \E r \in Resumes : HandleResume(r)
           \/ \E t \in Turns : Backend(t)
           \/ Interrupt \/ Crash \/ UNCHANGED vars
    PROVE  StreamInv'
<1>0. StreamTypes
  BY StreamTyped
<1>1. ASSUME NEW r \in Resumes, HandleResume(r), NEW u \in Turns PROVE Untouched(u)
  <2>0. /\ UNCHANGED <<seq, finished, pending, chan>>
        /\ pc'[u] = pc[u] /\ view'[u] = view[u] /\ out'[u] = out[u]
    <3>1. u \in Streams /\ u # r
      BY <1>0 DEF StreamTypes
    <3> QED BY <1>0, <1>1, <3>1, ResumeKeeps
  <2>1. CASE \E since \in 0..MaxSince : ResumeInfo(r, since)
    BY <2>0, <2>1 DEF ResumeInfo, Untouched
  <2>2. CASE ResumeInsert(r)
    <3>1. view[r].entry \in Turns
      BY <2>2 DEF ResumeInsert, EntryFound
    <3>2. /\ UNCHANGED <<flow, cpc, env>>
          /\ \/ UNCHANGED watchers
             \/ watchers' = [watchers EXCEPT ![view[r].entry] = @ \cup {r}]
      BY <2>2 DEF ResumeInsert
    <3>3. \A v \in Turns : u \in watchers'[v] <=> u \in watchers[v]
      <4> DEFINE t == view[r].entry
      <4>1. /\ t \in Turns /\ u # r /\ watchers \in [Turns -> SUBSET Streams]
            /\ \/ watchers' = watchers
               \/ watchers' = [watchers EXCEPT ![t] = @ \cup {r}]
        BY <3>1, <3>2, <1>0 DEF StreamTypes
      <4> HIDE DEF t
      <4> QED BY <4>1
    <3> QED BY <2>0, <3>2, <3>3 DEF Untouched
  <2>3. CASE ResumeLookup(r) \/ ResumeRespond(r) \/ ResumeAttach(r)
    BY <2>0, <2>3 DEF ResumeLookup, ResumeRespond, ResumeAttach, Untouched
  <2>4. CASE ResumeReplay(r) \/ ResumeRereplay(r) \/ ResumeSynthIdle(r)
    BY <2>0, <2>4 DEF ResumeReplay, ResumeRereplay, ResumeSynthIdle, Untouched
  <2> QED BY <1>1, <2>1, <2>2, <2>3, <2>4 DEF HandleResume, ResumeSteps
<1>2. ASSUME Interrupt \/ UNCHANGED vars \/ (\E t \in Turns : Backend(t)), NEW u \in Turns
      PROVE  Untouched(u)
  <2>1. UNCHANGED <<pc, cpc, view, seq, pending, chan, out, finished, closed, broken, dropped, watchers>>
    BY <1>2 DEF Interrupt, vars, Backend, BackendEvent, BackendExit, BackendClose
  <2> QED BY <2>1 DEF Untouched
<1>3. ASSUME Crash, NEW t \in Turns PROVE StreamOf(t)'
  <2>1. /\ UNCHANGED <<seq, closed, out, dropped, view>>
        /\ pc'[t] = IF pc[t] \in Over THEN pc[t] ELSE "failed"
        /\ cpc'[t] = IF cpc[t] = "none" THEN "none" ELSE "done"
        /\ t \in finished' <=> cpc[t] # "none"
        /\ \A u \in Turns : watchers'[u] = {}
        /\ chan'[t] = <<>> /\ pending'[t] = NoEvent
        /\ broken \subseteq broken'
    BY <1>3, <1>0 DEF Crash, StreamTypes
  <2>2. StreamOf(t)
    BY DEF StreamInv
  <2>3. pc'[t] = "done" => /\ pc[t] = "done" /\ chan'[t] = chan[t] /\ pending'[t] = pending[t]
    BY <2>1, <2>2 DEF StreamOf, Closing
  <2>4. pc'[t] \notin Attached
    BY <2>1 DEF Over, Attached
  <2>5. Faithful(t)'
    BY <2>1, <2>2, <2>3, <2>4 DEF StreamOf, Faithful, Delivered
  <2> QED BY <2>1, <2>2, <2>3, <2>4, <2>5 DEF StreamOf, Closing, Unheard, Over
<1> QED BY <1>1, <1>2, <1>3, UntouchedKeeps DEF StreamInv

LEMMA StreamStep ==
    TypeOK /\ EntryFound /\ ChannelInv /\ StreamInv /\ [Next]_vars => StreamInv'
  BY StreamStart, StreamConsume, StreamBroadcast, StreamPump, StreamOther DEF Next

LEMMA StreamInvariant == Spec => []StreamInv
<1>1. Init => StreamInv
  <2> SUFFICES ASSUME Init, NEW t \in Turns PROVE StreamOf(t)
    BY DEF StreamInv
  <2>1. t \in Streams
    BY DEF Streams
  <2> QED BY <2>1 DEF Init, StreamOf, Faithful, Attached, Unheard, Closing
<1>2. LogInv => TypeOK /\ EntryFound
  BY DEF LogInv, Bookkeeping
<1> QED BY <1>1, <1>2, StreamStep, ChannelInvariant, LogInvariant, PTL DEF Spec

\* The browser that started a turn, as long as its stream holds and it reads
\* fast enough, is sent every event of the turn exactly once and in order.
THEOREM StreamIsFaithful == Spec => []StartStreamFaithful
<1>1. TypeOK /\ StreamInv => StartStreamFaithful
  <2> SUFFICES ASSUME TypeOK, StreamInv, NEW t \in Turns,
                      t \notin broken, t \notin dropped, pc[t] \in Attached \cup {"done"}
               PROVE  LET emitted == seq[t] - (IF pending[t] = NoEvent THEN 0 ELSE 1)
                      IN /\ Len(Delivered(t)) = emitted - view[t].from
                         /\ \A i \in DOMAIN Delivered(t) :
                               /\ Delivered(t)[i].seq = view[t].from + i
                               /\ Delivered(t)[i].turn = t
    BY DEF StartStreamFaithful, Attached
  <2>1. Delivered(t) \in Seq(Event)
    BY StreamTyped, ConcatProperties DEF StreamTypes, Delivered
  <2> DEFINE D == Delivered(t)
  <2> HIDE DEF D
  <2>2. DOMAIN Delivered(t) = 1..Len(Delivered(t))
    BY <2>1, LenProperties
  <2> QED BY <2>2 DEF StreamInv, StreamOf, Faithful
<1>2. LogInv => TypeOK
  BY DEF LogInv
<1> QED BY <1>1, <1>2, StreamInvariant, LogInvariant, PTL

-----------------------------------------------------------------------------
(* The log grows by what a turn emits that has not finished.               *)

\* A step that stores the next event of a turn and leaves it to be broadcast.
Emits(t) ==
    /\ \E type \in EventTypes : Emit(t, type)
    /\ t \notin finished
    /\ pc[t] \notin Unheard /\ pc'[t] \notin Unheard
    /\ pc[t] = "failed" => cpc[t] # "none"
    /\ \A s \in Streams \ {t} : pc'[s] = pc[s]
    /\ UNCHANGED <<flow, view, env>>

LEMMA WhoEmits ==
    ASSUME StreamTypes, StreamInv, NEW t \in Turns,
           StartEmit(t) \/ ConsumeEvent(t) \/ ConsumeResult(t) \/ ConsumeClosed(t)
    PROVE  Emits(t)
<1>1. CASE StartEmit(t)
  <2>1. /\ pc[t] \in {"created", "prompt", "running"} /\ Emit(t, pc[t])
        /\ pc' = [pc EXCEPT ![t] = pc'[t]] /\ pc'[t] \in {"prompt", "running", "spawn"}
        /\ UNCHANGED <<flow, view, env>>
    BY <1>1 DEF StartEmit, StreamTypes
  <2>2. t \notin finished
    BY <2>1 DEF StreamInv, StreamOf, Closing
  <2> QED BY <2>1, <2>2 DEF Emits, EventTypes, Unheard, StreamTypes
<1>2. CASE ConsumeEvent(t) \/ ConsumeResult(t) \/ ConsumeClosed(t)
  <2>1. /\ cpc[t] = "loop" /\ \E type \in EventTypes : Emit(t, type)
        /\ UNCHANGED <<flow, pc, view, env>>
    BY <1>2 DEF ConsumeEvent, ConsumeResult, ConsumeClosed, AtLoop, EventTypes
  <2>2. t \notin finished /\ pc[t] \notin Unheard
    BY <2>1 DEF StreamInv, StreamOf, Closing, Unheard
  <2> QED BY <2>1, <2>2 DEF Emits
<1> QED BY <1>1, <1>2

LEMMA EmitsOrKeeps ==
    ASSUME LogInv, StreamInv, [Next]_vars
    PROVE  (\E t \in Turns : Emits(t)) \/ UNCHANGED <<log, lost, failed>>
<1>0. StreamTypes
  BY StreamTyped DEF LogInv
<1>1. ASSUME NEW t \in Turns, StartEmit(t) \/ ConsumeEvent(t) \/ ConsumeResult(t) \/ ConsumeClosed(t)
      PROVE  Emits(t)
  BY <1>0, <1>1, WhoEmits
<1>2. ASSUME NEW t \in Turns, HandleStart(t), ~StartEmit(t) PROVE UNCHANGED <<log, lost, failed>>
  BY <1>2 DEF HandleStart, StartNew, StartContinue, StartExecute, StartExecuteFails, StartInstall,
              StartMark, StartRespond, StartRespondFails, StartWatch, StartConsumer
<1>3. ASSUME NEW t \in Turns, ConsumeFinish(t) \/ SetFinished(t) \/ CloseAllWatchers(t)
                              \/ ConsumeRelease(t) \/ Backend(t) \/ Broadcast(t)
      PROVE  UNCHANGED <<log, lost, failed>>
  BY <1>3 DEF ConsumeFinish, SetFinished, CloseAllWatchers, ConsumeRelease, Backend, BackendEvent,
              BackendExit, BackendClose, Broadcast
<1>4. ASSUME NEW r \in Resumes, HandleResume(r) PROVE UNCHANGED <<log, lost, failed>>
  BY <1>0, <1>4, ResumeKeeps
<1>5. ASSUME NEW s \in Streams, Pump(s) \/ BreakStream(s) PROVE UNCHANGED <<log, lost, failed>>
  BY <1>5 DEF Pump, PumpFrame, PumpWriteFails, PumpEnds, BreakStream
<1>6. ASSUME Interrupt \/ Crash \/ UNCHANGED vars PROVE UNCHANGED <<log, lost, failed>>
  BY <1>6 DEF Interrupt, Crash, vars
<1> QED BY <1>1, <1>2, <1>3, <1>4, <1>5, <1>6 DEF Next, ConsumeEvents

\* The numbers of the log are positive and accounted for.
LEMMA RowNumbers ==
    LogInv => \A e \in log : e.seq \in Nat /\ e.seq # 0 /\ Accounted(e.seq, log \cup failed)
BY DEF LogInv, Bookkeeping, HolesAreFailures, TypeOK, Event

\* The event that is stored is the next one of the turn that emits it, and is
\* what waits to be broadcast.  When its number is not above a number that is
\* accounted for, it is a number that failed before.
LEMMA EmittedRow ==
    ASSUME LogInv, NEW t \in Turns, Emits(t)
    PROVE  /\ log \subseteq log' /\ failed \subseteq failed'
           /\ \A e \in log' \ log :
                /\ e.turn = t /\ e.seq = seq'[t] /\ e = pending'[t] /\ e.seq \in Nat
                /\ \A n \in Nat : Accounted(n, log \cup failed) /\ e.seq <= n => Numbered(e.seq, failed')
<1>1. PICK type \in EventTypes : Emit(t, type)
  BY DEF Emits
<1> DEFINE f == [seq |-> seq[t] + 1, turn |-> t, type |-> type]
<1>2. /\ AppendEvent(f) /\ pending' = [pending EXCEPT ![t] = f]
      /\ seq' = [seq EXCEPT ![t] = @ + 1]
      /\ seq \in [Turns -> Nat] /\ pending \in [Turns -> Event]
  BY <1>1 DEF Emit, LogInv, TypeOK
<1>3. /\ f.turn = t /\ f.seq = seq'[t] /\ f = pending'[t] /\ f.seq \in Nat /\ f.seq # 0
  BY <1>2
<1> HIDE DEF f
<1>4. /\ log \subseteq log' /\ failed \subseteq failed' /\ log' \subseteq log \cup {f}
      /\ f \in log' \ log => ~Numbered(f.seq, log) /\ failed' = failed
  BY <1>2 DEF AppendEvent, Taken, Numbered
<1>5. ASSUME f \in log' \ log, NEW n \in Nat, Accounted(n, log \cup failed), f.seq <= n
      PROVE  Numbered(f.seq, failed')
  <2>1. f.seq \in 1..n
    BY <1>3, <1>5
  <2>2. Numbered(f.seq, log \cup failed)
    BY <1>5, <2>1 DEF Accounted
  <2>3. Numbered(f.seq, failed)
    BY <1>4, <1>5, <2>2 DEF Numbered
  <2> QED BY <1>4, <2>3 DEF Numbered
<1> QED BY <1>3, <1>4, <1>5

\* A row that is in order has been so since it was stored.
LEMMA OrderStays ==
    ASSUME failed \subseteq failed', NEW e \in log, InOrder(e)'
    PROVE  InOrder(e)
BY DEF InOrder, Numbered

\* Nobody but its own handler moves a resume that is not pumping, unless the
\* process dies; what the stream was sent stays, and a finished entry stays so.
LEMMA ResumeAtRest ==
    ASSUME StreamTypes, EntryFound, StreamInv, [Next]_vars, NEW r \in Resumes,
           ~HandleResume(r), pc[r] # "pump"
    PROVE  /\ pc'[r] = pc[r] \/ pc'[r] = "failed"
           /\ view'[r] = view[r] /\ out'[r] = out[r]
           /\ finished \subseteq finished'
<1>0. r \in Streams /\ r \notin Turns
  BY DEF StreamTypes
<1>1. ASSUME NEW t \in Turns, HandleStart(t)
      PROVE  /\ pc'[r] = pc[r] /\ view'[r] = view[r] /\ UNCHANGED <<out, finished>>
  <2>1. CASE StartEmit(t)
    BY <2>1, <1>0 DEF StartEmit, Emit, StreamTypes
  <2>2. CASE HandleStart(t) /\ ~StartEmit(t)
    BY <2>2, <1>0 DEF HandleStart, StartNew, StartContinue, StartExecute, StartExecuteFails,
       StartInstall, StartMark, StartRespond, StartRespondFails, Release, StartWatch,
       StartConsumer, StreamTypes
  <2> QED BY <1>1, <2>1, <2>2
<1>2. ASSUME NEW t \in Turns, ConsumeEvents(t) \/ Backend(t) \/ Broadcast(t)
      PROVE  /\ UNCHANGED <<pc, view, out>> /\ finished \subseteq finished'
  BY <1>2 DEF ConsumeEvents, ConsumeEvent, ConsumeResult, ConsumeClosed, ConsumeFinish, Emit,
     SetFinished, CloseAllWatchers, ConsumeRelease, Release, Backend, BackendEvent, BackendExit,
     BackendClose, Broadcast
<1>3. ASSUME NEW q \in Resumes, q # r, HandleResume(q)
      PROVE  pc'[r] = pc[r] /\ view'[r] = view[r] /\ out'[r] = out[r] /\ UNCHANGED finished
  BY <1>0, <1>3, ResumeKeeps
<1>4. ASSUME NEW s \in Streams, Pump(s) \/ BreakStream(s)
      PROVE  pc'[r] = pc[r] /\ view'[r] = view[r] /\ out'[r] = out[r] /\ UNCHANGED finished
  BY <1>0, <1>4 DEF Pump, PumpFrame, PumpWriteFails, PumpEnds, BreakStream, StreamTypes
<1>5. ASSUME Interrupt \/ UNCHANGED vars
      PROVE  UNCHANGED <<pc, view, out, finished>>
  BY <1>5 DEF Interrupt, vars
<1>6. ASSUME Crash
      PROVE  /\ pc'[r] = pc[r] \/ pc'[r] = "failed"
             /\ UNCHANGED <<view, out>> /\ finished \subseteq finished'
  <2>1. finished' = {t \in Turns : cpc[t] # "none"} /\ UNCHANGED <<view, out>>
        /\ pc' = [s \in Streams |-> IF pc[s] \in Over THEN pc[s] ELSE "failed"]
    BY <1>6 DEF Crash
  <2>2. \A t \in Turns : t \in finished => cpc[t] # "none"
    BY DEF StreamInv, StreamOf, Closing
  <2>3. finished \subseteq Turns
    BY DEF StreamTypes
  <2> QED BY <1>0, <2>1, <2>2, <2>3
<1> QED BY <1>1, <1>2, <1>3, <1>4, <1>5, <1>6 DEF Next

-----------------------------------------------------------------------------
(* A resume that found its session finishing hands over all of its rows.   *)

\* What is written to a stream after something else leaves that in its place.
LEMMA WrittenAfter ==
    ASSUME NEW S, NEW a \in Seq(S), NEW b \in Seq(S)
    PROVE  /\ a \o b \in Seq(S) /\ Len(a \o b) = Len(a) + Len(b)
           /\ \A i \in 1..Len(a) : (a \o b)[i] = a[i]
           /\ \A i \in 1..Len(b) : (a \o b)[Len(a) + i] = b[i]
<1> DEFINE m == Len(a)
           n == Len(b)
           c == a \o b
<1>1. m \in Nat /\ n \in Nat
  BY LenProperties
<1>2. /\ c \in Seq(S) /\ Len(c) = m + n
      /\ \A i \in 1..m + n : c[i] = IF i <= m THEN a[i] ELSE b[i - m]
  BY ConcatProperties
<1> HIDE DEF m, n, c
<1>3. \A i \in 1..m : c[i] = a[i]
  BY <1>1, <1>2
<1>4. \A i \in 1..n : c[m + i] = b[i]
  <2> TAKE i \in 1..n
  <2> DEFINE k == m + i
  <2>1. k \in 1..m + n /\ ~(k <= m) /\ k - m = i
    BY <1>1
  <2> HIDE DEF k
  <2>2. c[k] = b[k - m]
    BY <2>1, <1>2
  <2>3. c[k] = b[i]
    BY <2>1, <2>2
  <2> QED BY <2>3 DEF k
<1>5. a \o b \in Seq(S) /\ Len(a \o b) = Len(a) + Len(b)
  BY ConcatProperties
<1>6. \A i \in 1..Len(a) : (a \o b)[i] = a[i]
  BY <1>3 DEF m, c
<1>7. \A i \in 1..Len(b) : (a \o b)[Len(a) + i] = b[i]
  BY <1>4 DEF m, n, c
<1> QED BY <1>5, <1>6, <1>7

\* Has(q, e): the event e is somewhere in the sequence q.
Has(q, e) == \E i \in 1..Len(q) : q[i] = e

LEMMA HasAfter ==
    ASSUME NEW a \in Seq(Event), NEW b \in Seq(Event), NEW e, Has(a, e) \/ Has(b, e)
    PROVE  Has(a \o b, e)
<1> DEFINE m == Len(a)
           n == Len(b)
           c == a \o b
<1>1. m \in Nat /\ n \in Nat
  BY LenProperties
<1>2. /\ Len(c) = m + n
      /\ \A i \in 1..m : c[i] = a[i]
      /\ \A i \in 1..n : c[m + i] = b[i]
  BY WrittenAfter
<1> HIDE DEF m, n, c
<1>3. ASSUME NEW i \in 1..m, a[i] = e PROVE Has(c, e)
  BY <1>1, <1>2, <1>3 DEF Has
<1>4. ASSUME NEW i \in 1..n, b[i] = e PROVE Has(c, e)
  <2>1. m + i \in 1..m + n
    BY <1>1
  <2> QED BY <1>2, <1>4, <2>1 DEF Has
<1>5. (\E i \in 1..m : a[i] = e) \/ (\E i \in 1..n : b[i] = e)
  BY DEF Has, m, n
<1>6. Has(c, e)
  BY <1>3, <1>4, <1>5
<1> QED BY <1>6 DEF c

\* A replay has every stored event after its number.
LEMMA ReplayHasAll ==
    ASSUME LogInv, NEW n \in Nat, NEW e \in log, e.seq > n
    PROVE  Has(Replay(n), e)
BY ReplayIsStored DEF Has, LogInv, Bookkeeping, Numbering

LEMMA ReplayType ==
    ASSUME LogInv, NEW n \in Nat PROVE Replay(n) \in Seq(Event)
BY ReplayIsStored DEF LogInv, Bookkeeping, Numbering

\* Until it hangs on the entry or gives up, a resume has been sent every row
\* between the number it presented and the last_seq it read; where it replays
\* a second time the entry has finished, so that nothing of that turn is
\* stored any more, and afterwards it has been sent all of it.
Covered(r) ==
    /\ pc[r] \in {"attach", "insert", "rereplay"} =>
          \A e \in log : InOrder(e) /\ view[r].from < e.seq /\ e.seq <= view[r].last
                         => Has(out[r], e)
    /\ pc[r] \in {"rereplay", "recovered"} => view[r].entry \in finished
    /\ pc[r] = "recovered" =>
          \A e \in log : InOrder(e) /\ e.turn = view[r].entry /\ e.seq > view[r].from
                         => Has(out[r], e)

LEMMA CoveredResume ==
    ASSUME LogInv, NEW r \in Resumes, Covered(r), HandleResume(r)
    PROVE  Covered(r)'
<1>0. /\ StreamTypes /\ r \in Streams /\ view[r].from \in Nat /\ view[r].last \in Nat
  BY StreamTyped DEF LogInv, StreamTypes
<1>a. \A l : pc' = [pc EXCEPT ![r] = l] => pc'[r] = l
  BY <1>0 DEF StreamTypes
<1>b. \A q : out' = [out EXCEPT ![r] = q] => out'[r] = q
  BY <1>0 DEF StreamTypes
<1>c. out[r] \in Seq(Event)
  BY <1>0 DEF StreamTypes
<1>d. \A e \in log : e.seq \in Nat
  BY RowNumbers
<1>1. CASE ResumeReplay(r)
  <2>1. UNCHANGED <<log, failed, view>> /\ pc'[r] \in {"failed", "attach", "synth", "done"}
        /\ (pc'[r] = "attach" => out'[r] = out[r] \o Replay(view[r].from))
    BY <1>1, <1>a, <1>b DEF ResumeReplay
  <2>2. ASSUME pc'[r] = "attach", NEW e \in log, view[r].from < e.seq PROVE Has(out'[r], e)
    <3>1. Replay(view[r].from) \in Seq(Event)
      BY <1>0, ReplayType
    <3>2. e.seq > view[r].from
      BY <2>2, <1>0, <1>d
    <3>3. Has(Replay(view[r].from), e)
      BY <1>0, <3>2, ReplayHasAll
    <3>4. Has(out[r] \o Replay(view[r].from), e)
      BY <3>1, <3>3, <1>c, HasAfter
    <3> QED BY <2>1, <2>2, <3>4
  <2> QED BY <2>1, <2>2 DEF Covered, InOrder
<1>2. CASE ResumeRereplay(r)
  <2>1. /\ UNCHANGED <<log, failed, view, finished>> /\ pc[r] = "rereplay" /\ pc'[r] \in {"failed", "recovered"}
        /\ (pc'[r] = "recovered" => out'[r] = out[r] \o Replay(view[r].last))
    BY <1>2, <1>a, <1>b DEF ResumeRereplay
  <2>2. ASSUME pc'[r] = "recovered", NEW e \in log, InOrder(e), e.seq > view[r].from PROVE Has(out'[r], e)
    <3>1. Replay(view[r].last) \in Seq(Event)
      BY <1>0, ReplayType
    <3>2. CASE e.seq <= view[r].last
      <4>0. view[r].from < e.seq /\ pc[r] = "rereplay"
        BY <2>1, <2>2, <1>0, <1>d
      <4>1. Has(out[r], e)
        BY <2>2, <3>2, <4>0 DEF Covered
      <4>2. Has(out[r] \o Replay(view[r].last), e)
        BY <3>1, <4>1, <1>c, HasAfter
      <4> QED BY <2>1, <2>2, <4>2
    <3>3. CASE ~(e.seq <= view[r].last)
      <4>0. e.seq > view[r].last
        BY <3>3, <1>0, <1>d
      <4>1. Has(Replay(view[r].last), e)
        BY <1>0, <4>0, ReplayHasAll
      <4>2. Has(out[r] \o Replay(view[r].last), e)
        BY <3>1, <4>1, <1>c, HasAfter
      <4> QED BY <2>1, <2>2, <4>2
    <3> QED BY <3>2, <3>3
  <2> QED BY <2>1, <2>2 DEF Covered, InOrder
<1>3. CASE ResumeAttach(r) \/ ResumeInsert(r)
  <2>1. /\ UNCHANGED <<log, failed, view, out, finished>> /\ pc[r] \in {"attach", "insert"}
        /\ pc'[r] \in {"insert", "rereplay", "pump"}
        /\ (pc'[r] = "rereplay" => view[r].entry \in finished)
    BY <1>3, <1>a DEF ResumeAttach, ResumeInsert
  <2> QED BY <2>1 DEF Covered, InOrder
<1>4. CASE (\E since \in 0..MaxSince : ResumeInfo(r, since)) \/ ResumeLookup(r)
           \/ ResumeRespond(r) \/ ResumeSynthIdle(r)
  <2>1. pc'[r] \in {"lookup", "respond", "failed", "replay", "done"}
    BY <1>4, <1>a DEF ResumeInfo, ResumeLookup, ResumeRespond, ResumeSynthIdle
  <2> QED BY <2>1 DEF Covered
<1> QED BY <1>1, <1>2, <1>3, <1>4 DEF HandleResume, ResumeSteps

LEMMA CoveredStep ==
    ASSUME LogInv, StreamInv, [Next]_vars, NEW r \in Resumes, Covered(r)
    PROVE  Covered(r)'
<1>0. StreamTypes /\ EntryFound
  BY StreamTyped DEF LogInv, Bookkeeping
<1>1. CASE HandleResume(r)
  BY <1>1, CoveredResume
<1>2. CASE ~HandleResume(r) /\ pc[r] # "pump"
  <2>1. /\ pc'[r] = pc[r] \/ pc'[r] = "failed"
        /\ view'[r] = view[r] /\ out'[r] = out[r]
        /\ finished \subseteq finished'
    BY <1>0, <1>2, ResumeAtRest
  <2>2. CASE UNCHANGED <<log, failed>>
    BY <2>1, <2>2 DEF Covered, InOrder
  <2>3. CASE ~UNCHANGED <<log, failed>>
    <3>1. PICK t \in Turns : Emits(t)
      BY <2>3, EmitsOrKeeps
    <3>2. /\ failed \subseteq failed'
          /\ \A e \in log' \ log :
                /\ e.turn = t
                /\ \A n \in Nat : Accounted(n, log \cup failed) /\ e.seq <= n => Numbered(e.seq, failed')
      BY <3>1, EmittedRow
    <3>3. t \notin finished /\ UNCHANGED finished
      BY <3>1 DEF Emits, Emit
    <3>4. view[r].last \in Nat /\ Accounted(view[r].last, log \cup failed)
      BY <1>0 DEF LogInv, Bookkeeping, Numbering, StreamTypes
    <3>5. ASSUME NEW e \in log', InOrder(e)', e.seq <= view[r].last PROVE e \in log /\ InOrder(e)
      <4>1. e \in log
        BY <3>2, <3>4, <3>5 DEF InOrder
      <4> QED BY <3>2, <3>5, <4>1, OrderStays
    <3>6. ASSUME NEW e \in log', InOrder(e)', view[r].entry \in finished, e.turn = view[r].entry
          PROVE  e \in log /\ InOrder(e)
      <4>1. e \in log
        BY <3>2, <3>3, <3>6
      <4> QED BY <3>2, <3>6, <4>1, OrderStays
    <3> QED BY <2>1, <3>3, <3>5, <3>6 DEF Covered
  <2> QED BY <2>2, <2>3
<1>3. CASE ~HandleResume(r) /\ pc[r] = "pump"
  <2>1. pc'[r] \in {"pump", "failed", "done"}
    <3>0. r \in Streams /\ r \notin Turns
      BY <1>0 DEF StreamTypes
    <3>1. ASSUME NEW t \in Turns, HandleStart(t) PROVE pc'[r] = pc[r]
      BY <1>0, <3>0, <3>1 DEF HandleStart, StartNew, StartContinue, StartExecute, StartExecuteFails,
         StartInstall, StartMark, StartRespond, StartRespondFails, StartWatch, StartEmit,
         StartConsumer, StreamTypes
    <3>2. ASSUME NEW t \in Turns, ConsumeEvents(t) \/ Backend(t) \/ Broadcast(t) PROVE UNCHANGED pc
      BY <3>2 DEF ConsumeEvents, ConsumeEvent, ConsumeResult, ConsumeClosed, ConsumeFinish,
         SetFinished, CloseAllWatchers, ConsumeRelease, Backend, BackendEvent, BackendExit,
         BackendClose, Broadcast
    <3>3. ASSUME NEW q \in Resumes, q # r, HandleResume(q) PROVE pc'[r] = pc[r]
      BY <1>0, <3>0, <3>3, ResumeKeeps
    <3>4. ASSUME NEW s \in Streams, Pump(s) \/ BreakStream(s)
          PROVE  pc'[r] = pc[r] \/ pc'[r] = "failed" \/ pc'[r] = "done"
      BY <1>0, <3>0, <3>4 DEF Pump, PumpFrame, PumpWriteFails, PumpEnds, BreakStream, StreamTypes
    <3>5. ASSUME Interrupt \/ UNCHANGED vars PROVE UNCHANGED pc
      BY <3>5 DEF Interrupt, vars
    <3>6. ASSUME Crash PROVE pc'[r] = "failed"
      BY <1>3, <3>0, <3>6 DEF Crash, Over
    <3> QED BY <1>3, <3>1, <3>2, <3>3, <3>4, <3>5, <3>6 DEF Next
  <2> QED BY <2>1 DEF Covered
<1> QED BY <1>1, <1>2, <1>3

LEMMA CoveredInvariant == Spec => [](\A r \in Resumes : Covered(r))
<1> DEFINE CoveredInv == \A r \in Resumes : Covered(r)
<1>1. Init => CoveredInv
  BY DEF Init, Covered, Streams
<1>2. LogInv /\ StreamInv /\ CoveredInv /\ [Next]_vars => CoveredInv'
  BY CoveredStep
<1> QED BY <1>1, <1>2, StreamInvariant, LogInvariant, PTL DEF Spec

\* A resume that found its session finishing under it has been sent every
\* stored event of that turn above the number it presented.
THEOREM ResumeIsComplete == Spec => []ResumeReplayComplete
<1>1. TypeOK /\ (\A r \in Resumes : Covered(r)) => ResumeReplayComplete
  <2> SUFFICES ASSUME TypeOK, NEW r \in Resumes, Covered(r), pc[r] = "recovered",
                      NEW e \in log, InOrder(e), e.turn = view[r].entry, e.seq > view[r].from
               PROVE  \E i \in DOMAIN out[r] : out[r][i] = e
    BY DEF ResumeReplayComplete
  <2> DEFINE q == out[r]
  <2>1. q \in Seq(Event)
    BY StreamTyped DEF StreamTypes
  <2>2. Has(q, e)
    BY DEF Covered
  <2> HIDE DEF q
  <2>3. \E i \in DOMAIN q : q[i] = e
    BY <2>1, <2>2, LenProperties DEF Has
  <2> QED BY <2>3 DEF q
<1>2. LogInv => TypeOK
  BY DEF LogInv
<1> QED BY <1>1, <1>2, CoveredInvariant, LogInvariant, PTL

-----------------------------------------------------------------------------
(* Overlaps: dropping by number loses nothing that is stored.              *)

\* A row is of a turn that is registered and not numbered beyond its counter.
Owned ==
    \A e \in log : /\ e.turn \in Turns /\ e.seq <= seq[e.turn]
                   /\ pc[e.turn] \notin {"idle", "exec", "install"}

\* Where a resume is before it writes, and before it is a watcher.
Asking == {"idle", "lookup", "respond", "replay"}
Alone == Asking \cup {"attach", "insert", "rereplay", "synth"}

\* Rows above n in their order, none that is in order left out.
InARow(q, n) ==
    /\ Ascending(q, n)
    /\ \A i \in 1..Len(q) : \A e \in log :
          InOrder(e) /\ n < e.seq /\ e.seq <= q[i].seq => \E k \in 1..i : q[k] = e

\* Whatever was sent bears a number that is accounted for.
Known(q) == \A i \in 1..Len(q) : Accounted(q[i].seq, log \cup failed)

\* A row above n that comes after one numbered as high or higher has come before.
NoneLate(q, n) ==
    \A i, j \in 1..Len(q) :
        i < j /\ InOrder(q[j]) /\ n < q[j].seq /\ q[j].seq <= q[i].seq
        => \E k \in 1..j - 1 : q[k] = q[j]

\* The row that waits to be broadcast to a resume is above everything it has
\* been sent, or has been sent.
NextIsNew(r, t) ==
    r \in watchers[t] /\ InOrder(pending[t]) /\ pending[t].seq > view[r].from
      /\ (\E i \in 1..Len(Delivered(r)) : Delivered(r)[i].seq >= pending[t].seq)
    => Has(Delivered(r), pending[t])

Overlap(r) ==
    /\ pc[r] \in Asking => out[r] = <<>>
    /\ pc[r] \in Alone => chan[r] = <<>>
    /\ pc[r] \in Alone \ Asking => InARow(out[r], view[r].from)
    /\ Known(Delivered(r))
    /\ NoneLate(Delivered(r), view[r].from)
    /\ \A t \in Turns : NextIsNew(r, t)

LEMMA OwnedStep ==
    ASSUME LogInv, StreamInv, Owned, [Next]_vars
    PROVE  Owned'
<1>0. StreamTypes /\ \A e \in log : e.seq \in Nat
  BY StreamTyped, RowNumbers DEF LogInv
<1>1. ASSUME NEW t \in Turns, Emits(t) PROVE Owned'
  <2>1. seq' = [seq EXCEPT ![t] = @ + 1]
    BY <1>1 DEF Emits, Emit
  <2>2. \A u \in Turns : seq[u] <= seq'[u] /\ seq[u] \in Nat /\ seq'[u] \in Nat
    BY <1>0, <2>1 DEF StreamTypes
  <2>3. \A u \in Turns : pc[u] \notin {"idle", "exec", "install"} => pc'[u] \notin {"idle", "exec", "install"}
    BY <1>0, <1>1 DEF Emits, Unheard, StreamTypes
  <2>4. ASSUME NEW e \in log PROVE e.turn \in Turns /\ e.seq <= seq'[e.turn]
                                   /\ pc'[e.turn] \notin {"idle", "exec", "install"}
    BY <1>0, <2>2, <2>3 DEF Owned
  <2>5. ASSUME NEW e \in log' \ log PROVE e.turn \in Turns /\ e.seq <= seq'[e.turn]
                                   /\ pc'[e.turn] \notin {"idle", "exec", "install"}
    BY <1>1, <2>2, EmittedRow DEF Emits, Unheard
  <2> QED BY <2>4, <2>5 DEF Owned
<1>2. ASSUME UNCHANGED log, \A t \in Turns : ~Emits(t) PROVE Owned'
  <2>1. ASSUME NEW t \in Turns, pc[t] \notin {"idle", "exec", "install"}
        PROVE  pc'[t] \notin {"idle", "exec", "install"} /\ seq'[t] = seq[t]
    <3>0. t \in Streams
      BY <1>0 DEF StreamTypes
    <3>1. ASSUME NEW u \in Turns, HandleStart(u)
          PROVE  seq'[t] = seq[t] /\ pc'[t] \notin {"idle", "exec", "install"}
      <4>1. CASE StartInstall(u)
        BY <1>0, <2>1, <3>0, <4>1 DEF StartInstall, StreamTypes
      <4>2. CASE StartEmit(u)
        BY <1>0, <1>2, <4>2, WhoEmits
      <4>3. CASE StartNew(u) \/ StartContinue(u) \/ StartExecute(u) \/ StartExecuteFails(u)
        BY <1>0, <2>1, <3>0, <4>3 DEF StartNew, StartContinue, StartExecute, StartExecuteFails,
           StreamTypes
      <4>4. CASE StartMark(u) \/ StartRespond(u) \/ StartRespondFails(u)
        BY <1>0, <2>1, <3>0, <4>4 DEF StartMark, StartRespond, StartRespondFails, Release, StreamTypes
      <4>5. CASE StartWatch(u) \/ StartConsumer(u)
        BY <1>0, <2>1, <3>0, <4>5 DEF StartWatch, StartConsumer, StreamTypes
      <4> QED BY <3>1, <4>1, <4>2, <4>3, <4>4, <4>5 DEF HandleStart
    <3>2. ASSUME NEW u \in Turns, ConsumeEvents(u) \/ Backend(u) \/ Broadcast(u)
          PROVE  UNCHANGED <<seq, pc>>
      <4>1. ~(ConsumeEvent(u) \/ ConsumeResult(u) \/ ConsumeClosed(u))
        BY <1>0, <1>2, WhoEmits
      <4> QED BY <3>2, <4>1 DEF ConsumeEvents, ConsumeFinish, SetFinished, CloseAllWatchers,
              ConsumeRelease, Release, Backend, BackendEvent, BackendExit, BackendClose, Broadcast
    <3>3. ASSUME NEW r \in Resumes, HandleResume(r) PROVE UNCHANGED seq /\ pc'[t] = pc[t]
      <4>1. t # r
        BY <1>0 DEF StreamTypes
      <4> QED BY <1>0, <3>0, <3>3, <4>1, ResumeKeeps
    <3>4. ASSUME NEW s \in Streams, Pump(s) \/ BreakStream(s)
          PROVE  UNCHANGED seq /\ (pc'[t] = pc[t] \/ pc'[t] = "failed" \/ pc'[t] = "done")
      BY <1>0, <3>0, <3>4 DEF Pump, PumpFrame, PumpWriteFails, PumpEnds, BreakStream, StreamTypes
    <3>5. ASSUME Interrupt \/ UNCHANGED vars PROVE UNCHANGED <<seq, pc>>
      BY <3>5 DEF Interrupt, vars
    <3>6. ASSUME Crash PROVE UNCHANGED seq /\ (pc'[t] = pc[t] \/ pc'[t] = "failed")
      BY <3>0, <3>6 DEF Crash
    <3> QED BY <2>1, <3>1, <3>2, <3>3, <3>4, <3>5, <3>6 DEF Next
  <2> QED BY <1>2, <2>1 DEF Owned
<1> QED BY <1>1, <1>2, EmitsOrKeeps

LEMMA ReplayInARow ==
    ASSUME LogInv, NEW n \in Nat
    PROVE  Replay(n) \in Seq(Event) /\ InARow(Replay(n), n)
<1> DEFINE q == Replay(n)
<1>1. /\ q \in Seq(Event) /\ Ascending(q, n)
      /\ \A e \in log : e.seq > n => \E i \in 1..Len(q) : q[i] = e
  BY ReplayIsStored DEF LogInv, Bookkeeping, Numbering
<1> HIDE DEF q
<1>2. ASSUME NEW i \in 1..Len(q), NEW e \in log, n < e.seq, e.seq <= q[i].seq
      PROVE  \E k \in 1..i : q[k] = e
  <2>1. Len(q) \in Nat /\ e.seq \in Nat /\ \A k \in 1..Len(q) : q[k].seq \in Nat
    BY <1>1, RowNumbers, LenProperties DEF Ascending
  <2>2. PICK k \in 1..Len(q) : q[k] = e
    BY <1>1, <1>2, <2>1
  <2>3. ~(i < k)
    BY <1>1, <1>2, <2>1, <2>2 DEF Ascending
  <2>4. k \in 1..i
    BY <2>1, <2>3
  <2> QED BY <2>2, <2>4
<1> QED BY <1>1, <1>2 DEF InARow, q

\* What a replay writes has no late row in it.
LEMMA InARowOrdered ==
    ASSUME LogInv, NEW q \in Seq(Event), NEW n \in Nat, InARow(q, n)
    PROVE  NoneLate(q, n) /\ Known(q)
<1>1. Len(q) \in Nat /\ \A i \in 1..Len(q) : q[i] \in log /\ q[i].seq \in Nat
  BY LenProperties, RowNumbers DEF InARow, Ascending
<1>2. Known(q)
  BY <1>1, RowNumbers DEF Known
<1>3. NoneLate(q, n)
  BY <1>1 DEF NoneLate, InARow, Ascending
<1> QED BY <1>2, <1>3

\* A beginning of a sequence without late rows has none.
LEMMA BeginningKeeps ==
    ASSUME NEW a \in Seq(Event), NEW b \in Seq(Event), NEW n \in Nat,
           NoneLate(a \o b, n), Known(a \o b)
    PROVE  NoneLate(a, n) /\ Known(a)
<1> DEFINE c == a \o b
           m == Len(a)
<1>1. /\ m \in Nat /\ Len(b) \in Nat /\ Len(c) = m + Len(b)
      /\ \A i \in 1..m : c[i] = a[i]
  BY WrittenAfter, LenProperties
<1>2. NoneLate(c, n) /\ Known(c)
  OBVIOUS
<1> HIDE DEF c
<1>3. \A i \in 1..m : i \in 1..Len(c)
  BY <1>1
<1>4. Known(a)
  BY <1>1, <1>2, <1>3 DEF Known
<1>5. ASSUME NEW i \in 1..m, NEW j \in 1..m, i < j, InOrder(a[j]), n < a[j].seq, a[j].seq <= a[i].seq
      PROVE  \E k \in 1..j - 1 : a[k] = a[j]
  <2>1. PICK k \in 1..j - 1 : c[k] = c[j]
    BY <1>1, <1>2, <1>3, <1>5 DEF NoneLate
  <2>2. k \in 1..m
    BY <1>1
  <2> QED BY <1>1, <2>1, <2>2
<1>6. NoneLate(a, n)
  BY <1>5 DEF NoneLate
<1> QED BY <1>4, <1>6

\* An event that is new, or not a row, or has come before, may be added.
LEMMA AppendKeeps ==
    ASSUME NEW q \in Seq(Event), NEW n \in Nat, NEW e \in Event,
           NoneLate(q, n), Known(q), Accounted(e.seq, log \cup failed),
           InOrder(e) /\ n < e.seq /\ (\E i \in 1..Len(q) : e.seq <= q[i].seq) => Has(q, e)
    PROVE  NoneLate(Append(q, e), n) /\ Known(Append(q, e))
<1> DEFINE c == Append(q, e)
           m == Len(q)
<1>1. /\ m \in Nat /\ Len(c) = m + 1 /\ c[m + 1] = e
      /\ \A i \in 1..m : c[i] = q[i]
  BY AppendProperties, LenProperties
<1> HIDE DEF c
<1>2. \A i \in 1..Len(c) : i = m + 1 \/ i \in 1..m
  BY <1>1
<1>3. Known(c)
  BY <1>1, <1>2 DEF Known
<1>4. ASSUME NEW i \in 1..Len(c), NEW j \in 1..Len(c),
             i < j, InOrder(c[j]), n < c[j].seq, c[j].seq <= c[i].seq
      PROVE  \E k \in 1..j - 1 : c[k] = c[j]
  <2>1. i \in 1..m
    BY <1>1, <1>2, <1>4
  <2>2. CASE j = m + 1
    <3>1. Has(q, e)
      BY <1>1, <1>4, <2>1, <2>2
    <3>2. PICK k \in 1..m : q[k] = e
      BY <3>1 DEF Has
    <3>3. k \in 1..j - 1
      BY <1>1, <2>2
    <3> QED BY <1>1, <2>2, <3>2, <3>3
  <2>3. CASE j \in 1..m
    <3>1. PICK k \in 1..j - 1 : q[k] = q[j]
      BY <1>1, <1>4, <2>1, <2>3 DEF NoneLate
    <3>2. k \in 1..m
      BY <1>1, <2>3
    <3> QED BY <1>1, <2>3, <3>1, <3>2
  <2> QED BY <1>2, <2>2, <2>3
<1>5. NoneLate(c, n)
  BY <1>4 DEF NoneLate
<1> QED BY <1>3, <1>5 DEF c

\* A second replay from a number the first one reached.
LEMMA ReplayTwice ==
    ASSUME LogInv, NEW a \in Seq(Event), NEW b \in Seq(Event), NEW n \in Nat, NEW l \in Nat,
           InARow(a, n), InARow(b, l)
    PROVE  NoneLate(a \o b, n) /\ Known(a \o b)
<1> DEFINE c == a \o b
           m == Len(a)
           p == Len(b)
<1>1. /\ m \in Nat /\ p \in Nat /\ Len(c) = m + p
      /\ \A i \in 1..m : c[i] = a[i]
      /\ \A i \in 1..p : c[m + i] = b[i]
  BY WrittenAfter, LenProperties
<1> HIDE DEF c
<1>2. \A i \in 1..Len(c) : i \in 1..m \/ (i - m \in 1..p /\ m + (i - m) = i)
  BY <1>1
<1>3. \A i \in 1..m : c[i] \in log
  BY <1>1 DEF InARow, Ascending
<1>4. \A i \in 1..Len(c) : i \notin 1..m => i - m \in 1..p /\ c[i] = b[i - m]
  <2> TAKE i \in 1..Len(c)
  <2> DEFINE k == i - m
  <2> HAVE i \notin 1..m
  <2>1. k \in 1..p /\ m + k = i
    BY <1>2
  <2> HIDE DEF k
  <2>2. c[i] = b[k]
    BY <1>1, <2>1
  <2> QED BY <2>1, <2>2 DEF k
<1>5. \A i \in 1..Len(c) : c[i] \in log
  BY <1>2, <1>3, <1>4 DEF InARow, Ascending
<1>a. Known(c)
  BY <1>5, RowNumbers DEF Known
<1>6. ASSUME NEW i \in 1..Len(c), NEW j \in 1..Len(c),
             i < j, InOrder(c[j]), n < c[j].seq, c[j].seq <= c[i].seq
      PROVE  \E k \in 1..j - 1 : c[k] = c[j]
  <2>1. CASE i \notin 1..m
    <3>1. j \notin 1..m
      BY <1>1, <1>6, <2>1
    <3>2. /\ i - m \in 1..p /\ c[i] = b[i - m] /\ j - m \in 1..p /\ c[j] = b[j - m]
          /\ i - m < j - m
      BY <1>1, <1>4, <1>6, <2>1, <3>1
    <3>3. c[i].seq < c[j].seq
      BY <3>2 DEF InARow, Ascending
    <3>4. c[i].seq \in Nat /\ c[j].seq \in Nat
      BY <1>5, RowNumbers
    <3> QED BY <1>6, <3>3, <3>4
  <2>2. CASE i \in 1..m
    <3>1. c[i] = a[i]
      BY <1>1, <2>2
    <3>2. c[j].seq <= a[i].seq
      BY <3>1, <1>6
    <3>3. PICK k \in 1..i : a[k] = c[j]
      BY <1>5, <1>6, <2>2, <3>2 DEF InARow
    <3>4. k \in 1..m /\ k \in 1..j - 1
      BY <1>1, <1>6, <2>2
    <3> QED BY <1>1, <3>3, <3>4
  <2> QED BY <2>1, <2>2
<1>7. NoneLate(c, n)
  BY <1>6 DEF NoneLate
<1> QED BY <1>a, <1>7 DEF c

\* A step that neither stores, nor broadcasts, nor moves this resume.
LEMMA OverlapKept ==
    ASSUME StreamTypes, NEW r \in Resumes, Overlap(r), UNCHANGED <<log, failed>>,
           view'[r].from = view[r].from, Delivered(r)' = Delivered(r),
           \/ pc'[r] = pc[r] /\ out'[r] = out[r] /\ chan'[r] = chan[r]
           \/ pc'[r] \notin Alone,
           \A t \in Turns : r \in watchers'[t] =>
               r \in watchers[t] /\ (pending'[t] = pending[t] \/ pending'[t] = NoEvent)
    PROVE  Overlap(r)'
<1>1. Known(Delivered(r))' /\ NoneLate(Delivered(r), view[r].from)'
  BY DEF Overlap, Known, NoneLate, InOrder
<1>2. (pc[r] \in Asking => out[r] = <<>>)' /\ (pc[r] \in Alone => chan[r] = <<>>)'
      /\ (pc[r] \in Alone \ Asking => InARow(out[r], view[r].from))'
  BY DEF Overlap, Alone, Asking, InARow, Ascending, InOrder
<1>3. ASSUME NEW t \in Turns PROVE NextIsNew(r, t)'
  <2>1. CASE pending'[t] = NoEvent
    <3>1. view[r].from \in Nat /\ NoEvent.seq = 0
      BY DEF StreamTypes, NoEvent
    <3>2. ~(NoEvent.seq > view'[r].from)
      BY <3>1
    <3> QED BY <2>1, <3>2 DEF NextIsNew
  <2>2. CASE pending'[t] # NoEvent
    <3>1. NextIsNew(r, t)
      BY DEF Overlap
    <3> QED BY <2>2, <3>1 DEF NextIsNew, Has, InOrder
  <2> QED BY <2>1, <2>2
<1> QED BY <1>1, <1>2, <1>3 DEF Overlap

\* While an event is stored: it is numbered above everything that was sent.
LEMMA OverlapEmits ==
    ASSUME LogInv, StreamInv, Owned, NEW r \in Resumes, Overlap(r), NEW t \in Turns, Emits(t)
    PROVE  Overlap(r)'
<1>0. /\ StreamTypes /\ r \in Streams /\ r # t /\ view[r].from \in Nat
      /\ Delivered(r) \in Seq(Event)
  <2>1. StreamTypes
    BY StreamTyped DEF LogInv
  <2>2. out[r] \in Seq(Event) /\ chan[r] \in Seq(Event)
    BY <2>1 DEF StreamTypes
  <2> QED BY <2>1, <2>2, ConcatProperties DEF StreamTypes, Delivered
<1> DEFINE D == Delivered(r)
<1>1. /\ UNCHANGED <<out, chan, view, watchers>> /\ pc'[r] = pc[r]
      /\ \E type \in EventTypes : Emit(t, type)
  BY <1>0 DEF Emits, Emit
<1>2. D' = D
  BY <1>1 DEF Delivered
<1>3. log \subseteq log' /\ failed \subseteq failed'
  BY EmittedRow
<1>4. \A e \in log' \ log :
         /\ e.turn = t /\ e = pending'[t] /\ e.seq \in Nat
         /\ \A n \in Nat : Accounted(n, log \cup failed) /\ e.seq <= n => Numbered(e.seq, failed')
  BY EmittedRow
<1>5. /\ Len(D) \in Nat
      /\ \A i \in 1..Len(D) : D[i].seq \in Nat /\ Accounted(D[i].seq, log \cup failed)
  <2>1. D \in Seq(Event)
    BY <1>0
  <2>2. Known(D)
    BY DEF Overlap
  <2> HIDE DEF D
  <2>3. Len(D) \in Nat /\ \A i \in 1..Len(D) : D[i] \in Event
    BY <2>1, LenProperties
  <2> QED BY <2>2, <2>3 DEF Event, Known
<1>6. Known(D)' /\ NoneLate(D, view[r].from)'
  <2>1. ASSUME NEW i \in 1..Len(D) PROVE Accounted(D[i].seq, log' \cup failed')
    <3> HIDE DEF D
    <3> QED BY <1>3, <1>5 DEF Accounted, Numbered
  <2>2. ASSUME NEW e \in log', ~Numbered(e.seq, failed'), e.seq \in Nat,
               Accounted(e.seq, log \cup failed)
        PROVE  InOrder(e)
    <3>1. e \in log
      BY <1>4, <2>2
    <3> QED BY <1>3, <2>2, <3>1 DEF InOrder, Numbered
  <2>3. NoneLate(D, view[r].from)
    BY DEF Overlap
  <2> HIDE DEF D
  <2>4. \A i \in 1..Len(D) : D[i] \in log' /\ ~Numbered(D[i].seq, failed') => InOrder(D[i])
    BY <1>5, <2>2
  <2> QED BY <1>1, <1>2, <2>1, <2>3, <2>4 DEF Known, NoneLate, InOrder
<1>7. /\ (pc[r] \in Asking => out[r] = <<>>)' /\ (pc[r] \in Alone => chan[r] = <<>>)'
      /\ (pc[r] \in Alone \ Asking => InARow(out[r], view[r].from))'
  <2>1. ASSUME pc[r] \in Alone \ Asking PROVE InARow(out[r], view[r].from)'
    <3> DEFINE q == out[r]
               n == view[r].from
    <3>1. InARow(q, n) /\ chan[r] = <<>> /\ q \in Seq(Event) /\ n \in Nat
      BY <1>0, <2>1 DEF Overlap, StreamTypes
    <3>2. \A i \in 1..Len(q) : q[i] \in log
      BY <3>1 DEF InARow, Ascending
    <3>3. q' = q /\ n' = n
      BY <1>1
    <3> HIDE DEF q, n
    <3>4. Ascending(q, n)'
      BY <1>3, <3>1, <3>3 DEF InARow, Ascending
    <3>5. ASSUME NEW i \in 1..Len(q), NEW e \in log', InOrder(e)', n < e.seq, e.seq <= q[i].seq
          PROVE  \E k \in 1..i : q[k] = e
      <4>1. q[i].seq \in Nat /\ Accounted(q[i].seq, log \cup failed)
        BY <3>2, RowNumbers
      <4>2. e \in log
        BY <1>4, <3>5, <4>1 DEF InOrder
      <4>3. InOrder(e)
        BY <1>3, <3>5, <4>2, OrderStays
      <4> QED BY <3>1, <3>5, <4>2, <4>3 DEF InARow
    <3>6. InARow(q, n)'
      BY <3>3, <3>4, <3>5 DEF InARow
    <3> QED BY <3>6 DEF q, n
  <2> QED BY <1>1, <2>1 DEF Overlap
<1>8. ASSUME NEW u \in Turns PROVE NextIsNew(r, u)'
  <2> SUFFICES ASSUME r \in watchers[u], InOrder(pending[u])', pending'[u].seq > view[r].from,
                      NEW i \in 1..Len(D), D[i].seq >= pending'[u].seq
               PROVE  Has(D, pending'[u])
    BY <1>1, <1>2 DEF NextIsNew, Has
  <2>1. PICK type \in EventTypes : Emit(t, type)
    BY <1>1
  <2>2. CASE u = t
    <3>1. /\ pending'[t] = [seq |-> seq[t] + 1, turn |-> t, type |-> type]
          /\ seq[t] \in Nat
      BY <1>0, <2>1 DEF Emit, StreamTypes
    <3>2. pending'[t] \notin log
      BY <3>1 DEF Owned
    <3>3. pending'[t] \in log'
      BY <2>2 DEF InOrder
    <3>4. D[i].seq \in Nat /\ Accounted(D[i].seq, log \cup failed)
      BY <1>5
    <3>5. pending'[t].seq <= D[i].seq
      BY <1>4, <2>2, <3>2, <3>3, <3>4
    <3>6. Numbered(pending'[t].seq, failed')
      BY <1>4, <3>2, <3>3, <3>4, <3>5
    <3> QED BY <2>2, <3>6 DEF InOrder
  <2>3. CASE u # t
    <3>1. pending'[u] = pending[u] /\ pending[u] \in Event
      BY <1>0, <2>1, <2>3 DEF Emit, StreamTypes
    <3>2. pending[u] # NoEvent
      <4>1. NoEvent.seq = 0
        BY DEF NoEvent
      <4> QED BY <3>1, <4>1, <1>0
    <3>3. pending[u].turn = u
      BY <3>2 DEF StreamInv, StreamOf
    <3>4. pending[u] \in log
      BY <2>3, <3>1, <3>3, <1>4 DEF InOrder
    <3>6. InOrder(pending[u])
      BY <1>3, <3>1, <3>4 DEF InOrder, Numbered
    <3>5. NextIsNew(r, u)
      BY DEF Overlap
    <3> QED BY <3>1, <3>5, <3>6, <1>1 DEF NextIsNew
  <2> QED BY <2>2, <2>3
<1> QED BY <1>6, <1>7, <1>8 DEF Overlap

LEMMA DeliveredType ==
    ASSUME StreamTypes, NEW s \in Streams
    PROVE  out[s] \in Seq(Event) /\ chan[s] \in Seq(Event) /\ Delivered(s) \in Seq(Event)
<1>1. out[s] \in Seq(Event) /\ chan[s] \in Seq(Event)
  BY DEF StreamTypes
<1> QED BY <1>1, ConcatProperties DEF Delivered

\* While it is broadcast: NextIsNew says that it may be added.
LEMMA OverlapBroadcast ==
    ASSUME LogInv, ChannelInv, StreamInv, NEW r \in Resumes, Overlap(r),
           NEW t \in Turns, Broadcast(t)
    PROVE  Overlap(r)'
<1>0. StreamTypes /\ r \in Streams /\ view[r].from \in Nat
  BY StreamTyped DEF LogInv, StreamTypes
<1>a. /\ pending' = [pending EXCEPT ![t] = NoEvent] /\ pending[t] # NoEvent
      /\ UNCHANGED <<log, failed, watchers, out, pc, view>>
      /\ chan'[r] = chan[r] \/ (r \in watchers[t] /\ chan'[r] = Append(chan[r], pending[t]))
  BY <1>0 DEF Broadcast
<1>b. \A u \in Turns : pending'[u] = pending[u] \/ pending'[u] = NoEvent
  BY <1>0, <1>a DEF StreamTypes
<1>1. CASE chan'[r] = chan[r]
  <2>1. Delivered(r)' = Delivered(r)
    BY <1>a, <1>1 DEF Delivered
  <2> QED BY <1>0, <1>a, <1>b, <1>1, <2>1, OverlapKept
<1>2. CASE r \in watchers[t] /\ chan'[r] = Append(chan[r], pending[t])
  <2> DEFINE e == pending[t]
             D == Delivered(r)
             n == view[r].from
  <2>1. pc[r] \notin Alone
    BY <1>2 DEF ChannelInv, Attached, Alone, Asking
  <2>2. e \in Event /\ D \in Seq(Event)
    BY <1>0, DeliveredType DEF StreamTypes
  <2>3. Delivered(r)' = Append(D, e)
    <3> DEFINE o == out[r]
               c == chan[r]
    <3>1. Delivered(r)' = o \o Append(c, e) /\ D = o \o c
      BY <1>a, <1>2 DEF Delivered
    <3>2. o \in Seq(Event) /\ c \in Seq(Event)
      BY <1>0, DeliveredType
    <3> HIDE DEF o, c, D, e
    <3>3. o \o Append(c, e) = Append(o \o c, e)
      BY <2>2, <3>2, AppendAtEnd
    <3> QED BY <3>1, <3>3
  <2>4. Accounted(e.seq, log \cup failed)
    <3>1. e.seq = seq[t]
      BY <1>a DEF StreamInv, StreamOf
    <3> QED BY <3>1 DEF LogInv, Bookkeeping, Numbering
  <2>5. NoneLate(D, n) /\ Known(D)
    BY DEF Overlap
  <2>6. ASSUME InOrder(e), n < e.seq, NEW i \in 1..Len(D), e.seq <= D[i].seq
        PROVE  Has(D, e)
    <3>1. NextIsNew(r, t)
      BY DEF Overlap
    <3>2. D[i].seq \in Nat /\ e.seq \in Nat
      <4> HIDE DEF D
      <4>1. D[i] \in Event
        BY <2>2, LenProperties
      <4> QED BY <2>2, <4>1 DEF Event
    <3>3. D[i].seq >= e.seq /\ e.seq > n
      BY <2>6, <3>2, <1>0
    <3> QED BY <1>2, <2>6, <3>1, <3>3 DEF NextIsNew
  <2>7. NoneLate(Append(D, e), n) /\ Known(Append(D, e))
    <3> HIDE DEF D, e
    <3>1. n \in Nat
      BY <1>0
    <3> HIDE DEF n
    <3> QED BY <2>2, <2>4, <2>5, <2>6, <3>1, AppendKeeps
  <2>8. Known(Delivered(r))' /\ NoneLate(Delivered(r), view[r].from)'
    <3>1. UNCHANGED <<log, failed, view>>
      BY <1>a
    <3> HIDE DEF D, e
    <3> QED BY <2>3, <2>7, <3>1 DEF Known, NoneLate, InOrder
  <2>9. ASSUME NEW u \in Turns PROVE NextIsNew(r, u)'
    <3>1. CASE u = t
      <4>1. pending'[u] = NoEvent /\ NoEvent.seq = 0
        BY <1>0, <1>a, <3>1 DEF StreamTypes, NoEvent
      <4>2. ~(pending'[u].seq > view'[r].from)
        BY <1>0, <1>a, <4>1
      <4> QED BY <4>2 DEF NextIsNew
    <3>2. CASE u # t
      <4>1. r \notin watchers[u]
        BY <1>2, <3>2 DEF ChannelInv
      <4> QED BY <1>a, <4>1 DEF NextIsNew
    <3> QED BY <3>1, <3>2
  <2> QED BY <1>a, <2>1, <2>8, <2>9 DEF Overlap, Alone
<1> QED BY <1>a, <1>1, <1>2

\* A stream whose channel is thrown away keeps what it was sent.
LEMMA OverlapCut ==
    ASSUME LogInv, NEW r \in Resumes, Overlap(r), UNCHANGED <<log, failed>>,
           view'[r] = view[r], out'[r] = out[r], chan'[r] = <<>>,
           pc'[r] = pc[r] \/ pc'[r] \notin Alone,
           \A t \in Turns : r \notin watchers'[t]
    PROVE  Overlap(r)'
<1>0. StreamTypes /\ r \in Streams /\ view[r].from \in Nat
  BY StreamTyped DEF LogInv, StreamTypes
<1> DEFINE o == out[r]
           c == chan[r]
           n == view[r].from
<1>1. o \in Seq(Event) /\ c \in Seq(Event) /\ n \in Nat
  BY <1>0, DeliveredType
<1>2. Delivered(r)' = o
  <2>1. Delivered(r)' = o \o <<>>
    BY DEF Delivered
  <2> HIDE DEF o
  <2> QED BY <1>1, <2>1, ConcatEmptySeq
<1>3. NoneLate(o, n) /\ Known(o)
  <2>1. NoneLate(o \o c, n) /\ Known(o \o c)
    BY DEF Overlap, Delivered
  <2> HIDE DEF o, c, n
  <2> QED BY <1>1, <2>1, BeginningKeeps
<1>4. Known(Delivered(r))' /\ NoneLate(Delivered(r), view[r].from)'
  <2> HIDE DEF o
  <2> QED BY <1>2, <1>3 DEF Known, NoneLate, InOrder
<1>5. \A t \in Turns : NextIsNew(r, t)'
  BY DEF NextIsNew
<1> QED BY <1>4, <1>5 DEF Overlap, Alone, InARow, Ascending, InOrder

\* What a resume writes itself: rows in a row, a second replay, an idle event.
LEMMA OverlapResume ==
    ASSUME LogInv, ChannelInv, StreamInv, NEW r \in Resumes, Overlap(r), HandleResume(r)
    PROVE  Overlap(r)'
<1>0. /\ StreamTypes /\ r \in Streams /\ view[r].from \in Nat /\ view[r].last \in Nat
      /\ out[r] \in Seq(Event)
  BY StreamTyped DEF LogInv, StreamTypes
<1>a. \A l : pc' = [pc EXCEPT ![r] = l] => pc'[r] = l
  BY <1>0 DEF StreamTypes
<1>b. \A q : out' = [out EXCEPT ![r] = q] => out'[r] = q
  BY <1>0 DEF StreamTypes
<1>c. UNCHANGED <<log, failed, pending, chan>>
  BY DEF HandleResume, ResumeSteps, ResumeInfo, ResumeLookup, ResumeRespond, ResumeReplay,
     ResumeAttach, ResumeInsert, ResumeRereplay, ResumeSynthIdle
<1>d. pc[r] \in Alone
  BY DEF HandleResume, ResumeSteps, ResumeInfo, ResumeLookup, ResumeRespond, ResumeReplay,
     ResumeAttach, ResumeInsert, ResumeRereplay, ResumeSynthIdle, Alone, Asking
<1>e. chan[r] = <<>> /\ \A t \in Turns : r \notin watchers[t]
  BY <1>d DEF Overlap, ChannelInv, Attached, Alone, Asking
<1>f. Delivered(r) = out[r] /\ (out'[r] \in Seq(Event) => Delivered(r)' = out'[r])
  <2> DEFINE o == out[r]
             p == out'[r]
  <2>1. Delivered(r) = o \o <<>> /\ Delivered(r)' = p \o <<>>
    BY <1>c, <1>e DEF Delivered
  <2>2. o \in Seq(Event)
    BY <1>0
  <2> HIDE DEF o, p
  <2>3. o \o <<>> = o
    BY <2>2, ConcatEmptySeq
  <2>4. p \in Seq(Event) => p \o <<>> = p
    BY ConcatEmptySeq
  <2>5. Delivered(r) = o /\ (p \in Seq(Event) => Delivered(r)' = p)
    BY <2>1, <2>3, <2>4
  <2> QED BY <2>5 DEF o, p
<1>1. CASE (\E since \in 0..MaxSince : ResumeInfo(r, since)) \/ ResumeLookup(r)
  <2>1. pc[r] \in Asking /\ pc'[r] \in Asking /\ UNCHANGED <<out, watchers>>
    BY <1>1, <1>a DEF ResumeInfo, ResumeLookup, Asking
  <2>2. out[r] = <<>> /\ Delivered(r) = <<>> /\ Delivered(r)' = <<>>
    BY <2>1, <1>c, <1>e DEF Overlap, Delivered
  <2>3. Known(Delivered(r))' /\ NoneLate(Delivered(r), view[r].from)'
    BY <2>2 DEF Known, NoneLate, InOrder
  <2>4. \A t \in Turns : NextIsNew(r, t)'
    BY <1>e, <2>1 DEF NextIsNew
  <2> QED BY <1>c, <1>e, <2>1, <2>2, <2>3, <2>4 DEF Overlap
<1>2. CASE ResumeRespond(r) \/ ResumeAttach(r)
  <2>1. UNCHANGED <<out, view, watchers>>
        /\ \/ pc[r] \in Asking /\ pc'[r] \in Asking
           \/ pc'[r] \notin Alone
           \/ pc[r] \in Alone \ Asking /\ pc'[r] \in Alone \ Asking
    BY <1>2, <1>a DEF ResumeRespond, ResumeAttach, Asking, Alone
  <2>2. UNCHANGED Delivered(r)
    BY <2>1, <1>c DEF Delivered
  <2>3. Known(Delivered(r))' /\ NoneLate(Delivered(r), view[r].from)'
    BY <1>c, <2>1, <2>2 DEF Overlap, Known, NoneLate, InOrder
  <2>4. \A t \in Turns : NextIsNew(r, t)'
    BY <1>e, <2>1 DEF NextIsNew
  <2>5. (pc[r] \in Alone \ Asking => InARow(out[r], view[r].from))'
    BY <1>c, <2>1 DEF Overlap, InARow, Ascending, InOrder
  <2> QED BY <1>c, <1>e, <2>1, <2>3, <2>4, <2>5 DEF Overlap, Alone
<1>3. CASE ResumeReplay(r)
  <2> DEFINE q == Replay(view[r].from)
             n == view[r].from
  <2>1. /\ UNCHANGED <<view, watchers>> /\ pc[r] \in Asking /\ pc'[r] \notin Asking
        /\ \/ out'[r] = out[r] /\ pc'[r] \notin Alone
           \/ out'[r] = out[r] \o q
    BY <1>3, <1>a, <1>b DEF ResumeReplay, Asking, Alone
  <2>2. CASE out'[r] = out[r] /\ pc'[r] \notin Alone
    BY <1>0, <1>c, <1>e, <1>f, <2>1, <2>2, OverlapKept
  <2>3. CASE out'[r] = out[r] \o q
    <3>1. q \in Seq(Event) /\ InARow(q, n)
      BY <1>0, ReplayInARow
    <3>2. out[r] = <<>>
      BY <2>1 DEF Overlap
    <3> HIDE DEF q
    <3>3. out'[r] = q
      BY <2>3, <3>1, <3>2, ConcatEmptySeq
    <3>4. Delivered(r)' = q
      BY <1>f, <3>1, <3>3
    <3>5. NoneLate(q, n) /\ Known(q)
      BY <1>0, <3>1, InARowOrdered
    <3>6. Known(Delivered(r))' /\ NoneLate(Delivered(r), view[r].from)'
      BY <1>c, <2>1, <3>4, <3>5 DEF Known, NoneLate, InOrder
    <3>7. InARow(out[r], view[r].from)'
      BY <1>c, <2>1, <3>1, <3>3 DEF InARow, Ascending, InOrder
    <3>8. \A t \in Turns : NextIsNew(r, t)'
      BY <1>e, <2>1 DEF NextIsNew
    <3> QED BY <1>c, <1>e, <2>1, <3>6, <3>7, <3>8 DEF Overlap
  <2> QED BY <2>1, <2>2, <2>3
<1>4. CASE ResumeInsert(r)
  <2> DEFINE q == out[r]
             n == view[r].from
  <2>1. UNCHANGED <<view, out>> /\ pc[r] = "insert" /\ pc'[r] \in {"rereplay", "pump"}
    BY <1>4, <1>a DEF ResumeInsert
  <2>2. InARow(q, n) /\ Delivered(r) = q /\ Delivered(r)' = q
    BY <1>0, <1>f, <2>1 DEF Overlap, Alone, Asking
  <2>3. Known(Delivered(r))' /\ NoneLate(Delivered(r), view[r].from)'
    BY <1>c, <2>1, <2>2 DEF Overlap, Known, NoneLate, InOrder
  <2>4. ASSUME NEW t \in Turns PROVE NextIsNew(r, t)'
    <3> SUFFICES ASSUME InOrder(pending[t]), pending[t].seq > n,
                        NEW i \in 1..Len(q), q[i].seq >= pending[t].seq
                 PROVE  Has(q, pending[t])
      BY <1>c, <2>1, <2>2 DEF NextIsNew, Has, InOrder
    <3> DEFINE e == pending[t]
    <3>1. e.seq \in Nat
      BY RowNumbers DEF InOrder
    <3> HIDE DEF q
    <3>2. q \in Seq(Event)
      BY <1>0 DEF q
    <3>3. q[i].seq \in Nat /\ Len(q) \in Nat
      <4>1. q[i] \in Event /\ Len(q) \in Nat
        BY <3>2, LenProperties
      <4> QED BY <4>1 DEF Event
    <3>4. n < e.seq /\ e.seq <= q[i].seq /\ n \in Nat
      BY <1>0, <3>1, <3>3
    <3> HIDE DEF e, n
    <3>5. e \in log /\ InOrder(e)
      BY DEF e, InOrder
    <3>6. PICK k \in 1..i : q[k] = e
      BY <2>2, <3>4, <3>5 DEF InARow
    <3>7. k \in 1..Len(q)
      BY <3>3
    <3> QED BY <3>6, <3>7 DEF Has, e
  <2>5. InARow(out[r], view[r].from)'
    BY <1>c, <2>1, <2>2 DEF InARow, Ascending, InOrder
  <2> QED BY <1>c, <1>e, <2>1, <2>3, <2>4, <2>5 DEF Overlap, Asking
<1>5. CASE ResumeRereplay(r)
  <2> DEFINE q == Replay(view[r].last)
             o == out[r]
             n == view[r].from
             l == view[r].last
  <2>1. /\ UNCHANGED <<view, watchers>> /\ pc[r] = "rereplay" /\ pc'[r] \notin Alone
        /\ \/ out'[r] = out[r]
           \/ out'[r] = o \o q
    BY <1>5, <1>a, <1>b DEF ResumeRereplay, Asking, Alone
  <2>2. CASE out'[r] = out[r]
    BY <1>0, <1>c, <1>e, <1>f, <2>1, <2>2, OverlapKept
  <2>3. CASE out'[r] = o \o q
    <3>1. q \in Seq(Event) /\ InARow(q, l)
      BY <1>0, ReplayInARow
    <3>2. o \in Seq(Event) /\ InARow(o, n) /\ n \in Nat /\ l \in Nat
      BY <1>0, <2>1 DEF Overlap, Alone, Asking
    <3> HIDE DEF q, o, n, l
    <3>3. NoneLate(o \o q, n) /\ Known(o \o q)
      BY <3>1, <3>2, ReplayTwice
    <3>4. o \o q \in Seq(Event)
      BY <3>1, <3>2, ConcatProperties
    <3>5. Delivered(r)' = o \o q
      BY <1>f, <2>3, <3>4
    <3>6. Known(Delivered(r))' /\ NoneLate(Delivered(r), view[r].from)'
      BY <1>c, <2>1, <3>3, <3>5 DEF Known, NoneLate, InOrder, n
    <3>7. \A t \in Turns : NextIsNew(r, t)'
      BY <1>e, <2>1 DEF NextIsNew
    <3> QED BY <1>c, <1>e, <2>1, <3>6, <3>7 DEF Overlap, Alone
  <2> QED BY <2>1, <2>2, <2>3
<1>6. CASE ResumeSynthIdle(r)
  <2> DEFINE o == out[r]
             n == view[r].from
             e == SynthIdle
  <2>1. /\ UNCHANGED <<view, watchers>> /\ pc[r] = "synth" /\ pc'[r] \notin Alone
        /\ out'[r] = out[r] \/ out'[r] = Append(o, e)
    BY <1>6, <1>a, <1>b DEF ResumeSynthIdle, Asking, Alone
  <2>2. CASE out'[r] = out[r]
    BY <1>0, <1>c, <1>e, <1>f, <2>1, <2>2, OverlapKept, SMTT(30)
  <2>3. CASE out'[r] = Append(o, e)
    <3>1. e \in Event /\ e.seq = 0 /\ Accounted(e.seq, log \cup failed)
      BY <1>0 DEF SynthIdle, Event, EventTypes, Accounted
    <3>2. ~InOrder(e)
      BY <3>1, RowNumbers DEF InOrder
    <3>3. o \in Seq(Event) /\ n \in Nat /\ NoneLate(o, n) /\ Known(o)
      BY <1>0, <1>f DEF Overlap
    <3> HIDE DEF o, e, n
    <3>4. NoneLate(Append(o, e), n) /\ Known(Append(o, e))
      BY <3>1, <3>2, <3>3, AppendKeeps
    <3>5. Append(o, e) \in Seq(Event)
      BY <3>1, <3>3, AppendProperties
    <3>6. Delivered(r)' = Append(o, e)
      BY <1>f, <2>3, <3>5
    <3>7. Known(Delivered(r))' /\ NoneLate(Delivered(r), view[r].from)'
      BY <1>c, <2>1, <3>4, <3>6 DEF Known, NoneLate, InOrder, n
    <3>8. \A t \in Turns : NextIsNew(r, t)'
      BY <1>e, <2>1 DEF NextIsNew
    <3> QED BY <1>c, <1>e, <2>1, <3>7, <3>8 DEF Overlap, Alone
  <2> QED BY <2>1, <2>2, <2>3
<1> QED BY <1>1, <1>2, <1>3, <1>4, <1>5, <1>6 DEF HandleResume, ResumeSteps

LEMMA OverlapStep ==
    ASSUME LogInv, ChannelInv, StreamInv, Owned, [Next]_vars, NEW r \in Resumes, Overlap(r)
    PROVE  Overlap(r)'
<1>0. StreamTypes /\ r \in Streams /\ r \notin Turns
  BY StreamTyped DEF LogInv, StreamTypes
<1>1. ASSUME NEW t \in Turns, Emits(t) PROVE Overlap(r)'
  BY <1>1, OverlapEmits
<1>2. ASSUME NEW t \in Turns, Broadcast(t) PROVE Overlap(r)'
  BY <1>2, OverlapBroadcast
<1>3. CASE HandleResume(r)
  BY <1>3, OverlapResume
<1>4. ASSUME \A t \in Turns : ~Emits(t) PROVE UNCHANGED <<log, failed>>
  BY <1>4, EmitsOrKeeps
<1>5. ASSUME UNCHANGED <<log, failed>>, pc'[r] = pc[r], view'[r] = view[r],
             out'[r] = out[r], chan'[r] = chan[r], UNCHANGED pending,
             \A t \in Turns : r \in watchers'[t] => r \in watchers[t]
      PROVE  Overlap(r)'
  <2>1. Delivered(r)' = Delivered(r)
    BY <1>5 DEF Delivered
  <2> QED BY <1>0, <1>5, <2>1, OverlapKept
<1>6. ASSUME NEW t \in Turns, HandleStart(t), \A u \in Turns : ~Emits(u) PROVE Overlap(r)'
  <2>1. ~StartEmit(t)
    BY <1>0, <1>6, WhoEmits
  <2>2. /\ pc'[r] = pc[r] /\ view'[r] = view[r] /\ UNCHANGED <<out, chan, pending>>
        /\ \A u \in Turns : r \in watchers'[u] => r \in watchers[u]
    <3>1. CASE StartWatch(t)
      BY <1>0, <3>1 DEF StartWatch, StreamTypes
    <3>2. CASE ~StartWatch(t)
      BY <1>0, <1>6, <2>1, <3>2 DEF HandleStart, StartNew, StartContinue, StartExecute,
         StartExecuteFails, StartInstall, StartMark, StartRespond, StartRespondFails, Release,
         StartConsumer, StreamTypes
    <3> QED BY <3>1, <3>2
  <2> QED BY <1>4, <1>5, <1>6, <2>2
<1>7. ASSUME NEW t \in Turns, ConsumeEvents(t) \/ Backend(t), \A u \in Turns : ~Emits(u)
      PROVE  Overlap(r)'
  <2>1. ~(ConsumeEvent(t) \/ ConsumeResult(t) \/ ConsumeClosed(t))
    BY <1>0, <1>7, WhoEmits
  <2>2. /\ UNCHANGED <<pc, view, out, chan, pending>>
        /\ \A u \in Turns : r \in watchers'[u] => r \in watchers[u]
    <3>1. CASE CloseAllWatchers(t)
      BY <1>0, <3>1 DEF CloseAllWatchers, StreamTypes
    <3>2. CASE ~CloseAllWatchers(t)
      BY <1>7, <2>1, <3>2 DEF ConsumeEvents, ConsumeFinish, SetFinished, ConsumeRelease, Release,
         Backend, BackendEvent, BackendExit, BackendClose
    <3> QED BY <3>1, <3>2
  <2> QED BY <1>4, <1>5, <1>7, <2>2
<1>8. ASSUME NEW q \in Resumes, q # r, HandleResume(q), \A u \in Turns : ~Emits(u)
      PROVE  Overlap(r)'
  <2>1. UNCHANGED <<chan, pending>> /\ out'[r] = out[r] /\ pc'[r] = pc[r] /\ view'[r] = view[r]
    <3>1. r \in Streams
      BY <1>0 DEF StreamTypes
    <3> QED BY <1>0, <1>8, <3>1, ResumeKeeps
  <2>2. \A u \in Turns : r \in watchers'[u] => r \in watchers[u]
    <3>1. CASE ResumeInsert(q)
      <4> DEFINE t == view[q].entry
      <4>1. t \in Turns
        BY <3>1 DEF ResumeInsert, LogInv, Bookkeeping, EntryFound
      <4>2. watchers' = watchers \/ watchers' = [watchers EXCEPT ![t] = @ \cup {q}]
        BY <3>1 DEF ResumeInsert
      <4>3. watchers = [u \in Turns |-> watchers[u]]
        BY <1>0 DEF StreamTypes
      <4> HIDE DEF t
      <4>4. \A u \in Turns : watchers'[u] \in {watchers[u], watchers[u] \cup {q}}
        BY <4>1, <4>2, <4>3
      <4> QED BY <1>8, <4>4
    <3>2. CASE ~ResumeInsert(q)
      BY <1>8, <3>2 DEF HandleResume, ResumeSteps, ResumeInfo, ResumeLookup, ResumeRespond,
         ResumeReplay, ResumeAttach, ResumeRereplay, ResumeSynthIdle
    <3> QED BY <3>1, <3>2
  <2> QED BY <1>4, <1>5, <1>8, <2>1, <2>2
<1>9. ASSUME NEW s \in Streams, Pump(s) \/ BreakStream(s), s # r, \A u \in Turns : ~Emits(u)
      PROVE  Overlap(r)'
  <2>1. /\ pc'[r] = pc[r] /\ view'[r] = view[r] /\ out'[r] = out[r] /\ chan'[r] = chan[r]
        /\ UNCHANGED pending /\ \A u \in Turns : r \in watchers'[u] => r \in watchers[u]
    BY <1>0, <1>9 DEF Pump, PumpFrame, PumpWriteFails, PumpEnds, RemoveWatcher, BreakStream, StreamTypes
  <2> QED BY <1>4, <1>5, <1>9, <2>1
<1>10. ASSUME Pump(r) \/ BreakStream(r), \A u \in Turns : ~Emits(u) PROVE Overlap(r)'
  <2>1. CASE PumpFrame(r)
    <3>1. /\ UNCHANGED <<pc, view, pending, watchers>> /\ pc[r] = "pump"
      BY <2>1 DEF PumpFrame
    <3>2. Delivered(r)' = Delivered(r)
      BY <1>0, <2>1, FrameMoves
    <3>3. pc'[r] \notin Alone
      BY <3>1 DEF Alone, Asking
    <3> QED BY <1>0, <1>4, <1>10, <3>1, <3>2, <3>3, OverlapKept
  <2>2. CASE PumpWriteFails(r)
    <3>1. /\ pc'[r] = "failed" /\ UNCHANGED <<view, out>> /\ chan'[r] = <<>>
          /\ \A t \in Turns : r \notin watchers'[t]
      BY <1>0, <2>2 DEF PumpWriteFails, RemoveWatcher, StreamTypes
    <3>2. pc'[r] \notin Alone
      BY <3>1 DEF Alone, Asking
    <3> QED BY <1>4, <1>10, <3>1, <3>2, OverlapCut
  <2>3. CASE PumpEnds(r)
    <3>1. /\ pc'[r] = "done" /\ UNCHANGED <<view, out, chan, pending>>
          /\ \A t \in Turns : r \notin watchers'[t]
      BY <1>0, <2>3 DEF PumpEnds, RemoveWatcher, StreamTypes
    <3>2. pc'[r] \notin Alone /\ Delivered(r)' = Delivered(r)
      BY <3>1 DEF Alone, Asking, Delivered
    <3> QED BY <1>0, <1>4, <1>10, <3>1, <3>2, OverlapKept
  <2>4. CASE BreakStream(r)
    BY <1>4, <1>5, <1>10, <2>4 DEF BreakStream
  <2> QED BY <1>10, <2>1, <2>2, <2>3, <2>4 DEF Pump
<1>11. ASSUME Interrupt \/ UNCHANGED vars, \A u \in Turns : ~Emits(u) PROVE Overlap(r)'
  <2>1. UNCHANGED <<pc, view, out, chan, pending, watchers>>
    BY <1>11 DEF Interrupt, vars
  <2> QED BY <1>4, <1>5, <1>11, <2>1
<1>12. ASSUME Crash, \A u \in Turns : ~Emits(u) PROVE Overlap(r)'
  <2>1. /\ UNCHANGED <<view, out>> /\ chan'[r] = <<>>
        /\ pc'[r] = pc[r] \/ pc'[r] = "failed"
        /\ \A t \in Turns : watchers'[t] = {}
    BY <1>0, <1>12 DEF Crash
  <2>2. "failed" \notin Alone
    BY DEF Alone, Asking
  <2> QED BY <1>4, <1>12, <2>1, <2>2, OverlapCut
<1> QED BY <1>1, <1>2, <1>3, <1>6, <1>7, <1>8, <1>9, <1>10, <1>11, <1>12 DEF Next

OverlapInv == Owned /\ \A r \in Resumes : Overlap(r)

LEMMA OverlapInvariant == Spec => []OverlapInv
<1>1. Init => OverlapInv
  <2> SUFFICES ASSUME Init PROVE OverlapInv
    OBVIOUS
  <2>1. Owned
    BY DEF Init, Owned
  <2>2. ASSUME NEW r \in Resumes PROVE Overlap(r)
    <3>1. /\ out[r] = <<>> /\ chan[r] = <<>> /\ pc[r] = "idle" /\ \A t \in Turns : watchers[t] = {}
      BY DEF Init, Streams
    <3>2. Delivered(r) = <<>>
      BY <3>1 DEF Delivered
    <3>3. Known(Delivered(r)) /\ NoneLate(Delivered(r), view[r].from)
      BY <3>2 DEF Known, NoneLate
    <3> QED BY <3>1, <3>3 DEF Overlap, NextIsNew, Asking
  <2> QED BY <2>1, <2>2 DEF OverlapInv
<1>2. LogInv /\ ChannelInv /\ StreamInv /\ OverlapInv /\ [Next]_vars => OverlapInv'
  BY OwnedStep, OverlapStep DEF OverlapInv
<1> QED BY <1>1, <1>2, StreamInvariant, ChannelInvariant, LogInvariant, PTL DEF Spec

\* Dropping what is numbered no higher than something shown loses no row the
\* browser did not have when it asked, however many turns emit at once.
THEOREM DedupeIsSafe == Spec => []DedupeLosesNothing
<1>1. TypeOK /\ OverlapInv => DedupeLosesNothing
  <2> SUFFICES ASSUME TypeOK, NEW r \in Resumes, Overlap(r)
               PROVE  \A i, j \in DOMAIN Delivered(r) :
                         /\ i < j
                         /\ InOrder(Delivered(r)[j])
                         /\ view[r].from < Delivered(r)[j].seq
                         /\ Delivered(r)[j].seq <= Delivered(r)[i].seq
                         => \E k \in 1..j - 1 : Delivered(r)[k] = Delivered(r)[j]
    BY DEF DedupeLosesNothing, OverlapInv
  <2> DEFINE D == Delivered(r)
  <2>1. D \in Seq(Event)
    BY StreamTyped, DeliveredType DEF Streams
  <2>2. NoneLate(D, view[r].from)
    BY DEF Overlap
  <2> HIDE DEF D
  <2>3. DOMAIN D = 1..Len(D)
    BY <2>1, LenProperties
  <2>4. \A i, j \in DOMAIN D :
            i < j /\ InOrder(D[j]) /\ view[r].from < D[j].seq /\ D[j].seq <= D[i].seq
            => \E k \in 1..j - 1 : D[k] = D[j]
    BY <2>2, <2>3 DEF NoneLate
  <2> QED BY <2>4 DEF D
<1>2. LogInv => TypeOK
  BY DEF LogInv
<1> QED BY <1>1, <1>2, OverlapInvariant, LogInvariant, PTL

-----------------------------------------------------------------------------
(* What is lost.                                                           *)

\* A turn that has begun to emit has a backend, and is the one the session map
\* names or has been cancelled.
Named(t) ==
    /\ pc[t] \notin {"idle", "exec", "failed"} \/ cpc[t] # "none" => backend[t] # "none"
    /\ backend[t] # "none" /\ pc[t] # "install" => sessions = t \/ t \in cancelled
    /\ pc[t] \in {"idle", "exec"} => backend[t] = "none"

\* emit ignores the error of AppendEvent.  Every event of a turn is a row, or its
\* number was taken, or its transaction failed for a reason of its own: nothing
\* goes missing in another way.  A number is taken only where two turns overlap:
\* it is that of a row of another turn, and one of the two has been cancelled by
\* then, as a takeover cancels the turn it finds registered.
LossNeedsTakeover ==
    /\ \A t \in Turns : \A n \in view[t].from + 1..seq[t] :
           \E e \in log \cup lost \cup failed : e.turn = t /\ e.seq = n
    /\ \A e \in lost : \E f \in log : /\ f.seq = e.seq /\ f.turn # e.turn
                                      /\ f.turn \in cancelled \/ e.turn \in cancelled

\* The first part for one turn; before its entry is registered it has numbered
\* nothing.
Recorded(t) ==
    /\ pc[t] \in {"idle", "exec", "install"} => seq[t] = 0
    /\ \A n \in view[t].from + 1..seq[t] :
           \E e \in log \cup lost \cup failed : e.turn = t /\ e.seq = n

\* Such a turn goes on having a backend, and stays cancelled once it is.
Kept(t) ==
    backend[t] # "none" /\ pc[t] # "install"
    => /\ backend'[t] # "none" /\ pc'[t] # "install"
       /\ t \in cancelled => t \in cancelled'

LossInv ==
    /\ \A t \in Turns : Named(t) /\ Recorded(t)
    /\ \A e \in log \cup lost : /\ e.turn \in Turns
                                /\ backend[e.turn] # "none" /\ pc[e.turn] # "install"
    /\ LossNeedsTakeover

\* No step undoes what is said of each turn.
LEMMA NamedStep ==
    ASSUME TypeOK, StreamInv, \A t \in Turns : Named(t), [Next]_vars
    PROVE  \A t \in Turns : Named(t)' /\ Kept(t)
<1>0. /\ StreamTypes /\ backend \in [Turns -> {"none", "running", "exited", "closed"}]
      /\ cancelled \subseteq Turns
  BY StreamTyped DEF TypeOK
<1>1. ASSUME NEW u \in Turns, cpc'[u] = cpc[u], backend'[u] = backend[u],
             pc'[u] = pc[u] \/ (pc[u] \notin {"idle", "exec", "install", "failed"}
                                /\ pc'[u] \notin {"idle", "exec", "install"}),
             sessions' = sessions \/ (sessions' = NoTurn /\ sessions \in cancelled'),
             cancelled \subseteq cancelled'
      PROVE  Named(u)' /\ Kept(u)
  BY <1>1 DEF Named, Kept
<1>2. ASSUME NEW t \in Turns, HandleStart(t), NEW u \in Turns PROVE Named(u)' /\ Kept(u)
  <2>1. CASE StartExecute(t)
    BY <1>0, <1>2, <2>1 DEF StartExecute, Named, Kept, StreamTypes
  <2>2. CASE StartNew(t) \/ StartContinue(t) \/ StartExecuteFails(t)
    <3>1. /\ pc[t] \in {"idle", "exec"} /\ pc'[t] \in {"exec", "failed"}
          /\ \A v \in Turns \ {t} : pc'[v] = pc[v]
          /\ UNCHANGED <<cpc, backend, sessions, cancelled>>
      BY <1>0, <2>2 DEF StartNew, StartContinue, StartExecuteFails, StreamTypes
    <3>2. cpc[t] = "none"
      BY <3>1 DEF StreamInv, StreamOf
    <3> QED BY <1>2, <3>1, <3>2 DEF Named, Kept
  <2>3. CASE StartInstall(t)
    <3>1. /\ pc[t] = "install" /\ pc'[t] = "mark" /\ \A v \in Turns \ {t} : pc'[v] = pc[v]
          /\ UNCHANGED <<cpc, backend>> /\ sessions' = t
          /\ \A v \in Turns : v \in cancelled \/ (v = sessions /\ v # NoTurn) => v \in cancelled'
      BY <1>0, <2>3 DEF StartInstall, StreamTypes
    <3>2. NoTurn \notin Turns
      BY ConstantsAssumption
    <3> QED BY <1>2, <3>1, <3>2 DEF Named, Kept
  <2>4. CASE StartMark(t) \/ StartRespond(t) \/ StartWatch(t) \/ StartEmit(t)
    <3>1. UNCHANGED <<cpc, backend, sessions, cancelled>>
      BY <2>4 DEF StartMark, StartRespond, StartWatch, StartEmit, Emit
    <3>2. /\ pc[t] \notin {"idle", "exec", "install", "failed"}
          /\ \E l : pc' = [pc EXCEPT ![t] = l] /\ l \notin {"idle", "exec", "install"}
      BY <2>4 DEF StartMark, StartRespond, StartWatch, StartEmit
    <3>3. /\ pc'[t] \notin {"idle", "exec", "install"}
          /\ \A v \in Turns \ {t} : pc'[v] = pc[v]
      BY <1>0, <3>2 DEF StreamTypes
    <3> QED BY <1>1, <1>2, <3>1, <3>2, <3>3
  <2>5. CASE StartRespondFails(t)
    <3>1. /\ pc[t] = "respond" /\ pc'[t] = "failed"
          /\ \A v \in Turns \ {t} : pc'[v] = pc[v]
          /\ UNCHANGED <<cpc, backend>> /\ cancelled' = cancelled \cup {t}
          /\ sessions' = sessions \/ (sessions' = NoTurn /\ sessions = t)
      BY <1>0, <2>5 DEF StartRespondFails, Release, StreamTypes
    <3> QED BY <1>1, <1>2, <3>1
  <2>6. CASE StartConsumer(t)
    <3>1. /\ pc[t] = "spawn" /\ pc'[t] = "pump" /\ cpc'[t] = "loop"
          /\ \A v \in Turns \ {t} : pc'[v] = pc[v] /\ cpc'[v] = cpc[v]
          /\ UNCHANGED <<backend, sessions, cancelled>>
      BY <1>0, <2>6 DEF StartConsumer, StreamTypes
    <3> QED BY <1>2, <3>1 DEF Named, Kept
  <2> QED BY <1>2, <2>1, <2>2, <2>3, <2>4, <2>5, <2>6 DEF HandleStart
<1>3. ASSUME NEW t \in Turns, ConsumeEvents(t), NEW u \in Turns PROVE Named(u)' /\ Kept(u)
  <2>1. /\ cpc[t] # "none" /\ cpc' = [cpc EXCEPT ![t] = cpc'[t]]
        /\ UNCHANGED <<pc, backend>>
    <3>1. CASE ConsumeEvent(t) \/ ConsumeResult(t) \/ ConsumeClosed(t)
      BY <1>0, <3>1 DEF ConsumeEvent, ConsumeResult, ConsumeClosed, AtLoop, Emit, StreamTypes
    <3>2. CASE ~(ConsumeEvent(t) \/ ConsumeResult(t) \/ ConsumeClosed(t))
      BY <1>0, <1>3, <3>2 DEF ConsumeEvents, ConsumeFinish, SetFinished, CloseAllWatchers,
         ConsumeRelease, Release, StreamTypes
    <3> QED BY <3>1, <3>2
  <2>2. \/ UNCHANGED <<sessions, cancelled>>
        \/ Release(t)
    BY <1>3 DEF ConsumeEvents, ConsumeEvent, ConsumeResult, ConsumeFinish, ConsumeClosed, Emit,
                SetFinished, CloseAllWatchers, ConsumeRelease
  <2>3. /\ sessions' = sessions \/ (sessions' = NoTurn /\ sessions \in cancelled')
        /\ cancelled \subseteq cancelled'
    BY <2>2 DEF Release
  <2>4. cpc[u] = "none" => cpc'[u] = "none"
    BY <1>0, <1>3, <2>1 DEF StreamTypes
  <2> QED BY <1>3, <2>1, <2>3, <2>4 DEF Named, Kept
<1>4. ASSUME NEW t \in Turns, Backend(t) \/ Broadcast(t), NEW u \in Turns PROVE Named(u)' /\ Kept(u)
  <2>1. /\ UNCHANGED <<pc, cpc, sessions, cancelled>>
        /\ backend' = backend \/ (backend[t] # "none" /\ \E l \in {"exited", "closed"} :
                                                           backend' = [backend EXCEPT ![t] = l])
    BY <1>4 DEF Backend, BackendEvent, BackendExit, BackendClose, Broadcast
  <2>2. backend'[u] = "none" <=> backend[u] = "none"
    BY <1>0, <1>4, <2>1
  <2> QED BY <1>4, <2>1, <2>2 DEF Named, Kept
<1>5. ASSUME NEW r \in Resumes, HandleResume(r), NEW u \in Turns PROVE Named(u)' /\ Kept(u)
  <2>1. UNCHANGED <<sessions, cancelled, backend, cpc>>
    BY <1>5 DEF HandleResume, ResumeSteps, ResumeInfo, ResumeLookup, ResumeRespond,
                ResumeReplay, ResumeAttach, ResumeInsert, ResumeRereplay, ResumeSynthIdle
  <2>2. u \in Streams /\ u # r
    BY <1>0 DEF StreamTypes
  <2>3. pc'[u] = pc[u]
    BY <1>0, <1>5, <2>2, ResumeKeeps
  <2> QED BY <1>1, <1>5, <2>1, <2>3
<1>6. ASSUME NEW q \in Streams, Pump(q) \/ BreakStream(q), NEW u \in Turns PROVE Named(u)' /\ Kept(u)
  <2>1. /\ UNCHANGED <<sessions, cancelled, backend, cpc>>
        /\ pc' = pc \/ (pc[q] = "pump" /\ \E l \in {"failed", "done"} : pc' = [pc EXCEPT ![q] = l])
    BY <1>6 DEF Pump, PumpFrame, PumpWriteFails, PumpEnds, BreakStream
  <2>2. pc'[u] = pc[u] \/ (pc[u] = "pump" /\ pc'[u] \in {"failed", "done"})
    BY <1>0, <1>6, <2>1 DEF StreamTypes
  <2> QED BY <1>1, <1>6, <2>1, <2>2
<1>7. ASSUME Interrupt \/ UNCHANGED vars, NEW u \in Turns PROVE Named(u)' /\ Kept(u)
  <2>1. UNCHANGED <<sessions, backend, cpc, pc>> /\ cancelled \subseteq cancelled'
    BY <1>7 DEF Interrupt, vars
  <2> QED BY <1>1, <1>7, <2>1
<1>8. ASSUME Crash, NEW u \in Turns PROVE Named(u)' /\ Kept(u)
  <2>1. /\ backend'[u] = (IF backend[u] = "none" THEN "none" ELSE "closed")
        /\ backend[u] # "none" => u \in cancelled'
        /\ cpc'[u] = (IF cpc[u] = "none" THEN "none" ELSE "done")
        /\ pc'[u] = (IF pc[u] \in Over THEN pc[u] ELSE "failed")
    BY <1>0, <1>8 DEF Crash, StreamTypes
  <2> QED BY <2>1 DEF Named, Kept, Over
<1> QED BY <1>2, <1>3, <1>4, <1>5, <1>6, <1>7, <1>8 DEF Next

\* What an emitting turn numbers is kept track of.
LEMMA EmitRecords ==
    ASSUME LogInv, NEW u \in Turns, Emits(u)
    PROVE  /\ seq' = [seq EXCEPT ![u] = @ + 1]
           /\ log \cup lost \cup failed \subseteq log' \cup lost' \cup failed'
           /\ \E e \in log' \cup lost' \cup failed' : e.turn = u /\ e.seq = seq[u] + 1
<1>1. PICK type \in EventTypes : Emit(u, type)
  BY DEF Emits
<1> DEFINE f == [seq |-> seq[u] + 1, turn |-> u, type |-> type]
<1>2. seq' = [seq EXCEPT ![u] = @ + 1] /\ AppendEvent(f) /\ f.turn = u /\ f.seq = seq[u] + 1
  BY <1>1 DEF Emit
<1> HIDE DEF f
<1>3. /\ log \cup lost \cup failed \subseteq log' \cup lost' \cup failed'
      /\ f \in log' \cup lost' \cup failed'
  BY <1>2 DEF AppendEvent
<1> QED BY <1>2, <1>3

LEMMA RecordedStep ==
    ASSUME LogInv, StreamInv, NEW t \in Turns, Recorded(t), [Next]_vars
    PROVE  Recorded(t)'
<1>0. StreamTypes /\ t \in Streams /\ view[t].from \in Nat /\ seq[t] \in Nat
  BY StreamTyped DEF LogInv, StreamTypes
<1>1. ASSUME NEW u \in Turns, Emits(u) PROVE Recorded(t)'
  <2>1. /\ seq' = [seq EXCEPT ![u] = @ + 1] /\ UNCHANGED view
        /\ log \cup lost \cup failed \subseteq log' \cup lost' \cup failed'
        /\ \E e \in log' \cup lost' \cup failed' : e.turn = u /\ e.seq = seq[u] + 1
    BY <1>1, EmitRecords DEF Emits
  <2>2. CASE u = t
    <3>1. pc'[t] \notin {"idle", "exec", "install"}
      BY <1>1, <2>2 DEF Emits, Unheard
    <3>2. seq'[t] = seq[t] + 1
      BY <1>0, <2>1, <2>2 DEF StreamTypes
    <3>3. ASSUME NEW n \in view[t].from + 1..seq[t] + 1
          PROVE  \E e \in log' \cup lost' \cup failed' : e.turn = t /\ e.seq = n
      <4>1. CASE n = seq[t] + 1
        BY <2>1, <2>2, <4>1
      <4>2. CASE n # seq[t] + 1
        <5>1. n \in view[t].from + 1..seq[t]
          BY <1>0, <4>2
        <5>2. PICK e \in log \cup lost \cup failed : e.turn = t /\ e.seq = n
          BY <5>1 DEF Recorded
        <5> QED BY <2>1, <5>2
      <4> QED BY <4>1, <4>2
    <3> QED BY <2>1, <3>1, <3>2, <3>3 DEF Recorded
  <2>3. CASE u # t
    <3>1. pc'[t] = pc[t] /\ seq'[t] = seq[t]
      BY <1>0, <1>1, <2>1, <2>3 DEF Emits, StreamTypes
    <3> QED BY <2>1, <3>1 DEF Recorded
  <2> QED BY <2>2, <2>3
<1>2. ASSUME UNCHANGED <<log, lost, failed>>, seq'[t] = seq[t], view'[t] = view[t],
             pc[t] \notin {"idle", "exec", "install"} => pc'[t] \notin {"idle", "exec", "install"}
      PROVE  Recorded(t)'
  BY <1>2 DEF Recorded
<1>3. ASSUME UNCHANGED <<log, lost, failed>>, \A u \in Turns : ~Emits(u) PROVE Recorded(t)'
  <2>1. CASE StartNew(t) \/ StartContinue(t)
    <3>1. pc[t] = "idle" /\ seq' = seq /\ \E cont \in BOOLEAN, from \in Nat :
                                view' = [view EXCEPT ![t] = StartLocals(cont, from)]
      BY <2>1 DEF StartNew, StartContinue, LogInv, TypeOK
    <3>2. seq[t] = 0
      BY <3>1 DEF Recorded
    <3>3. PICK from \in Nat : view'[t].from = from
      BY <1>0, <3>1 DEF StartLocals, StreamTypes
    <3>4. from + 1..0 = {}
      BY <3>3
    <3> QED BY <3>1, <3>2, <3>3, <3>4 DEF Recorded
  <2>2. CASE StartInstall(t)
    <3>1. seq'[t] = view[t].from /\ view' = view /\ pc'[t] = "mark"
      BY <1>0, <2>2 DEF StartInstall, StreamTypes
    <3>2. view[t].from + 1..view[t].from = {}
      BY <1>0
    <3> QED BY <3>1, <3>2 DEF Recorded
  <2>3. ASSUME NEW u \in Turns, HandleStart(u), ~(StartNew(t) \/ StartContinue(t) \/ StartInstall(t))
        PROVE  Recorded(t)'
    <3>0. ~StartEmit(u)
      BY <1>0, <1>3, WhoEmits
    <3>1. CASE StartNew(u) \/ StartContinue(u)
      <4>1. u # t
        BY <2>3, <3>1
      <4>2. seq' = seq /\ pc'[t] = pc[t] /\ view'[t] = view[t]
        BY <1>0, <3>1, <4>1 DEF StartNew, StartContinue, StreamTypes
      <4> QED BY <1>2, <1>3, <4>2
    <3>2. CASE StartInstall(u)
      <4>1. u # t
        BY <2>3, <3>2
      <4>2. seq'[t] = seq[t] /\ pc'[t] = pc[t] /\ view' = view
        BY <1>0, <3>2, <4>1 DEF StartInstall, StreamTypes
      <4> QED BY <1>2, <1>3, <4>2
    <3>3. CASE StartExecute(u) \/ StartExecuteFails(u)
      <4>1. seq' = seq /\ view' = view
            /\ (pc'[t] = pc[t] \/ (pc[t] = "exec" /\ pc'[t] \in {"install", "failed"}))
        BY <1>0, <3>3 DEF StartExecute, StartExecuteFails, StreamTypes
      <4> QED BY <1>2, <1>3, <4>1
    <3>4. CASE StartMark(u) \/ StartRespond(u) \/ StartRespondFails(u) \/ StartWatch(u)
               \/ StartConsumer(u)
      <4>1. seq' = seq /\ view' = view
        BY <3>4 DEF StartMark, StartRespond, StartRespondFails, Release, StartWatch, StartConsumer
      <4>2. pc[u] \in {"mark", "respond", "watch", "spawn"}
            /\ \E l \in StartPCs \ {"idle", "exec", "install"} : pc' = [pc EXCEPT ![u] = l]
        BY <3>4 DEF StartMark, StartRespond, StartRespondFails, StartWatch, StartConsumer, StartPCs
      <4>3. pc[t] \notin {"idle", "exec", "install"} => pc'[t] \notin {"idle", "exec", "install"}
        BY <1>0, <4>2 DEF StreamTypes
      <4> QED BY <1>2, <1>3, <4>1, <4>3
    <3> QED BY <2>3, <3>0, <3>1, <3>2, <3>3, <3>4 DEF HandleStart
  <2>4. ASSUME NEW u \in Turns, ConsumeEvents(u) \/ Backend(u) \/ Broadcast(u)
        PROVE  Recorded(t)'
    <3>1. ~(ConsumeEvent(u) \/ ConsumeResult(u) \/ ConsumeClosed(u))
      BY <1>0, <1>3, WhoEmits
    <3>2. UNCHANGED <<seq, pc, view>>
      BY <2>4, <3>1 DEF ConsumeEvents, ConsumeFinish, SetFinished, CloseAllWatchers,
         ConsumeRelease, Release, Backend, BackendEvent, BackendExit, BackendClose, Broadcast
    <3> QED BY <1>2, <1>3, <3>2
  <2>5. ASSUME NEW r \in Resumes, HandleResume(r) PROVE Recorded(t)'
    <3>1. t # r
      BY <1>0 DEF StreamTypes
    <3>2. seq' = seq /\ pc'[t] = pc[t] /\ view'[t] = view[t]
      BY <1>0, <2>5, <3>1, ResumeKeeps
    <3> QED BY <1>2, <1>3, <3>2
  <2>6. ASSUME NEW s \in Streams, Pump(s) \/ BreakStream(s) PROVE Recorded(t)'
    <3>1. /\ seq' = seq /\ view' = view
          /\ pc'[t] = pc[t] \/ pc'[t] = "failed" \/ pc'[t] = "done"
      BY <1>0, <2>6 DEF Pump, PumpFrame, PumpWriteFails, PumpEnds, BreakStream, StreamTypes
    <3> QED BY <1>2, <1>3, <3>1
  <2>7. CASE Interrupt \/ UNCHANGED vars
    BY <1>2, <1>3, <2>7 DEF Interrupt, vars
  <2>8. CASE Crash
    <3>1. seq' = seq /\ view' = view /\ (pc'[t] = pc[t] \/ pc'[t] = "failed")
      BY <1>0, <2>8 DEF Crash
    <3> QED BY <1>2, <1>3, <3>1
  <2> QED BY <2>1, <2>2, <2>3, <2>4, <2>5, <2>6, <2>7, <2>8 DEF Next
<1> QED BY <1>1, <1>3, EmitsOrKeeps

\* A refused event collides with a row the emitting turn's counter had not reached.
LEMMA LossStep ==
    ASSUME LogInv, StreamInv, Owned, LossInv, [Next]_vars
    PROVE  LossInv'
<1>0. StreamTypes /\ log \subseteq Event /\ lost \subseteq Event
  BY StreamTyped DEF LogInv, TypeOK
<1>1. \A t \in Turns : Named(t)' /\ Kept(t)
  BY NamedStep DEF LogInv, LossInv
<1>a. \A t \in Turns : Recorded(t)'
  BY RecordedStep DEF LossInv
<1>2. ASSUME NEW e \in log \cup lost
      PROVE  e.turn \in Turns /\ backend'[e.turn] # "none" /\ pc'[e.turn] # "install"
  BY <1>1 DEF LossInv, Kept
<1>3. ASSUME NEW e \in lost
      PROVE  \E f \in log : /\ f.seq = e.seq /\ f.turn # e.turn
                            /\ f.turn \in cancelled' \/ e.turn \in cancelled'
  <2>1. PICK f \in log : /\ f.seq = e.seq /\ f.turn # e.turn
                         /\ f.turn \in cancelled \/ e.turn \in cancelled
    BY DEF LossInv, LossNeedsTakeover
  <2>2. f.turn \in cancelled' \/ e.turn \in cancelled'
    BY <1>1, <2>1 DEF LossInv, Kept
  <2> QED BY <2>1, <2>2
<1>4. ASSUME NEW t \in Turns, Emits(t) PROVE LossInv'
  <2>1. PICK type \in EventTypes : Emit(t, type)
    BY <1>4 DEF Emits
  <2> DEFINE e == [seq |-> seq[t] + 1, turn |-> t, type |-> type]
  <2>2. /\ AppendEvent(e) /\ seq[t] \in Nat
        /\ \A f \in log : f.seq \in Nat
    BY <1>0, <2>1, RowNumbers DEF Emit, StreamTypes
  <2>3. pc[t] # "install" /\ pc'[t] # "install" /\ backend[t] # "none" /\ backend'[t] # "none"
    <3>1. pc[t] \notin Unheard /\ pc'[t] \notin Unheard
      BY <1>4 DEF Emits
    <3>2. pc[t] = "failed" => cpc[t] # "none"
      BY <1>4 DEF Emits
    <3> QED BY <1>1, <3>1, <3>2 DEF LossInv, Named, Kept, Unheard
  <2>4. log' \cup lost' \subseteq log \cup lost \cup {e} /\ log \subseteq log'
    BY <2>2 DEF AppendEvent
  <2>5. ASSUME NEW g \in log' \cup lost'
        PROVE  g.turn \in Turns /\ backend'[g.turn] # "none" /\ pc'[g.turn] # "install"
    <3>1. CASE g = e
      BY <2>3, <3>1
    <3>2. CASE g \in log \cup lost
      BY <1>2, <3>2
    <3> QED BY <2>4, <3>1, <3>2
  <2>6. ASSUME NEW g \in lost'
        PROVE  \E f \in log' : /\ f.seq = g.seq /\ f.turn # g.turn
                               /\ f.turn \in cancelled' \/ g.turn \in cancelled'
    <3>1. CASE g \in lost
      BY <1>3, <2>4, <3>1
    <3>2. CASE g \notin lost
      <4>1. g = e /\ \E f \in log : f.seq = e.seq
        BY <2>2, <3>2 DEF AppendEvent, Taken
      <4>2. PICK f \in log : f.seq = seq[t] + 1
        BY <4>1
      <4>3. f.turn \in Turns /\ f.seq <= seq[f.turn] /\ seq[f.turn] \in Nat
        BY <1>0, <4>2 DEF Owned, StreamTypes
      <4>4. f.turn # t
        BY <2>2, <4>2, <4>3
      <4>5. f.turn \in cancelled \/ t \in cancelled
        BY <2>3, <4>3, <4>4 DEF LossInv, Named
      <4>6. f.turn \in cancelled' \/ t \in cancelled'
        BY <1>1, <2>3, <4>5 DEF LossInv, Kept
      <4> QED BY <2>4, <4>1, <4>2, <4>4, <4>6
    <3> QED BY <3>1, <3>2
  <2> QED BY <1>1, <1>a, <2>5, <2>6 DEF LossInv, LossNeedsTakeover, Recorded
<1>5. ASSUME UNCHANGED <<log, lost>> PROVE LossInv'
  BY <1>1, <1>a, <1>2, <1>3, <1>5 DEF LossInv, LossNeedsTakeover, Recorded
<1> QED BY <1>4, <1>5, EmitsOrKeeps

\* No event goes missing but by a failed transaction or where two turns overlap
\* (emit, AppendEvent, HandleStart's takeover).
THEOREM LossIsOverlap == Spec => []LossNeedsTakeover
<1>1. Init => LossInv
  <2> SUFFICES ASSUME Init PROVE LossInv
    OBVIOUS
  <2>1. \A t \in Turns : Named(t)
    BY ConstantsAssumption DEF Init, Named, Streams
  <2>2. \A t \in Turns : seq[t] = 0 /\ view[t].from = 0
    BY DEF Init, Streams, StartLocals
  <2>3. \A t \in Turns : Recorded(t)
    BY <2>2 DEF Recorded
  <2>4. log = {} /\ lost = {}
    BY DEF Init
  <2> QED BY <2>1, <2>3, <2>4 DEF LossInv, LossNeedsTakeover, Recorded
<1>2. LogInv /\ StreamInv /\ OverlapInv /\ LossInv /\ [Next]_vars => LossInv'
  BY LossStep DEF OverlapInv
<1>3. LossInv => LossNeedsTakeover
  BY DEF LossInv
<1> QED BY <1>1, <1>2, <1>3, OverlapInvariant, StreamInvariant, LogInvariant, PTL DEF Spec

-----------------------------------------------------------------------------
(* How a turn ends: the part of CancelledTurnEnds that is not temporal.    *)

Consuming(t) == cpc[t] \notin {"none", "done"}

\* The channel of a backend's events holds what it has room for; a resume never
\* stands where a start emits.
EndInv ==
    /\ \A t \in Turns : events[t] <= EventCap
    /\ \A r \in Resumes : pc[r] \notin {"created", "prompt", "running", "spawn"}

\* The steps owed to a turn: what is pending is broadcast, the consumer takes
\* what its channels offer, and the backend that has been cancelled exits and
\* closes its channels.
OwedToTurn(t) ==
    \/ t \in cancelled /\ backend[t] = "running"
    \/ backend[t] = "exited"
    \/ pending[t] # NoEvent
    \/ pending[t] = NoEvent /\ cpc[t] \in {"finish", "idle"}
    \/ cpc[t] \in {"close", "release"}
    \/ AtLoop(t) /\ (events[t] > 0 \/ result[t] \in {"completed", "aborted"} \/ backend[t] = "closed")

\* The steps owed to a stream that listens: the next frame is written, or the
\* write fails, or the closed channel has been drained.
OwedToStream(s) == pc[s] = "pump" /\ (chan[s] # <<>> \/ s \in closed)

\* A cancelled turn can move until its consumer is done, and so can a stream its
\* entry has closed until the handler returns.
TurnCanMove ==
    /\ \A t \in Turns : Consuming(t) /\ t \in cancelled => OwedToTurn(t)
    /\ \A s \in closed : pc[s] \in {"done", "failed"} \/ OwedToStream(s)

\* How far a consumer is from its end, and how much there is still to say.
Stage(t) ==
    CASE cpc[t] = "loop" -> IF result[t] \in {"completed", "aborted"} THEN 9 ELSE 5
      [] cpc[t] = "finish" -> 7
      [] cpc[t] = "idle" -> 3
      [] cpc[t] = "close" -> 2
      [] cpc[t] = "release" -> 1
      [] OTHER -> 0

Unsaid(t) == 2 * events[t] + (IF pending[t] = NoEvent THEN 0 ELSE 1)

Distance(t) ==
    IF backend[t] = "running" THEN 2 * EventCap + 12
    ELSE Stage(t) + Unsaid(t) + (IF backend[t] = "exited" THEN 1 ELSE 0)

\* The steps that bring a cancelled turn nearer to its end.  While its backend
\* runs only the exit does: until then there may be more to say.
Ends(t) ==
    \/ BackendExit(t) \/ BackendClose(t)
    \/ backend[t] # "running" /\ (Broadcast(t) \/ ConsumeEvents(t))

\* Nothing brings a cancelled turn further from its end, a crash, another turn
\* and a backend that keeps talking included, and every step it is owed brings it
\* nearer; a stream leaves its watchers by being closed or by ending itself; and
\* once closed it is sent what its channel holds and nothing more.
TurnDescends ==
    /\ \A t \in Turns : Consuming(t) /\ t \in cancelled =>
          /\ Distance(t) \in Nat
          /\ Distance(t)' <= Distance(t)
          /\ Ends(t) => Distance(t)' < Distance(t)
          /\ t \in cancelled'
    /\ \A t \in Turns : \A s \in watchers[t] \ watchers'[t] :
          s \in closed' \/ pc'[s] \in {"done", "failed"}
    /\ \A s \in closed : pc[s] = "pump" /\ pc'[s] \notin {"done", "failed"} =>
          /\ Len(chan'[s]) <= Len(chan[s])
          /\ Pump(s) => Len(chan'[s]) < Len(chan[s])

\* A start moves nothing but itself.
LEMMA StartMoves ==
    ASSUME StreamTypes, NEW t \in Turns, HandleStart(t)
    PROVE  \E l \in StartPCs : pc' = [pc EXCEPT ![t] = l]
  BY DEF HandleStart, StartNew, StartContinue, StartExecute, StartExecuteFails, StartInstall,
     StartMark, StartRespond, StartRespondFails, StartWatch, StartEmit, StartConsumer, StartPCs

\* The channel of events takes no more than it has room for.
LEMMA EndStep ==
    ASSUME TypeOK, EndInv, [Next]_vars
    PROVE  EndInv'
<1>0. /\ StreamTypes /\ events \in [Turns -> Nat] /\ EventCap \in Nat
      /\ Turns \cap Resumes = {}
  BY StreamTyped, ConstantsAssumption DEF TypeOK
<1>1. ASSUME NEW t \in Turns PROVE events'[t] <= EventCap
  <2>1. ASSUME NEW u \in Turns, BackendEvent(u) PROVE events'[t] <= EventCap
    <3>1. events'[t] = events[t] \/ (events[t] < EventCap /\ events'[t] = events[t] + 1)
      BY <1>0, <2>1 DEF BackendEvent
    <3> QED BY <1>0, <3>1 DEF EndInv
  <2>2. ASSUME NEW u \in Turns, ConsumeEvent(u) PROVE events'[t] <= EventCap
    <3>1. events'[t] = events[t] \/ events'[t] = events[t] - 1
      BY <1>0, <2>2 DEF ConsumeEvent
    <3> QED BY <1>0, <3>1 DEF EndInv
  <2>3. ASSUME Crash PROVE events'[t] <= EventCap
    BY <1>0, <2>3 DEF Crash
  <2>4. ASSUME UNCHANGED events PROVE events'[t] <= EventCap
    BY <2>4 DEF EndInv
  <2>5. ASSUME NEW u \in Turns, HandleStart(u) \/ Broadcast(u) PROVE UNCHANGED events
    BY <2>5 DEF HandleStart, StartNew, StartContinue, StartExecute, StartExecuteFails,
       StartInstall, StartMark, StartRespond, StartRespondFails, StartWatch, StartEmit,
       StartConsumer, Broadcast
  <2>6. ASSUME NEW u \in Turns, Backend(u) \/ ConsumeEvents(u), ~BackendEvent(u), ~ConsumeEvent(u)
        PROVE  UNCHANGED events
    BY <2>6 DEF Backend, BackendExit, BackendClose, ConsumeEvents, ConsumeResult, ConsumeFinish,
       ConsumeClosed, SetFinished, CloseAllWatchers, ConsumeRelease
  <2>7. ASSUME NEW r \in Resumes, HandleResume(r) PROVE UNCHANGED events
    BY <2>7 DEF HandleResume, ResumeSteps, ResumeInfo, ResumeLookup, ResumeRespond,
       ResumeReplay, ResumeAttach, ResumeInsert, ResumeRereplay, ResumeSynthIdle
  <2>8. ASSUME NEW q \in Streams, Pump(q) \/ BreakStream(q) PROVE UNCHANGED events
    BY <2>8 DEF Pump, PumpFrame, PumpWriteFails, PumpEnds, BreakStream
  <2>9. ASSUME Interrupt \/ UNCHANGED vars PROVE UNCHANGED events
    BY <2>9 DEF Interrupt, vars
  <2> QED BY <2>1, <2>2, <2>3, <2>4, <2>5, <2>6, <2>7, <2>8, <2>9 DEF Next
<1>2. ASSUME NEW r \in Resumes PROVE pc'[r] \notin {"created", "prompt", "running", "spawn"}
  <2>0. pc[r] \notin {"created", "prompt", "running", "spawn"} /\ r \in Streams
    BY <1>0 DEF EndInv, StreamTypes
  <2>1. ASSUME NEW t \in Turns, HandleStart(t) PROVE pc'[r] = pc[r]
    <3>1. \E l \in StartPCs : pc' = [pc EXCEPT ![t] = l]
      BY <1>0, <2>1, StartMoves
    <3> QED BY <1>0, <2>0, <3>1
  <2>2. ASSUME NEW t \in Turns, Broadcast(t) \/ Backend(t) \/ ConsumeEvents(t) PROVE pc'[r] = pc[r]
    BY <2>2 DEF Broadcast, Backend, BackendEvent, BackendExit, BackendClose, ConsumeEvents,
       ConsumeEvent, ConsumeResult, ConsumeFinish, ConsumeClosed, SetFinished,
       CloseAllWatchers, ConsumeRelease
  <2>3. ASSUME NEW q \in Resumes, HandleResume(q)
        PROVE  pc'[r] \notin {"created", "prompt", "running", "spawn"}
    <3>1. CASE q # r
      BY <1>0, <2>0, <2>3, <3>1, ResumeKeeps
    <3>2. CASE q = r
      BY <1>0, <2>0, <2>3, <3>2 DEF HandleResume, ResumeSteps, ResumeInfo, ResumeLookup,
         ResumeRespond, ResumeReplay, ResumeAttach, ResumeInsert, ResumeRereplay,
         ResumeSynthIdle, StreamTypes
    <3> QED BY <3>1, <3>2
  <2>4. ASSUME NEW q \in Streams, Pump(q) \/ BreakStream(q)
        PROVE  pc'[r] \in {pc[r], "failed", "done"}
    BY <1>0, <2>0, <2>4 DEF Pump, PumpFrame, PumpWriteFails, PumpEnds, BreakStream, StreamTypes
  <2>5. ASSUME Crash PROVE pc'[r] \in {pc[r], "failed"}
    BY <2>0, <2>5 DEF Crash
  <2>6. ASSUME Interrupt \/ UNCHANGED vars PROVE pc'[r] = pc[r]
    BY <2>6 DEF Interrupt, vars
  <2> QED BY <2>0, <2>1, <2>2, <2>3, <2>4, <2>5, <2>6 DEF Next
<1> QED BY <1>1, <1>2 DEF EndInv

\* Everything the two statements below rest on.
TurnInv == LogInv /\ ChannelInv /\ StreamInv /\ (\A t \in Turns : Named(t)) /\ EndInv

\* It is an invariant.
LEMMA TurnInvariant == Spec => []TurnInv
<1>1. Init => (\A t \in Turns : Named(t)) /\ EndInv
  BY ConstantsAssumption DEF Init, Named, EndInv, Streams
<1>2. LogInv /\ StreamInv /\ (\A t \in Turns : Named(t)) /\ EndInv /\ [Next]_vars
      => (\A t \in Turns : Named(t))' /\ EndInv'
  BY NamedStep, EndStep DEF LogInv
<1> QED BY <1>1, <1>2, StreamInvariant, ChannelInvariant, LogInvariant, PTL DEF TurnInv, Spec

\* A cancelled turn, and a stream it has closed, are never stuck (consumeEvents,
\* the range loops of HandleStart and HandleResume).
THEOREM CancelledCanMove == Spec => []TurnCanMove
<1>1. TurnInv => TurnCanMove
  <2> SUFFICES ASSUME TurnInv PROVE TurnCanMove
    OBVIOUS
  <2>0. /\ StreamTypes /\ backend \in [Turns -> {"none", "running", "exited", "closed"}]
        /\ events \in [Turns -> Nat]
    BY StreamTyped DEF TurnInv, LogInv, TypeOK
  <2>1. ASSUME NEW t \in Turns, Consuming(t), t \in cancelled PROVE OwedToTurn(t)
    <3>1. backend[t] \in {"running", "exited", "closed"}
      BY <2>0, <2>1 DEF TurnInv, Named, Consuming
    <3>2. cpc[t] \in {"loop", "finish", "idle", "close", "release"}
      BY <2>0, <2>1 DEF StreamTypes, ConsumerPCs, Consuming
    <3> QED BY <2>1, <3>1, <3>2 DEF OwedToTurn, AtLoop
  <2>2. ASSUME NEW s \in closed PROVE pc[s] \in {"done", "failed"} \/ OwedToStream(s)
    <3>1. pc[s] \in Attached \cup {"done", "failed"} /\ s \in Streams
      BY <2>2 DEF TurnInv, ChannelInv, LogInv, TypeOK
    <3>2. CASE s \in Turns
      BY <2>2, <3>2 DEF TurnInv, StreamInv, StreamOf, OwedToStream
    <3>3. CASE s \in Resumes
      BY <2>2, <3>1, <3>3 DEF TurnInv, EndInv, Attached, OwedToStream
    <3> QED BY <3>1, <3>2, <3>3 DEF Streams
  <2> QED BY <2>1, <2>2 DEF TurnCanMove
<1> QED BY <1>1, TurnInvariant, PTL

\* A turn whose consumer runs is moved by its backend, by broadcast, by that
\* consumer and by a crash, and by nothing else.
LEMMA TurnAtRest ==
    ASSUME TurnInv, Next, NEW t \in Turns, Consuming(t), ~Crash,
           ~Broadcast(t), ~Backend(t), ~ConsumeEvents(t)
    PROVE  /\ cpc'[t] = cpc[t] /\ backend'[t] = backend[t] /\ events'[t] = events[t]
           /\ result'[t] = result[t] /\ pending'[t] = pending[t]
<1>0. /\ StreamTypes /\ backend \in [Turns -> {"none", "running", "exited", "closed"}]
      /\ events \in [Turns -> Nat] /\ result \in [Turns -> {"empty", "completed", "aborted", "taken"}]
  BY StreamTyped DEF TurnInv, LogInv, TypeOK
<1>1. pc[t] \in {"pump", "done", "failed"}
  BY DEF TurnInv, StreamInv, StreamOf, Consuming
<1>2. ASSUME NEW u \in Turns, HandleStart(u)
      PROVE  /\ cpc'[t] = cpc[t] /\ backend'[t] = backend[t] /\ events'[t] = events[t]
             /\ result'[t] = result[t] /\ pending'[t] = pending[t]
  <2>1. u # t
    BY <1>0, <1>1, <1>2 DEF HandleStart, StartNew, StartContinue, StartExecute, StartExecuteFails,
       StartInstall, StartMark, StartRespond, StartRespondFails, StartWatch, StartEmit,
       StartConsumer, StreamTypes
  <2> QED BY <1>0, <1>2, <2>1 DEF HandleStart, StartNew, StartContinue, StartExecute,
       StartExecuteFails, StartInstall, StartMark, StartRespond, StartRespondFails, Release,
       StartWatch, StartEmit, Emit, StartConsumer, StreamTypes
<1>3. ASSUME NEW u \in Turns \ {t}, Broadcast(u) \/ Backend(u) \/ ConsumeEvents(u)
      PROVE  /\ cpc'[t] = cpc[t] /\ backend'[t] = backend[t] /\ events'[t] = events[t]
             /\ result'[t] = result[t] /\ pending'[t] = pending[t]
  <2>1. CASE Broadcast(u) \/ Backend(u)
    BY <1>0, <1>3, <2>1 DEF Broadcast, Backend, BackendEvent, BackendExit, BackendClose, StreamTypes
  <2>2. CASE ConsumeEvents(u)
    BY <1>0, <1>3, <2>2 DEF ConsumeEvents, ConsumeEvent, ConsumeResult, ConsumeFinish,
       ConsumeClosed, SetFinished, CloseAllWatchers, ConsumeRelease, Release, Emit, StreamTypes
  <2> QED BY <1>3, <2>1, <2>2
<1>4. ASSUME NEW r \in Resumes, HandleResume(r)
      PROVE  UNCHANGED <<cpc, backend, events, result, pending>>
  BY <1>4 DEF HandleResume, ResumeSteps, ResumeInfo, ResumeLookup, ResumeRespond,
     ResumeReplay, ResumeAttach, ResumeInsert, ResumeRereplay, ResumeSynthIdle
<1>5. ASSUME NEW q \in Streams, Pump(q) \/ BreakStream(q)
      PROVE  UNCHANGED <<cpc, backend, events, result, pending>>
  BY <1>5 DEF Pump, PumpFrame, PumpWriteFails, PumpEnds, BreakStream
<1>6. ASSUME Interrupt PROVE UNCHANGED <<cpc, backend, events, result, pending>>
  BY <1>6 DEF Interrupt
<1> QED BY <1>2, <1>3, <1>4, <1>5, <1>6 DEF Next

\* What has been emitted waits to be broadcast.
LEMMA EmitPends ==
    ASSUME TurnInv, NEW t \in Turns, NEW type \in EventTypes, Emit(t, type)
    PROVE  pending'[t] # NoEvent
  BY ConstantsAssumption DEF TurnInv, LogInv, TypeOK, Emit, NoEvent

\* Each step owed brings a cancelled turn nearer to its end, and none further off.
LEMMA DistanceDescends ==
    ASSUME TurnInv, Next, NEW t \in Turns, Consuming(t), t \in cancelled
    PROVE  /\ Distance(t) \in Nat /\ Distance(t)' <= Distance(t)
           /\ Ends(t) => Distance(t)' < Distance(t)
<1>0. /\ StreamTypes /\ backend \in [Turns -> {"none", "running", "exited", "closed"}]
      /\ events \in [Turns -> Nat] /\ result \in [Turns -> {"empty", "completed", "aborted", "taken"}]
      /\ EventCap \in Nat /\ events[t] <= EventCap
  BY StreamTyped, ConstantsAssumption DEF TurnInv, LogInv, TypeOK, EndInv
<1>1. /\ Stage(t) \in 1..9 /\ Unsaid(t) \in Nat /\ Unsaid(t) <= 2 * EventCap + 1
      /\ Distance(t) \in Nat /\ Distance(t) > 0
  <2>1. Stage(t) \in 1..9
    BY <1>0 DEF Stage, Consuming, StreamTypes, ConsumerPCs
  <2>2. events[t] \in Nat
    BY <1>0
  <2>3. Unsaid(t) \in Nat /\ Unsaid(t) <= 2 * EventCap + 1
    BY <1>0, <2>2 DEF Unsaid
  <2> QED BY <1>0, <2>1, <2>3 DEF Distance
<1>2. ASSUME /\ cpc'[t] = cpc[t] /\ backend'[t] = backend[t] /\ events'[t] = events[t]
             /\ result'[t] = result[t] /\ pending'[t] = pending[t]
      PROVE  Distance(t)' = Distance(t)
  BY <1>2 DEF Distance, Stage, Unsaid
<1>3. ASSUME Crash PROVE Distance(t)' = 0
  <2>1. cpc'[t] = "done" /\ backend'[t] \in {"none", "closed"} /\ events'[t] = 0 /\ pending'[t] = NoEvent
    BY <1>3 DEF Crash, Consuming
  <2>2. Distance(t)' = 0
    BY <2>1 DEF Distance, Stage, Unsaid
  <2> QED BY <2>2
<1>4. ASSUME backend'[t] = "running", backend[t] = "running" PROVE Distance(t)' = Distance(t) /\ ~Ends(t)
  <2>1. ~BackendExit(t) /\ ~BackendClose(t)
    BY <1>0, <1>4 DEF BackendExit, BackendClose
  <2> QED BY <1>4, <2>1 DEF Distance, Ends
<1>5. ASSUME Broadcast(t), backend[t] # "running" PROVE Distance(t)' \in Nat /\ Distance(t)' < Distance(t)
  <2>1. /\ pending[t] # NoEvent /\ pending'[t] = NoEvent
        /\ cpc'[t] = cpc[t] /\ backend'[t] = backend[t] /\ events'[t] = events[t] /\ result'[t] = result[t]
    BY <1>0, <1>5 DEF Broadcast, StreamTypes
  <2>2. Stage(t)' = Stage(t) /\ Unsaid(t)' = Unsaid(t) - 1
    BY <1>0, <2>1 DEF Stage, Unsaid
  <2> QED BY <1>1, <1>5, <2>1, <2>2 DEF Distance
<1>6. ASSUME BackendExit(t) PROVE Distance(t)' \in Nat /\ Distance(t)' < Distance(t)
  <2>1. /\ backend[t] = "running" /\ backend'[t] = "exited" /\ result'[t] \in {"completed", "aborted"}
        /\ cpc'[t] = cpc[t] /\ events'[t] = events[t] /\ pending'[t] = pending[t]
    BY <1>0, <1>6 DEF BackendExit
  <2>2. Stage(t)' \in 0..9 /\ Unsaid(t)' = Unsaid(t)
    BY <2>1 DEF Stage, Unsaid
  <2> QED BY <1>0, <1>1, <2>1, <2>2 DEF Distance
<1>7. ASSUME BackendClose(t) PROVE Distance(t)' \in Nat /\ Distance(t)' < Distance(t)
  <2>1. /\ backend[t] = "exited" /\ backend'[t] = "closed" /\ result'[t] = result[t]
        /\ cpc'[t] = cpc[t] /\ events'[t] = events[t] /\ pending'[t] = pending[t]
    BY <1>0, <1>7 DEF BackendClose
  <2>2. Stage(t)' = Stage(t) /\ Unsaid(t)' = Unsaid(t)
    BY <2>1 DEF Stage, Unsaid
  <2> QED BY <1>1, <2>1, <2>2 DEF Distance
<1>8. ASSUME ConsumeEvents(t), backend[t] # "running" PROVE Distance(t)' \in Nat /\ Distance(t)' < Distance(t)
  <2>1. backend'[t] = backend[t]
    BY <1>8 DEF ConsumeEvents, ConsumeEvent, ConsumeResult, ConsumeFinish,
       ConsumeClosed, SetFinished, CloseAllWatchers, ConsumeRelease
  <2>2. SUFFICES Stage(t)' + Unsaid(t)' < Stage(t) + Unsaid(t) /\ Stage(t)' + Unsaid(t)' \in Nat
    BY <1>1, <1>8, <2>1, <2>2 DEF Distance
  <2>3. ASSUME ConsumeEvent(t) PROVE Stage(t)' = Stage(t) /\ Unsaid(t)' = Unsaid(t) - 1
    <3>1. /\ pending[t] = NoEvent /\ events[t] > 0 /\ events'[t] = events[t] - 1
          /\ cpc'[t] = cpc[t] /\ result'[t] = result[t]
      BY <1>0, <2>3 DEF ConsumeEvent, AtLoop
    <3>2. events[t] \in Nat
      BY <1>0
    <3>3. pending'[t] # NoEvent
      BY <2>3, EmitPends DEF ConsumeEvent, EventTypes
    <3> QED BY <3>1, <3>2, <3>3 DEF Stage, Unsaid
  <2>4. ASSUME ConsumeResult(t) PROVE Stage(t)' = 7 /\ Stage(t) = 9 /\ Unsaid(t)' = Unsaid(t) + 1
    <3>1. /\ pending[t] = NoEvent /\ events'[t] = events[t] /\ cpc[t] = "loop"
          /\ cpc'[t] = "finish" /\ result[t] \in {"completed", "aborted"}
      BY <1>0, <2>4 DEF ConsumeResult, AtLoop, StreamTypes
    <3>2. events[t] \in Nat
      BY <1>0
    <3>3. pending'[t] # NoEvent
      BY <2>4, EmitPends DEF ConsumeResult, EventTypes
    <3> QED BY <3>1, <3>2, <3>3 DEF Stage, Unsaid
  <2>5. ASSUME ConsumeFinish(t) PROVE Stage(t)' = 5 /\ Stage(t) = 7 /\ Unsaid(t)' = Unsaid(t)
    <3>1. /\ pending'[t] = pending[t] /\ events'[t] = events[t] /\ cpc[t] = "finish"
          /\ cpc'[t] = "loop" /\ result'[t] = "taken"
      BY <1>0, <2>5 DEF ConsumeFinish, StreamTypes
    <3> QED BY <3>1 DEF Stage, Unsaid
  <2>6. ASSUME ConsumeClosed(t) PROVE Stage(t)' = 3 /\ Stage(t) >= 5 /\ Unsaid(t)' = Unsaid(t) + 1
    <3>1. /\ pending[t] = NoEvent /\ events'[t] = events[t] /\ cpc[t] = "loop" /\ cpc'[t] = "idle"
      BY <1>0, <2>6 DEF ConsumeClosed, AtLoop, StreamTypes
    <3>2. events[t] \in Nat
      BY <1>0
    <3>3. pending'[t] # NoEvent
      BY <2>6, EmitPends DEF ConsumeClosed, EventTypes
    <3> QED BY <3>1, <3>2, <3>3 DEF Stage, Unsaid
  <2>7. ASSUME SetFinished(t) \/ CloseAllWatchers(t) \/ ConsumeRelease(t)
        PROVE  Stage(t)' = Stage(t) - 1 /\ Unsaid(t)' = Unsaid(t)
    <3>1. /\ pending'[t] = pending[t] /\ events'[t] = events[t]
          /\ \/ cpc[t] = "idle" /\ cpc'[t] = "close"
             \/ cpc[t] = "close" /\ cpc'[t] = "release"
             \/ cpc[t] = "release" /\ cpc'[t] = "done"
      BY <1>0, <2>7 DEF SetFinished, CloseAllWatchers, ConsumeRelease, Release, StreamTypes
    <3> QED BY <3>1 DEF Stage, Unsaid
  <2>8. CASE ConsumeEvent(t) \/ ConsumeResult(t) \/ ConsumeFinish(t) \/ ConsumeClosed(t)
    <3>1. Stage(t)' \in Nat /\ Stage(t)' + Unsaid(t)' < Stage(t) + Unsaid(t)
      BY <1>1, <2>3, <2>4, <2>5, <2>6, <2>8
    <3>2. ConsumeEvent(t) => Unsaid(t) >= 2
      BY <1>0, <1>1 DEF ConsumeEvent, Unsaid, StreamTypes
    <3> QED BY <1>1, <2>3, <2>4, <2>5, <2>6, <2>8, <3>1, <3>2
  <2>9. CASE SetFinished(t) \/ CloseAllWatchers(t) \/ ConsumeRelease(t)
    BY <1>1, <2>7, <2>9
  <2> QED BY <1>8, <2>8, <2>9 DEF ConsumeEvents
<1>9. ASSUME BackendEvent(t) \/ Broadcast(t) \/ ConsumeEvents(t), backend[t] = "running"
      PROVE  backend'[t] = "running"
  BY <1>9 DEF BackendEvent, Broadcast, ConsumeEvents, ConsumeEvent, ConsumeResult, ConsumeFinish,
       ConsumeClosed, SetFinished, CloseAllWatchers, ConsumeRelease
<1>10. CASE Broadcast(t) \/ Backend(t) \/ ConsumeEvents(t)
  <2>1. \/ Distance(t)' \in Nat /\ Distance(t)' < Distance(t)
        \/ Distance(t)' = Distance(t) /\ ~Ends(t)
    BY <1>4, <1>5, <1>6, <1>7, <1>8, <1>9, <1>10 DEF Backend, BackendEvent
  <2> QED BY <1>1, <2>1
<1>11. CASE Crash
  BY <1>1, <1>3, <1>11
<1>12. CASE ~(Broadcast(t) \/ Backend(t) \/ ConsumeEvents(t)) /\ ~Crash
  <2>1. Distance(t)' = Distance(t)
    BY <1>2, <1>12, TurnAtRest
  <2> QED BY <1>1, <1>12, <2>1 DEF Ends, Backend
<1> QED BY <1>10, <1>11, <1>12

\* Nobody leaves by another's joining.
LEMMA Joining ==
    ASSUME watchers \in [Turns -> SUBSET Streams], NEW t \in Turns, NEW u \in Turns, NEW q,
           watchers' = watchers \/ watchers' = [watchers EXCEPT ![u] = @ \cup {q}]
    PROVE  watchers[t] \ watchers'[t] = {}
<1>1. CASE u = t
  BY <1>1
<1>2. CASE u # t
  BY <1>2
<1> QED BY <1>1, <1>2

\* Only Pump takes a watcher off an entry that does not close it, and a crash,
\* which ends the handler too.
LEMMA WatchersLeave ==
    ASSUME TurnInv, Next, NEW t \in Turns, NEW s \in watchers[t] \ watchers'[t]
    PROVE  s \in closed' \/ pc'[s] \in {"done", "failed"}
<1>0. /\ StreamTypes /\ closed \subseteq Streams /\ s \in Streams
      /\ watchers \in [Turns -> SUBSET Streams]
  BY StreamTyped DEF TurnInv, LogInv, TypeOK, StreamTypes
<1>1. ASSUME NEW u \in Turns, HandleStart(u) \/ Broadcast(u) \/ Backend(u) PROVE FALSE
  <2>1. CASE StartWatch(u)
    <3>1. watchers' = watchers \/ watchers' = [watchers EXCEPT ![u] = @ \cup {u}]
      BY <2>1 DEF StartWatch
    <3> QED BY <1>0, <3>1, Joining
  <2>2. CASE ~StartWatch(u)
    BY <1>1, <2>2 DEF HandleStart, StartNew, StartContinue, StartExecute, StartExecuteFails,
       StartInstall, StartMark, StartRespond, StartRespondFails, Release, StartEmit, Emit,
       StartConsumer, Broadcast, Backend, BackendEvent, BackendExit, BackendClose
  <2> QED BY <2>1, <2>2
<1>2. ASSUME NEW u \in Turns, ConsumeEvents(u) PROVE s \in closed'
  <2>1. CASE CloseAllWatchers(u)
    BY <1>0, <2>1 DEF CloseAllWatchers, StreamTypes
  <2>2. CASE ~CloseAllWatchers(u)
    BY <1>2, <2>2 DEF ConsumeEvents, ConsumeEvent, ConsumeResult, ConsumeFinish, ConsumeClosed,
       SetFinished, ConsumeRelease, Release, Emit
  <2> QED BY <2>1, <2>2
<1>3. ASSUME NEW r \in Resumes, HandleResume(r) PROVE FALSE
  <2>1. CASE ResumeInsert(r)
    <3>1. /\ view[r].entry \in Turns
          /\ \/ watchers' = watchers
             \/ watchers' = [watchers EXCEPT ![view[r].entry] = @ \cup {r}]
      BY <2>1 DEF ResumeInsert, TurnInv, LogInv, Bookkeeping, EntryFound
    <3> QED BY <1>0, <3>1, Joining
  <2>2. CASE ~ResumeInsert(r)
    BY <1>3, <2>2 DEF HandleResume, ResumeSteps, ResumeInfo, ResumeLookup, ResumeRespond,
       ResumeReplay, ResumeAttach, ResumeRereplay, ResumeSynthIdle
  <2> QED BY <2>1, <2>2
<1>4. ASSUME NEW q \in Streams, Pump(q) \/ BreakStream(q) PROVE pc'[s] \in {"done", "failed"}
  <2>1. CASE PumpWriteFails(q) \/ PumpEnds(q)
    <3>1. pc'[q] \in {"done", "failed"} /\ RemoveWatcher(q)
      BY <1>0, <2>1 DEF PumpWriteFails, PumpEnds, StreamTypes
    <3>2. s = q
      BY <1>0, <3>1 DEF RemoveWatcher
    <3> QED BY <3>1, <3>2
  <2>2. CASE ~(PumpWriteFails(q) \/ PumpEnds(q))
    BY <1>4, <2>2 DEF Pump, PumpFrame, BreakStream
  <2> QED BY <2>1, <2>2
<1>5. ASSUME Interrupt PROVE FALSE
  BY <1>5 DEF Interrupt
<1>6. ASSUME Crash PROVE pc'[s] = "failed"
  <2>1. pc[s] \in Attached
    BY DEF TurnInv, ChannelInv
  <2> QED BY <1>0, <1>6, <2>1 DEF Crash, Attached, Over
<1> QED BY <1>1, <1>2, <1>3, <1>4, <1>5, <1>6 DEF Next

\* A closed channel is filled by nobody.
LEMMA ClosedDrains ==
    ASSUME TurnInv, Next, NEW s \in closed, pc[s] = "pump", pc'[s] \notin {"done", "failed"}
    PROVE  /\ Len(chan'[s]) <= Len(chan[s])
           /\ Pump(s) => Len(chan'[s]) < Len(chan[s])
<1>0. StreamTypes /\ s \in Streams /\ Len(chan[s]) \in Nat
  <2>1. StreamTypes /\ s \in Streams
    BY StreamTyped DEF TurnInv, LogInv, TypeOK
  <2> QED BY <2>1, LenProperties DEF StreamTypes
<1>1. CASE Pump(s)
  <2>1. PumpFrame(s)
    BY <1>0, <1>1 DEF Pump, PumpWriteFails, PumpEnds, StreamTypes
  <2>2. chan[s] \in Seq(Event) /\ chan[s] # <<>> /\ chan'[s] = Tail(chan[s])
    BY <1>0, <2>1 DEF PumpFrame, StreamTypes
  <2>3. Len(Tail(chan[s])) = Len(chan[s]) - 1
    BY <2>2, HeadTailProperties
  <2> QED BY <1>0, <2>2, <2>3
<1>2. CASE ~Pump(s)
  <2>1. chan'[s] = chan[s] \/ chan'[s] = <<>>
    <3>1. ASSUME NEW t \in Turns, Broadcast(t) PROVE chan'[s] = chan[s]
      <4>1. s \notin watchers[t]
        BY DEF TurnInv, ChannelInv, NoSendOnClosed
      <4> QED BY <1>0, <3>1, <4>1 DEF Broadcast
    <3>2. ASSUME NEW t \in Turns, HandleStart(t) \/ Backend(t) \/ ConsumeEvents(t)
          PROVE  UNCHANGED chan
      BY <3>2 DEF HandleStart, StartNew, StartContinue, StartExecute, StartExecuteFails,
         StartInstall, StartMark, StartRespond, StartRespondFails, StartWatch, StartEmit,
         StartConsumer, Backend, BackendEvent, BackendExit, BackendClose, ConsumeEvents,
         ConsumeEvent, ConsumeResult, ConsumeFinish, ConsumeClosed, SetFinished,
         CloseAllWatchers, ConsumeRelease
    <3>3. ASSUME NEW r \in Resumes, HandleResume(r) PROVE UNCHANGED chan
      BY <1>0, <3>3, ResumeKeeps
    <3>4. ASSUME NEW q \in Streams \ {s}, Pump(q) PROVE chan'[s] = chan[s]
      BY <1>0, <3>4 DEF Pump, PumpFrame, PumpWriteFails, PumpEnds, StreamTypes
    <3>5. ASSUME NEW q \in Streams, BreakStream(q) \/ Interrupt PROVE UNCHANGED chan
      BY <3>5 DEF BreakStream, Interrupt
    <3>6. ASSUME Crash PROVE chan'[s] = <<>>
      BY <1>0, <3>6 DEF Crash
    <3> QED BY <1>0, <1>2, <3>1, <3>2, <3>3, <3>4, <3>5, <3>6 DEF Next
  <2> QED BY <1>0, <1>2, <2>1
<1> QED BY <1>1, <1>2

\* What CancelledTurnEnds says short of fairness, for any number of turns and
\* streams and any capacity of the channels: with CancelledCanMove and the
\* fairness of FairSpec, Distance falls to 0 and the closed channels run empty.
THEOREM CancelledDescends == Spec => [][TurnDescends]_vars
<1>1. TurnInv /\ [Next]_vars => [TurnDescends]_vars
  <2> SUFFICES ASSUME TurnInv, Next PROVE TurnDescends
    OBVIOUS
  <2>1. ASSUME NEW t \in Turns, Consuming(t), t \in cancelled PROVE t \in cancelled'
    <3>1. backend[t] # "none" /\ pc[t] # "install"
      BY <2>1 DEF TurnInv, Named, StreamInv, StreamOf, Consuming
    <3> QED BY <2>1, <3>1, NamedStep DEF TurnInv, LogInv, Kept
  <2> QED BY <2>1, DistanceDescends, WatchersLeave, ClosedDrains DEF TurnDescends
<1> QED BY <1>1, TurnInvariant, PTL DEF Spec
=============================================================================
