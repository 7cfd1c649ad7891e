------------------------ MODULE BrowserSessionProofs ------------------------
(***************************************************************************)
(* Type correctness of BrowserSession, and that the timeline of the page   *)
(* only holds events of the session it is on, in order, with every number  *)
(* the page was sent, and that automatic resumes stop.                     *)
(*                                                                         *)
(* TimelineOfOneSession is not inductive: what is on the way to the page   *)
(* has to be of the session of its socket, a socket that delivers has to   *)
(* be of the page's session, or the page is waiting for the id of a new    *)
(* one and its timeline is empty, and a socket that is not open has        *)
(* nothing under way and no stream.  TimelineFaithful needs besides what   *)
(* FaithInv says of the numbers under way and of those the stream has read.*)
(***************************************************************************)
EXTENDS BrowserSession, TLAPS, SequenceTheorems

\* The socket is of the page's session, or will tell the page its session.
Matches == /\ sock.sid # None
           /\ id = sock.sid \/ (id = None /\ sock.kind = "start")

\* A page without a session has an empty timeline.
Blank == id = None => shown = <<>>

\* A socket that connects is of the page's session.
Fresh == sock.st = "connecting" =>
             sock.sid = id /\ (sock.kind = "resume" => sock.sid # None)

\* Only an open socket has a stream or something under way.
Quiet == sock.st # "open" => wire = <<>> /\ stream.st # "open"

\* A close is not followed by more of the stream.
Closing == (\E i \in DOMAIN wire : IsClose(wire[i])) => stream.st # "open"

\* An open stream feeds a matching socket.
Feeding == stream.st = "open" => Matches

\* So do the events on their way to the page.
Carrying == \A i \in DOMAIN wire :
                ~IsClose(wire[i]) => wire[i].sid = sock.sid /\ Matches

TimelineInv ==
    Blank /\ Fresh /\ Quiet /\ Closing /\ Feeding /\ Carrying /\ TimelineOfOneSession

Inv == TypeOK /\ TimelineInv

-----------------------------------------------------------------------------
LEMMA EmptyTimeline == <<>> \in Seq([sid : Sessions, seq : Nat \ {0}])
OBVIOUS

LEMMA EmptyLog == <<>> \in Seq(Event)
OBVIOUS

LEMMA NoStreamType == NoStream.st = "none" /\ NoStream \in StreamState
BY DEF NoStream, OpenStream, StreamState

LEMMA OpenStreamType ==
    ASSUME NEW t \in Nat, NEW p \in Nat, NEW l \in Nat, NEW w \in BOOLEAN,
           NEW y \in {"tail", "idle", "nothing", "wait"}
    PROVE  /\ OpenStream(t, p, l, w, y) \in StreamState
           /\ OpenStream(t, p, l, w, y).st = "open"
BY DEF OpenStream, StreamState

LEMMA CloseType ==
    ASSUME NEW c \in {"normal", "abnormal"}
    PROVE  CloseWith(c) \in Message /\ IsClose(CloseWith(c))
BY DEF CloseWith, Msg, Message, IsClose

LEMMA InitInv == ASSUME Init PROVE Inv
<1>1. PageType
  <2>1. /\ id = None /\ lastSeq = 0 /\ done = FALSE /\ busy = FALSE
        /\ offline = "none" /\ attempts = 0 /\ timers = 0 /\ shown = <<>>
    BY DEF Init
  <2>2. attempts \in 0..MaxResumes /\ timers \in Nat /\ lastSeq \in Nat
    BY <2>1, ConstantsAssumption
  <2>3. done \in BOOLEAN /\ busy \in BOOLEAN
    BY <2>1, Zenon
  <2> QED BY <2>1, <2>2, <2>3, EmptyTimeline DEF PageType
<1>2. WireType
  BY NoStreamType DEF Init, WireType, SocketState
<1>3. ClientType /\ HistoryType
  <2>1. missed \subseteq Nat /\ reused \in BOOLEAN /\ deaf \in BOOLEAN
    <3>1. missed = {}
      BY DEF Init
    <3>2. reused \in BOOLEAN /\ deaf \in BOOLEAN
      BY Zenon DEF Init
    <3> QED BY <3>1, <3>2
  <2>2. /\ log = [s \in Sessions |-> <<>>] /\ turns = [s \in Sessions |-> 0]
        /\ live = [s \in Sessions |-> FALSE] /\ online = TRUE
        /\ streak = 0 /\ faults = 0 /\ ops = 0
    BY DEF Init
  <2>3. log \in [Sessions -> Seq(Event)]
    BY <2>2, EmptyLog
  <2>4. turns \in [Sessions -> Nat] /\ live \in [Sessions -> BOOLEAN]
    BY <2>2
  <2>5. streak \in Int /\ faults \in Nat /\ ops \in Nat
    BY <2>2
  <2> QED BY <2>1, <2>2, <2>3, <2>4, <2>5 DEF ClientType, HistoryType
<1>4. TimelineInv
  BY NoStreamType
  DEF Init, TimelineInv, Blank, Fresh, Quiet, Closing, Feeding, Carrying, TimelineOfOneSession
<1> QED BY <1>1, <1>2, <1>3, <1>4 DEF Inv, TypeOK

-----------------------------------------------------------------------------
(* The user.                                                               *)

\* openWS leaves a socket that connects and has nothing under way.
LEMMA OpenWSInv ==
    ASSUME NEW k \in {"start", "resume"}, NEW s \in Sessions \cup {None},
           OpenWS(k, s), s = id', k = "resume" => s # None,
           id' = None => shown' = <<>>,
           \A i \in DOMAIN shown' : shown'[i].sid = id'
    PROVE  TimelineInv'
<1>1. sock' = [kind |-> k, sid |-> s, st |-> "connecting"] /\ wire' = <<>> /\ stream' = NoStream
  BY DEF OpenWS
<1>2. Blank' /\ TimelineOfOneSession'
  BY DEF Blank, TimelineOfOneSession
<1>3. Fresh' /\ Quiet' /\ Feeding'
  BY <1>1, NoStreamType DEF Fresh, Quiet, Feeding
<1>4. Closing' /\ Carrying'
  BY <1>1 DEF Closing, Carrying
<1> QED BY <1>2, <1>3, <1>4 DEF TimelineInv

\* It keeps the types of what it touches.
LEMMA OpenWSType ==
    ASSUME WireType, NEW k \in {"start", "resume"}, NEW s \in Sessions \cup {None},
           OpenWS(k, s)
    PROVE  WireType'
<1>1. sock' \in SocketState
  BY DEF OpenWS, SocketState
<1>2. stream' \in StreamState
  BY NoStreamType DEF OpenWS
<1>3. wire' \in Seq(Message) /\ stale' \in Seq(Message)
  BY DEF OpenWS, WireType
<1>4. orphans' \subseteq Sessions \cup {None}
  BY DEF OpenWS, Abandoned, WireType, SocketState
<1> QED BY <1>1, <1>2, <1>3, <1>4 DEF WireType

LEMMA ClickType ==
    ASSUME TypeOK, Click, missed' \subseteq Nat, reused' \in BOOLEAN, deaf' \in BOOLEAN
    PROVE  ClientType' /\ HistoryType' /\ timers' \in Nat /\ attempts' \in 0..MaxResumes
BY DEF Click, client, TypeOK, PageType, ClientType, HistoryType

\* A timeline that was emptied has the types of one.
LEMMA TimelineType ==
    ASSUME NEW s, Timeline(s)
    PROVE  /\ id' = s /\ lastSeq' = 0 /\ shown' = <<>>
           /\ missed' \subseteq Nat /\ reused' \in BOOLEAN
<1>1. id' = s /\ lastSeq' = 0 /\ shown' = <<>> /\ missed' = {}
  BY DEF Timeline
<1>2. reused' \in BOOLEAN
  BY Zenon DEF Timeline
<1> QED BY <1>1, <1>2

LEMMA UserInv == ASSUME Inv, User PROVE Inv'
<1>. USE DEF Inv, TypeOK
<1>1. ASSUME NEW c \in BOOLEAN, StartSession(c) PROVE Inv'
  <2>0. Click /\ busy' = TRUE /\ done' = FALSE /\ offline' = "none"
    BY <1>1 DEF StartSession
  <2>1. CASE c
    <3>1. OpenWS("start", id) /\ UNCHANGED <<id, lastSeq, shown, missed, reused>>
      BY <1>1, <2>1 DEF StartSession
    <3>2. id \in Sessions \cup {None}
      BY DEF PageType
    <3>3. deaf' \in BOOLEAN
      BY <3>1, Zenon DEF OpenWS
    <3>4. ClientType' /\ HistoryType' /\ PageType'
      BY <2>0, <3>1, <3>3, ClickType DEF PageType, HistoryType
    <3>5. WireType' /\ TimelineInv'
      BY <3>1, <3>2, OpenWSType, OpenWSInv DEF TimelineInv, Blank, TimelineOfOneSession
    <3> QED BY <3>4, <3>5
  <2>2. CASE ~c
    <3>1. /\ OpenWS("start", None)
          /\ id' = None /\ lastSeq' = 0 /\ shown' = <<>>
          /\ missed' \subseteq Nat /\ reused' \in BOOLEAN
      BY <1>1, <2>2, TimelineType DEF StartSession
    <3>2. deaf' \in BOOLEAN
      BY <3>1, Zenon DEF OpenWS
    <3>3. ClientType' /\ HistoryType' /\ PageType'
      BY <2>0, <3>1, <3>2, ClickType, EmptyTimeline DEF PageType
    <3>4. WireType' /\ TimelineInv'
      BY <3>1, OpenWSInv, OpenWSType
    <3> QED BY <3>3, <3>4
  <2> QED BY <2>1, <2>2
<1>2. ASSUME NEW s \in Sessions, OpenSession(s) PROVE Inv'
  <2>1. /\ Click /\ OpenWS("resume", s) /\ id' = s /\ shown' = <<>>
        /\ missed' \subseteq Nat /\ reused' \in BOOLEAN
        /\ busy' = TRUE /\ done' = FALSE /\ offline' = "none" /\ lastSeq' = 0
    BY <1>2, TimelineType DEF OpenSession
  <2>2. deaf' \in BOOLEAN
    BY <2>1, Zenon DEF OpenWS
  <2>3. ClientType' /\ HistoryType' /\ PageType'
    BY <2>1, <2>2, ClickType, EmptyTimeline, ConstantsAssumption DEF PageType
  <2>4. WireType' /\ TimelineInv'
    BY <2>1, OpenWSType, OpenWSInv, ConstantsAssumption
  <2> QED BY <2>3, <2>4
<1>3. CASE NewSession
  <2>1. /\ Click /\ stream' = NoStream /\ id' = None /\ shown' = <<>>
        /\ missed' \subseteq Nat /\ reused' \in BOOLEAN
        /\ busy' = FALSE /\ done' = TRUE /\ offline' = "none" /\ lastSeq' = 0
        /\ orphans' = orphans \cup Abandoned /\ stale' = stale
    BY <1>3, TimelineType DEF NewSession
  <2>2. deaf' \in BOOLEAN
    BY <1>3, Zenon DEF NewSession
  <2>3. ClientType' /\ HistoryType' /\ PageType'
    BY <2>1, <2>2, ClickType, EmptyTimeline, ConstantsAssumption DEF PageType
  <2>4. orphans' \subseteq Sessions \cup {None}
    BY <2>1 DEF Abandoned, WireType, SocketState
  <2>5. CASE sock.st \in {"connecting", "open"}
    <3>1. sock' = [sock EXCEPT !.st = "open"] /\ wire' = <<CloseWith("abnormal")>>
      BY <1>3, <2>5 DEF NewSession
    <3>2. sock' \in SocketState /\ sock'.st = "open"
      BY <3>1 DEF WireType, SocketState
    <3>3. WireType'
      BY <2>1, <2>4, <3>1, <3>2, NoStreamType, CloseType DEF WireType
    <3>4. TimelineInv'
      BY <2>1, <3>1, <3>2, NoStreamType, CloseType
      DEF TimelineInv, Blank, Fresh, Quiet, Closing, Feeding, Carrying, TimelineOfOneSession
    <3> QED BY <2>3, <3>3, <3>4
  <2>6. CASE sock.st \notin {"connecting", "open"}
    <3>1. UNCHANGED <<sock, wire>>
      BY <1>3, <2>6 DEF NewSession
    <3>2. WireType'
      BY <2>1, <2>4, <3>1, NoStreamType DEF WireType
    <3>3. wire = <<>>
      BY <2>6 DEF TimelineInv, Quiet
    <3>4. TimelineInv'
      BY <2>1, <2>6, <3>1, <3>3, NoStreamType
      DEF TimelineInv, Blank, Fresh, Quiet, Closing, Feeding, Carrying, TimelineOfOneSession
    <3> QED BY <2>3, <3>2, <3>4
  <2> QED BY <2>5, <2>6
<1> QED BY <1>1, <1>2, <1>3 DEF User

-----------------------------------------------------------------------------
(* The callbacks of the page.                                              *)

\* The first message, and the others, are messages of the wire.
LEMMA HeadTail ==
    ASSUME WireType, wire # <<>>
    PROVE  /\ Head(wire) \in Message /\ Tail(wire) \in Seq(Message)
           /\ Head(wire) = wire[1] /\ 1 \in DOMAIN wire
           /\ \A i \in DOMAIN Tail(wire) : i + 1 \in DOMAIN wire /\ Tail(wire)[i] = wire[i + 1]
BY DEF WireType

LEMMA ResumeSessionInv == ASSUME Inv, ResumeSession PROVE Inv'
<1>. USE DEF Inv, TypeOK
<1>1. /\ timers > 0 /\ timers' = timers - 1
      /\ UNCHANGED <<id, lastSeq, done, busy, attempts, shown, offline, log, turns, live,
                     online, missed, reused, faults, ops>>
  BY DEF ResumeSession, pageState, client
<1>2. PageType' /\ ClientType'
  BY <1>1 DEF PageType, ClientType
<1>3. CASE id = None \/ done
  <2>1. UNCHANGED <<sock, wire, stale, stream, orphans, deaf, streak>>
    BY <1>3 DEF ResumeSession, sockets
  <2>2. WireType' /\ HistoryType'
    BY <1>1, <2>1 DEF WireType, HistoryType
  <2>3. TimelineInv'
    BY <1>1, <2>1 DEF TimelineInv, Blank, Fresh, Quiet, Closing, Feeding, Carrying, Matches,
                      TimelineOfOneSession
  <2> QED BY <1>2, <2>2, <2>3
<1>4. CASE ~(id = None \/ done)
  <2>1. OpenWS("resume", id) /\ streak' = streak + 1 /\ id # None
    BY <1>4 DEF ResumeSession
  <2>2. id \in Sessions \cup {None}
    BY DEF PageType
  <2>3. deaf' \in BOOLEAN
    BY <2>1, Zenon DEF OpenWS
  <2>4. WireType' /\ HistoryType'
    BY <1>1, <2>1, <2>2, <2>3, OpenWSType DEF HistoryType
  <2>5. TimelineInv'
    BY <1>1, <2>1, <2>2, OpenWSInv DEF TimelineInv, TimelineOfOneSession
  <2> QED BY <1>2, <2>4, <2>5
<1> QED BY <1>3, <1>4

LEMMA OnMessageInv == ASSUME Inv, OnMessage PROVE Inv'
<1>. USE DEF Inv, TypeOK
<1>. DEFINE m == Head(wire)
<1>1. /\ wire # <<>> /\ ~IsClose(m) /\ wire' = Tail(wire)
      /\ UNCHANGED <<offline, timers, sock, stale, stream, orphans, log, turns, live, online,
                     missed, reused, faults, ops>>
  BY DEF OnMessage, client
<1>2. deaf' \in BOOLEAN
  BY Zenon DEF OnMessage, HistoryType
<1>3. /\ m \in Message /\ wire' \in Seq(Message)
      /\ m.sid = sock.sid /\ Matches
      /\ sock.st = "open"
  BY <1>1, HeadTail DEF TimelineInv, Carrying, Quiet
<1>4. WireType' /\ ClientType'
  BY <1>1, <1>3 DEF WireType, ClientType
<1>5. \A i \in DOMAIN wire' : i + 1 \in DOMAIN wire /\ wire'[i] = wire[i + 1]
  BY <1>1, HeadTail
<1>6. Quiet' /\ Closing' /\ Fresh'
  BY <1>1, <1>3, <1>5 DEF TimelineInv, Quiet, Closing, Fresh
<1>7. CASE Repeats(m)
  <2>1. UNCHANGED <<id, lastSeq, done, busy, attempts, shown, streak>>
    BY <1>7 DEF OnMessage, pageState
  <2>2. PageType' /\ HistoryType'
    BY <1>1, <1>2, <2>1 DEF PageType, HistoryType
  <2>3. Blank' /\ Feeding' /\ TimelineOfOneSession' /\ Matches'
    BY <1>1, <1>3, <2>1 DEF TimelineInv, Blank, Feeding, Matches, TimelineOfOneSession
  <2>4. Carrying'
    BY <1>1, <1>5, <2>3 DEF TimelineInv, Carrying
  <2> QED BY <1>4, <1>6, <2>2, <2>3, <2>4 DEF TimelineInv
<1>8. CASE ~Repeats(m)
  <2>1. Show(m)
    BY <1>8 DEF OnMessage
  <2>2. id' = sock.sid /\ sock.sid # None /\ (id = None => shown = <<>>)
    BY <1>3, <2>1 DEF Show, Matches, TimelineInv, Blank
  <2>3. id' \in Sessions /\ m.sid \in Sessions /\ m.seq \in Nat
    BY <1>3, <2>2 DEF WireType, SocketState, Message
  <2>4. shown' \in Seq([sid : Sessions, seq : Nat \ {0}])
    <3>1. CASE m.seq > 0
      <4>1. [sid |-> m.sid, seq |-> m.seq] \in [sid : Sessions, seq : Nat \ {0}]
        BY <2>3, <3>1
      <4>2. shown' = Append(shown, [sid |-> m.sid, seq |-> m.seq])
        BY <2>1, <3>1 DEF Show
      <4> QED BY <4>1, <4>2 DEF PageType
    <3>2. CASE ~(m.seq > 0)
      BY <2>1, <3>2 DEF Show, PageType
    <3> QED BY <3>1, <3>2
  <2>5. lastSeq' \in Nat /\ attempts' \in 0..MaxResumes /\ timers' \in Nat
    BY <1>1, <2>1, <2>3, ConstantsAssumption DEF Show, PageType
  <2>6. done' \in BOOLEAN /\ busy' \in BOOLEAN
    BY <2>1, Zenon DEF Show, PageType
  <2>7. PageType'
    BY <1>1, <2>3, <2>4, <2>5, <2>6 DEF PageType
  <2>8. HistoryType'
    BY <1>1, <1>2, <2>1 DEF Show, PageType, HistoryType
  <2>9. TimelineOfOneSession'
    <3>1. \A i \in DOMAIN shown : shown[i].sid = sock.sid
      BY <1>3, <2>2 DEF TimelineInv, TimelineOfOneSession, Matches
    <3>2. CASE m.seq > 0
      <4>1. shown' = Append(shown, [sid |-> m.sid, seq |-> m.seq])
        BY <2>1, <3>2 DEF Show
      <4> QED BY <1>3, <2>2, <3>1, <4>1 DEF TimelineOfOneSession, PageType
    <3>3. CASE ~(m.seq > 0)
      BY <2>1, <2>2, <3>1, <3>3 DEF Show, TimelineOfOneSession
    <3> QED BY <3>2, <3>3
  <2>10. Matches' /\ Blank'
    BY <1>1, <2>2 DEF Matches, Blank
  <2>11. Feeding' /\ Carrying'
    BY <1>1, <1>5, <2>10 DEF TimelineInv, Feeding, Carrying
  <2> QED BY <1>4, <1>6, <2>7, <2>8, <2>9, <2>10, <2>11 DEF TimelineInv
<1> QED BY <1>7, <1>8

LEMMA OnCloseInv == ASSUME Inv, OnCloseNormal \/ OnCloseAbnormal PROVE Inv'
<1>. USE DEF Inv, TypeOK
<1>1. /\ wire # <<>> /\ IsClose(Head(wire)) /\ wire' = <<>>
      /\ sock' = [sock EXCEPT !.st = "closed"] /\ busy' = FALSE
      /\ UNCHANGED <<id, lastSeq, done, shown, stale, stream, orphans, log, turns, live,
                     online, missed, reused, deaf, streak, faults, ops>>
  BY DEF OnCloseNormal, OnCloseAbnormal, IsClose, client, history
<1>2. /\ offline' \in {"none", "retrying", "lost"}
      /\ attempts' \in 0..MaxResumes /\ timers' \in Nat
  <2>1. CASE OnCloseNormal
    BY <2>1 DEF OnCloseNormal, PageType
  <2>2. CASE OnCloseAbnormal
    BY <2>2, ConstantsAssumption DEF OnCloseAbnormal, PageType
  <2> QED BY <2>1, <2>2
<1>3. PageType' /\ ClientType' /\ HistoryType'
  BY <1>1, <1>2 DEF PageType, ClientType, HistoryType
<1>4. sock' \in SocketState /\ sock'.st = "closed"
  BY <1>1 DEF WireType, SocketState
<1>5. WireType'
  BY <1>1, <1>4 DEF WireType
<1>6. stream.st # "open"
  BY <1>1, HeadTail DEF TimelineInv, Closing
<1>7. TimelineInv'
  BY <1>1, <1>4, <1>6
  DEF TimelineInv, Blank, Fresh, Quiet, Closing, Feeding, Carrying, TimelineOfOneSession
<1> QED BY <1>3, <1>5, <1>7

LEMMA StaleIgnoredInv == ASSUME Inv, StaleIgnored PROVE Inv'
<1>. USE DEF Inv, TypeOK
<1>1. /\ stale # <<>> /\ stale' = Tail(stale)
      /\ UNCHANGED <<id, lastSeq, done, busy, attempts, shown, offline, timers, sock, wire,
                     stream, orphans, log, turns, live, online, missed, reused, deaf,
                     streak, faults, ops>>
  BY DEF StaleIgnored, pageState, client, history
<1>2. stale' \in Seq(Message)
  BY <1>1 DEF WireType
<1>3. TypeOK'
  BY <1>1, <1>2 DEF PageType, WireType, ClientType, HistoryType
<1>4. TimelineInv'
  BY <1>1 DEF TimelineInv, Blank, Fresh, Quiet, Closing, Feeding, Carrying, Matches,
              TimelineOfOneSession
<1> QED BY <1>3, <1>4

-----------------------------------------------------------------------------
(* The server's handler.                                                   *)

LEMMA RefuseInv == ASSUME Inv, Refuse PROVE Inv'
<1>. USE DEF Inv, TypeOK
<1>1. /\ sock.st = "connecting" /\ sock' = [sock EXCEPT !.st = "open"]
      /\ wire' = <<CloseWith("abnormal")>>
      /\ orphans' = orphans \/ orphans' = orphans \cup Abandoned
      /\ UNCHANGED <<id, lastSeq, done, busy, attempts, shown, offline, timers, stale,
                     stream, log, turns, live, online, missed, reused, deaf, streak, faults,
                     ops>>
  BY DEF Refuse, pageState, client, history
<1>2. sock' \in SocketState /\ sock'.st = "open" /\ stream.st # "open"
  BY <1>1 DEF WireType, SocketState, TimelineInv, Quiet
<1>3. PageType' /\ ClientType' /\ HistoryType'
  BY <1>1 DEF PageType, ClientType, HistoryType
<1>4. orphans' \subseteq Sessions \cup {None}
  BY <1>1 DEF Abandoned, WireType, SocketState
<1>5. WireType'
  BY <1>1, <1>2, <1>4, CloseType DEF WireType
<1>6. TimelineInv'
  BY <1>1, <1>2, CloseType
  DEF TimelineInv, Blank, Fresh, Quiet, Closing, Feeding, Carrying, TimelineOfOneSession
<1> QED BY <1>3, <1>5, <1>6

LEMMA EventType ==
    ASSUME NEW t \in Nat, NEW y \in {"event", "idle", "error"}
    PROVE  LogEvent(t, y) \in Event
BY DEF LogEvent, Event

\* The rows that a new turn finds are events of the log, and an idle event.
LEMMA FoundType ==
    ASSUME ClientType, NEW s \in Sessions, NEW late \in 0..1, NEW lost \in 0..Len(log[s])
    PROVE  Found(s, late, lost) \in Seq(Event) /\ Len(Found(s, late, lost)) \in Nat
<1> DEFINE a == SubSeq(log[s], 1, Len(log[s]) - lost)
           e == LogEvent(turns[s], "idle")
           b == [i \in 1..late |-> e]
<1>1. log[s] \in Seq(Event) /\ Len(log[s]) \in Nat /\ turns[s] \in Nat
  BY DEF ClientType
<1>2. e \in Event
  BY <1>1, EventType
<1> HIDE DEF e
<1>3. b \in Seq(Event)
  BY <1>2
<1>4. a \in Seq(Event)
  <2> DEFINE l == Len(log[s]) - lost
  <2>1. l \in Nat /\ l <= Len(log[s])
    BY <1>1
  <2> HIDE DEF l
  <2>2. SubSeq(log[s], 1, l) \in Seq(Event)
    BY <1>1, <2>1
  <2> QED BY <2>2 DEF l
<1>5. Found(s, late, lost) = a \o b
  BY DEF Found, e
<1> HIDE DEF a, b
<1>6. a \o b \in Seq(Event)
  BY <1>3, <1>4
<1>7. Found(s, late, lost) \in Seq(Event)
  BY <1>5, <1>6
<1> QED BY <1>7

\* HandleStart keeps the types of the client.
LEMMA BeginTurnType ==
    ASSUME TypeOK, NEW s \in Sessions, NEW late \in 0..1, NEW lost \in 0..Len(log[s]),
           BeginTurn(s, late, lost)
    PROVE  /\ ClientType' /\ Len(Found(s, late, lost)) \in Nat /\ turns[s] + 1 \in Nat
           /\ reused' \in BOOLEAN /\ faults' \in Nat
<1> USE DEF TypeOK
<1> DEFINE f == Found(s, late, lost)
           e == LogEvent(turns[s] + 1, "event")
<1>1. turns[s] \in Nat /\ turns[s] + 1 \in Nat
  BY DEF ClientType
<1>2. e \in Event
  BY <1>1, EventType
<1>3. f \in Seq(Event) /\ Len(f) \in Nat
  BY FoundType
<1>4. log' = [log EXCEPT ![s] = Append(f, e)]
  BY DEF BeginTurn
<1> HIDE DEF e, f
<1>5. Append(f, e) \in Seq(Event)
  BY <1>2, <1>3
<1>6. log' \in [Sessions -> Seq(Event)]
  BY <1>4, <1>5 DEF ClientType
<1>7. /\ turns' = [turns EXCEPT ![s] = turns[s] + 1]
      /\ live' = [live EXCEPT ![s] = TRUE] /\ online' = online
  BY DEF BeginTurn
<1>8. turns' \in [Sessions -> Nat] /\ live' \in [Sessions -> BOOLEAN]
  BY <1>1, <1>7 DEF ClientType
<1>9. reused' \in BOOLEAN
  BY Zenon DEF BeginTurn
<1>10. faults' \in Nat
  <2>1. faults' = faults + lost /\ faults \in Nat /\ lost \in Nat
    BY DEF BeginTurn, Costs, HistoryType, ClientType
  <2> QED BY <2>1
<1>11. Len(Found(s, late, lost)) \in Nat
  BY <1>3 DEF f
<1> QED BY <1>1, <1>6, <1>7, <1>8, <1>9, <1>10, <1>11 DEF ClientType

LEMMA AttachStartInv ==
    ASSUME Inv, NEW s \in Sessions, NEW late \in 0..1, NEW lost \in 0..Len(log[s]),
           AttachStart(s, late, lost)
    PROVE  Inv'
<1>. USE DEF Inv, TypeOK
<1>1. /\ BeginTurn(s, late, lost)
      /\ stream' = OpenStream(turns[s] + 1, Len(Found(s, late, lost)), 0, FALSE, "tail")
      /\ missed' = missed \cup (lastSeq + 1..Len(Found(s, late, lost)))
  BY DEF AttachStart
<1>2. /\ sock.st = "connecting" /\ sock.kind = "start" /\ Target(s, sock.sid)
      /\ sock' = [sock EXCEPT !.st = "open", !.sid = s]
      /\ UNCHANGED <<id, lastSeq, done, busy, attempts, shown, offline, timers, wire, stale,
                     orphans, deaf, streak, ops>>
  BY DEF AttachStart, Connecting, pageState
<1>3. ClientType' /\ stream' \in StreamState
  BY <1>1, BeginTurnType, OpenStreamType
<1>4. sock' \in SocketState /\ sock'.st = "open" /\ sock'.sid = s /\ sock'.kind = "start"
  BY <1>2 DEF WireType, SocketState
<1>5. PageType' /\ WireType'
  BY <1>2, <1>3, <1>4 DEF PageType, WireType
<1>6. missed' \subseteq Nat
  <2>1. lastSeq + 1..Len(Found(s, late, lost)) \subseteq Nat
    BY <1>1, BeginTurnType DEF PageType
  <2> QED BY <1>1, <2>1 DEF HistoryType
<1>7. HistoryType'
  BY <1>1, <1>2, <1>6, BeginTurnType DEF HistoryType
<1>8. id = None \/ id = s
  BY <1>2 DEF TimelineInv, Fresh, Target
<1>9. Matches'
  BY <1>2, <1>4, <1>8, ConstantsAssumption DEF Matches
<1>10. wire' = <<>>
  BY <1>2 DEF TimelineInv, Quiet
<1>11. TimelineInv'
  BY <1>2, <1>4, <1>9, <1>10
  DEF TimelineInv, Blank, Fresh, Quiet, Closing, Feeding, Carrying, TimelineOfOneSession
<1> QED BY <1>3, <1>5, <1>7, <1>11

\* HandleResume: the stream is that of the page's session.
LEMMA ResumedInv ==
    ASSUME Inv, NEW y \in {"tail", "idle", "nothing", "wait"}, Connecting("resume"), Resumed(y),
           PageType', ClientType', reused' \in BOOLEAN, deaf' \in BOOLEAN, faults' \in Nat,
           orphans' \subseteq Sessions \cup {None},
           UNCHANGED <<id, shown, wire, stale, streak, ops>>
    PROVE  Inv'
<1>. USE DEF Inv, TypeOK
<1>1. /\ sock.st = "connecting" /\ sock.kind = "resume"
      /\ sock' = [sock EXCEPT !.st = "open"]
      /\ stream' = OpenStream(turns[sock.sid], Lesser(lastSeq, Len(log[sock.sid])),
                              Len(log[sock.sid]), y = "tail", y)
      /\ missed' = {n \in missed : n <= lastSeq}
  BY DEF Resumed, Connecting
<1>2. sock.sid = id /\ sock.sid \in Sessions
  BY <1>1 DEF TimelineInv, Fresh, WireType, SocketState
<1>3. /\ turns[sock.sid] \in Nat /\ lastSeq \in Nat /\ Len(log[sock.sid]) \in Nat
      /\ Lesser(lastSeq, Len(log[sock.sid])) \in Nat
  BY <1>2 DEF ClientType, PageType, Lesser
<1>3a. (y = "tail") \in BOOLEAN
  BY Zenon
<1>4. stream' \in StreamState
  BY <1>1, <1>3, <1>3a, OpenStreamType
<1>5. sock' \in SocketState /\ sock'.st = "open" /\ sock'.sid = id
  BY <1>1, <1>2 DEF WireType, SocketState
<1>6. HistoryType'
  BY <1>1 DEF HistoryType
<1>7. WireType'
  BY <1>4, <1>5 DEF WireType
<1>8. Matches' /\ wire' = <<>>
  BY <1>1, <1>2, <1>5, ConstantsAssumption DEF Matches, TimelineInv, Quiet
<1>9. TimelineInv'
  BY <1>5, <1>8
  DEF TimelineInv, Blank, Fresh, Quiet, Closing, Feeding, Carrying, TimelineOfOneSession
<1> QED BY <1>6, <1>7, <1>9

LEMMA AttachResumeInv == ASSUME Inv, AttachResume PROVE Inv'
<1>. USE DEF Inv, TypeOK
<1>1. PICK y \in {"tail", "idle", "nothing"} : Resumed(y)
  BY DEF AttachResume
<1>2. /\ Connecting("resume")
      /\ UNCHANGED <<id, lastSeq, done, busy, attempts, shown, offline, timers, wire, stale,
                     orphans, log, turns, live, online, reused, deaf, streak, faults, ops>>
  BY DEF AttachResume, pageState, client
<1>3. PageType' /\ ClientType'
  BY <1>2 DEF PageType, ClientType
<1> QED BY <1>1, <1>2, <1>3, ResumedInv DEF WireType, HistoryType

\* The session of an open stream.
LEMMA OpenStreamSession ==
    ASSUME Inv, stream.st = "open"
    PROVE  /\ sock.st = "open" /\ sock.sid \in Sessions /\ Matches
           /\ \A i \in DOMAIN wire : ~IsClose(wire[i]) /\ wire[i].sid = sock.sid
BY DEF Inv, TypeOK, TimelineInv, Quiet, Feeding, Closing, Carrying, Matches, WireType,
       SocketState

\* The next frame, and the stream past it.
LEMMA FrameType ==
    ASSUME Inv, HasFrame
    PROVE  /\ Frame \in Event
           /\ stream.pos + 1 \in Nat
           /\ Advanced \in StreamState /\ Advanced.st = "open" /\ Advanced.pos = stream.pos + 1
           /\ Advanced.twice = stream.twice
<1>. USE DEF Inv, TypeOK
<1>1. stream.st = "open" /\ stream.pos < Len(log[sock.sid])
  BY DEF HasFrame
<1>2. sock.sid \in Sessions
  BY <1>1, OpenStreamSession
<1>3. stream.pos \in Nat /\ stream.pos + 1 \in Nat
  BY DEF WireType, StreamState
<1>4. Frame \in Event
  <2>1. log[sock.sid] \in Seq(Event)
    BY <1>2 DEF ClientType
  <2>2. stream.pos + 1 \in DOMAIN log[sock.sid]
    BY <1>1, <1>3, <2>1
  <2> QED BY <2>1, <2>2 DEF Frame
<1> DEFINE i == stream.idled \/ Frame = LogEvent(stream.turn, "idle")
<1>5. i \in BOOLEAN
  BY Zenon
<1>6. Advanced = [stream EXCEPT !.pos = stream.pos + 1, !.idled = i]
  BY DEF Advanced
<1> HIDE DEF i
<1>7. /\ Advanced \in StreamState /\ Advanced.st = "open" /\ Advanced.pos = stream.pos + 1
      /\ Advanced.twice = stream.twice
  BY <1>1, <1>3, <1>5, <1>6 DEF WireType, StreamState
<1> QED BY <1>3, <1>4, <1>7

LEMMA PumpFrameInv == ASSUME Inv, PumpFrame PROVE Inv'
<1>. USE DEF Inv, TypeOK
<1>. DEFINE m == Msg(Frame.type, sock.sid, stream.pos + 1)
            b == Advanced.saw \/ Frame.type \in Terminal
<1>1. /\ stream.st = "open" /\ HasFrame
      /\ stream' = [Advanced EXCEPT !.saw = b]
      /\ wire' = Append(wire, m)
      /\ UNCHANGED <<id, lastSeq, done, busy, attempts, shown, offline, timers, sock, stale,
                     orphans, log, turns, live, online, missed, reused, deaf, streak, faults,
                     ops>>
  BY DEF PumpFrame, HasFrame, pageState, client, history
<1>2. sock.sid \in Sessions
  BY <1>1, OpenStreamSession
<1>3. Frame \in Event /\ stream.pos + 1 \in Nat
  BY <1>1, FrameType
<1>4. m \in Message /\ ~IsClose(m) /\ m.sid = sock.sid
  BY <1>2, <1>3 DEF Msg, Message, IsClose, Event
<1>5. b \in BOOLEAN
  BY Zenon
<1> HIDE DEF b, m
<1>6. stream' \in StreamState /\ stream'.st = "open"
  BY <1>1, <1>5, FrameType DEF StreamState
<1>7. PageType' /\ ClientType' /\ HistoryType'
  BY <1>1 DEF PageType, ClientType, HistoryType
<1>8. WireType'
  BY <1>1, <1>4, <1>6 DEF WireType
<1>9. sock.st = "open" /\ Matches /\ Matches'
  BY <1>1, OpenStreamSession DEF Matches
<1>10. \A i \in DOMAIN wire' : ~IsClose(wire'[i]) /\ wire'[i].sid = sock'.sid
  BY <1>1, <1>4, OpenStreamSession DEF WireType
<1>11. TimelineInv'
  BY <1>1, <1>6, <1>9, <1>10
  DEF TimelineInv, Blank, Fresh, Quiet, Closing, Feeding, Carrying, TimelineOfOneSession
<1> QED BY <1>7, <1>8, <1>11

\* What changes only the place a stream has come to.
LEMMA PlaceInv ==
    ASSUME Inv, stream.st = "open", stream' \in StreamState, stream'.st = "open",
           missed' \subseteq Nat, faults' \in Nat,
           UNCHANGED <<pageState, offline, timers, sockets, orphans, client, reused, deaf,
                       streak, ops>>
    PROVE  Inv'
<1>. USE DEF Inv, TypeOK
<1>1. UNCHANGED <<id, lastSeq, done, busy, attempts, shown, offline, timers, sock, wire,
                  stale, orphans, log, turns, live, online, reused, deaf, streak, ops>>
  BY DEF pageState, sockets, client
<1>2. TypeOK'
  BY <1>1 DEF PageType, WireType, ClientType, HistoryType
<1>3. TimelineInv'
  BY <1>1
  DEF TimelineInv, Blank, Fresh, Quiet, Closing, Feeding, Carrying, Matches,
      TimelineOfOneSession
<1> QED BY <1>2, <1>3

LEMMA SkipFrameInv == ASSUME Inv, SkipFrame PROVE Inv'
<1>. USE DEF Inv, TypeOK
<1> DEFINE b == Advanced.twice /\ stream.pos < stream.last
<1>1. HasFrame /\ stream.st = "open" /\ stream' = [Advanced EXCEPT !.twice = b]
  BY DEF SkipFrame, HasFrame
<1>2. b \in BOOLEAN
  BY Zenon
<1> HIDE DEF b
<1>3. stream' \in StreamState /\ stream'.st = "open"
  BY <1>1, <1>2, FrameType DEF StreamState
<1>4. missed' \subseteq Nat /\ faults' \in Nat
  BY <1>1, FrameType DEF SkipFrame, Costs, HistoryType
<1> QED BY <1>1, <1>3, <1>4, PlaceInv DEF SkipFrame

LEMMA PumpTwiceInv == ASSUME Inv, PumpTwice PROVE Inv'
<1>. USE DEF Inv, TypeOK
<1>1. PICK n \in {m \in 0..stream.pos - 1 : m + 1 >= stream.last} :
         stream' = [stream EXCEPT !.pos = n, !.twice = FALSE]
  BY DEF PumpTwice
<1>2. n \in Nat /\ stream.st = "open"
  BY DEF PumpTwice, WireType, StreamState
<1>3. stream' \in StreamState /\ stream'.st = "open"
  BY <1>1, <1>2 DEF WireType, StreamState
<1>4. missed' \subseteq Nat /\ faults' \in Nat
  BY DEF PumpTwice, history, HistoryType
<1> QED BY <1>2, <1>3, <1>4, PlaceInv DEF PumpTwice, history

\* What the end of a stream puts on the wire.
LEMMA LastFramesType ==
    ASSUME Inv, stream.st = "open", NEW last \in LastFrames
    PROVE  /\ last \in Seq(Message)
           /\ \A i \in DOMAIN last : last[i].sid = sock.sid
           /\ \/ last = <<>>
              \/ Len(last) = 1 /\ last[1].seq = 0
              \/ Len(last) = 1 /\ last[1].seq = stream.pos + 1
<1>. USE DEF Inv, TypeOK
<1>1. sock.sid \in Sessions
  BY OpenStreamSession
<1>2. ASSUME NEW q \in Nat
      PROVE  /\ <<Msg("idle", sock.sid, q)>> \in Seq(Message)
             /\ \A i \in DOMAIN <<Msg("idle", sock.sid, q)>> :
                   <<Msg("idle", sock.sid, q)>>[i].sid = sock.sid
             /\ Len(<<Msg("idle", sock.sid, q)>>) = 1
             /\ <<Msg("idle", sock.sid, q)>>[1].seq = q
  BY <1>1 DEF Msg, Message
<1>3. 0 \in Nat /\ stream.pos + 1 \in Nat
  BY DEF WireType, StreamState
<1>4. last \in {<<>>, <<Msg("idle", sock.sid, 0)>>, <<Msg("idle", sock.sid, stream.pos + 1)>>}
  <2>1. CASE stream.then = "idle"
    BY <2>1 DEF LastFrames
  <2>2. CASE stream.then = "tail" /\ ~stream.idled
    BY <2>2 DEF LastFrames
  <2>3. CASE stream.then # "idle" /\ ~(stream.then = "tail" /\ ~stream.idled)
    BY <2>3 DEF LastFrames
  <2> QED BY <2>1, <2>2, <2>3
<1>5. CASE last = <<>>
  BY <1>5
<1>6. CASE last = <<Msg("idle", sock.sid, 0)>>
  BY <1>2, <1>3, <1>6
<1>7. CASE last = <<Msg("idle", sock.sid, stream.pos + 1)>>
  BY <1>2, <1>3, <1>7
<1> QED BY <1>4, <1>5, <1>6, <1>7

LEMMA StreamEndsInv == ASSUME Inv, StreamEnds PROVE Inv'
<1>. USE DEF Inv, TypeOK
<1>1. PICK last \in LastFrames :
         /\ Costs(IF last = <<>> /\ Cardinality(LastFrames) > 1 THEN 1 ELSE 0)
         /\ stream' = NoStream
         /\ wire' = wire \o last \o <<Code(stream.saw \/ last # <<>>)>>
  BY DEF StreamEnds
<1> DEFINE c == Code(stream.saw \/ last # <<>>)
<1>2. /\ stream.st = "open"
      /\ UNCHANGED <<id, lastSeq, done, busy, attempts, shown, offline, timers, sock, stale,
                     orphans, log, turns, live, online, missed, reused, deaf, streak, ops>>
  BY DEF StreamEnds, Over, pageState, client, history
<1>3. sock.sid \in Sessions /\ sock.st = "open" /\ Matches /\ Matches'
  BY <1>2, OpenStreamSession DEF Matches
<1>4. last \in Seq(Message) /\ \A i \in DOMAIN last : last[i].sid = sock.sid
  BY <1>2, LastFramesType
<1>5. c \in Message /\ IsClose(c)
  BY CloseType DEF Code
<1>6. wire' = wire \o last \o <<c>>
  BY <1>1
<1> HIDE DEF c
<1>7. wire' \in Seq(Message)
  BY <1>4, <1>5, <1>6 DEF WireType
<1>8. \A i \in DOMAIN wire' : ~IsClose(wire'[i]) => wire'[i].sid = sock.sid
  <2>1. SUFFICES ASSUME NEW i \in DOMAIN wire', ~IsClose(wire'[i])
                 PROVE  wire'[i].sid = sock.sid
    OBVIOUS
  <2>2. wire \in Seq(Message) /\ last \in Seq(Message)
    BY <1>4 DEF WireType
  <2>3. \/ i \in DOMAIN wire /\ wire'[i] = wire[i]
        \/ i - Len(wire) \in DOMAIN last /\ wire'[i] = last[i - Len(wire)]
        \/ wire'[i] = c
    BY <1>6, <2>2
  <2> QED BY <1>2, <1>4, <1>5, <2>1, <2>3, OpenStreamSession
<1>9. faults' \in Nat
  <2>1. ASSUME NEW n \in Nat, Costs(n) PROVE faults' \in Nat
    BY <2>1 DEF Costs, HistoryType
  <2>2. (IF last = <<>> /\ Cardinality(LastFrames) > 1 THEN 1 ELSE 0) \in Nat
    OBVIOUS
  <2> QED BY <1>1, <2>1, <2>2
<1>10. TypeOK'
  BY <1>1, <1>2, <1>7, <1>9, NoStreamType DEF PageType, WireType, ClientType, HistoryType
<1>11. TimelineInv'
  BY <1>1, <1>2, <1>3, <1>8, NoStreamType
  DEF TimelineInv, Blank, Fresh, Quiet, Closing, Feeding, Carrying, TimelineOfOneSession
<1> QED BY <1>10, <1>11

LEMMA SessionWSInv == ASSUME Inv, SessionWS PROVE Inv'
BY RefuseInv, AttachResumeInv, PumpFrameInv, PumpTwiceInv, StreamEndsInv, AttachStartInv
DEF SessionWS

-----------------------------------------------------------------------------
(* Turns, and what breaks.                                                 *)

\* A step of the client, or of the tunnel's end, that leaves the page and its
\* sockets alone.
LEMMA PageUnchanged ==
    ASSUME TimelineInv, UNCHANGED <<id, shown, sock, wire, stream>>
    PROVE  TimelineInv'
BY DEF TimelineInv, Blank, Fresh, Quiet, Closing, Feeding, Carrying, Matches,
       TimelineOfOneSession

\* A log that has grown by an event, and a turn that may have ended.
LEMMA GrownType ==
    ASSUME ClientType, NEW s \in Sessions, NEW y \in {"event", "idle", "error"},
           log' = [log EXCEPT ![s] = Append(log[s], LogEvent(turns[s], y))],
           live' \in {live, [live EXCEPT ![s] = FALSE]}, UNCHANGED <<turns, online>>
    PROVE  ClientType'
<1>1. LogEvent(turns[s], y) \in Event /\ log[s] \in Seq(Event)
  BY EventType DEF ClientType
<1>2. Append(log[s], LogEvent(turns[s], y)) \in Seq(Event)
  BY <1>1
<1>3. log' \in [Sessions -> Seq(Event)] /\ live' \in [Sessions -> BOOLEAN]
  BY <1>2 DEF ClientType
<1> QED BY <1>3 DEF ClientType

LEMMA TurnInv ==
    ASSUME Inv, NEW s \in Sessions,
           (\E y \in {"event", "error"} : TurnEvent(s, y)) \/ TurnEnds(s)
    PROVE  Inv'
<1>. USE DEF Inv, TypeOK
<1>1. UNCHANGED <<id, lastSeq, done, busy, attempts, shown, offline, timers, sock, wire,
                  stale, stream, orphans, turns, online, missed, reused, deaf, streak, ops>>
  BY DEF TurnEvent, TurnEnds, pageState, sockets, history
<1>2. PICK y \in {"event", "idle", "error"} :
         log' = [log EXCEPT ![s] = Append(log[s], LogEvent(turns[s], y))]
  BY DEF TurnEvent, TurnEnds
<1>3. live' \in {live, [live EXCEPT ![s] = FALSE]}
  BY DEF TurnEvent, TurnEnds
<1>4. faults' \in Nat
  BY DEF TurnEvent, TurnEnds, Costs, HistoryType
<1>5. ClientType'
  BY <1>1, <1>2, <1>3, GrownType
<1>6. TypeOK'
  BY <1>1, <1>4, <1>5 DEF PageType, WireType, HistoryType
<1> QED BY <1>1, <1>6, PageUnchanged

LEMMA StartOrphanInv ==
    ASSUME Inv, NEW s \in Sessions, NEW asked \in orphans, NEW late \in 0..1,
           NEW lost \in 0..Len(log[s]), StartOrphan(s, asked, late, lost)
    PROVE  Inv'
<1>. USE DEF Inv, TypeOK
<1>1. BeginTurn(s, late, lost)
  BY DEF StartOrphan
<1>2. /\ orphans' = orphans \ {asked}
      /\ UNCHANGED <<id, lastSeq, done, busy, attempts, shown, offline, timers, sock, wire,
                     stale, stream, missed, deaf, streak, ops>>
  BY DEF StartOrphan, pageState, sockets
<1>3. ClientType' /\ reused' \in BOOLEAN /\ faults' \in Nat
  BY <1>1, BeginTurnType
<1>4. TypeOK'
  BY <1>2, <1>3 DEF PageType, WireType, HistoryType
<1> QED BY <1>2, <1>4, PageUnchanged

LEMMA FailedStartInv == ASSUME Inv, NEW s \in Sessions, FailedStart(s) PROVE Inv'
<1>. USE DEF Inv, TypeOK
<1>1. /\ orphans' = orphans \ {s} /\ faults' = faults + 1
      /\ UNCHANGED <<id, lastSeq, done, busy, attempts, shown, offline, timers, wire, stale,
                     turns, online, reused, deaf, streak, ops>>
  BY DEF FailedStart, Costs, pageState
<1>2. ClientType'
  <2>1. CASE live[s]
    BY <1>1, <2>1, GrownType DEF FailedStart
  <2>2. CASE ~live[s]
    BY <1>1, <2>2 DEF FailedStart, ClientType
  <2> QED BY <2>1, <2>2
<1>3. /\ PageType' /\ faults' \in Nat /\ orphans' \subseteq Sessions \cup {None}
      /\ reused' \in BOOLEAN /\ deaf' \in BOOLEAN
  BY <1>1 DEF PageType, HistoryType, WireType
<1>4. CASE Connecting("resume") /\ Resumed("wait")
  BY <1>1, <1>2, <1>3, <1>4, ResumedInv
<1>5. CASE UNCHANGED <<sock, stream, missed>>
  <2>1. TypeOK'
    BY <1>1, <1>2, <1>3, <1>5 DEF WireType, HistoryType
  <2> QED BY <1>1, <1>5, <2>1, PageUnchanged
<1> QED BY <1>4, <1>5 DEF FailedStart

LEMMA AgentInv == ASSUME Inv, Agent PROVE Inv'
<1>1. PICK s \in Sessions :
         \/ \E y \in {"event", "error"} : TurnEvent(s, y)
         \/ TurnEnds(s)
         \/ FailedStart(s)
         \/ \E asked \in orphans, late \in 0..1 :
               \E lost \in 0..Len(log[s]) : StartOrphan(s, asked, late, lost)
  BY DEF Agent
<1>2. CASE (\E y \in {"event", "error"} : TurnEvent(s, y)) \/ TurnEnds(s)
  BY <1>2, TurnInv
<1>3. CASE FailedStart(s)
  BY <1>3, FailedStartInv
<1>4. CASE \E asked \in orphans, late \in 0..1 :
               \E lost \in 0..Len(log[s]) : StartOrphan(s, asked, late, lost)
  BY <1>4, StartOrphanInv
<1> QED BY <1>1, <1>2, <1>3, <1>4

LEMMA TunnelBreaksInv == ASSUME Inv, TunnelBreaks PROVE Inv'
<1>. USE DEF Inv, TypeOK
<1>1. /\ faults' = faults + 1 /\ online' = FALSE
      /\ live' \in {live, [s \in Sessions |-> FALSE]}
      /\ UNCHANGED <<id, lastSeq, done, busy, attempts, shown, offline, timers, sock, stale,
                     orphans, log, turns, missed, reused, deaf, streak, ops>>
  BY DEF TunnelBreaks, Costs, pageState, history
<1>2. live' \in [Sessions -> BOOLEAN]
  BY <1>1 DEF ClientType
<1>3. PageType' /\ ClientType' /\ HistoryType'
  <2>1. online' \in BOOLEAN
    BY <1>1, Zenon
  <2>2. log' = log /\ turns' = turns
    BY <1>1
  <2>3. ClientType'
    BY <1>2, <2>1, <2>2 DEF ClientType
  <2>4. PageType' /\ HistoryType'
    BY <1>1 DEF PageType, HistoryType
  <2> QED BY <2>3, <2>4
<1>4. CASE stream.st = "open"
  <2>1. /\ stream' = [NoStream EXCEPT !.st = "lost", !.turn = stream.turn,
                                       !.saw = stream.saw]
        /\ wire' = Append(wire, Code(stream.saw))
    BY <1>4 DEF TunnelBreaks
  <2>2. Code(stream.saw) \in Message /\ IsClose(Code(stream.saw))
    BY CloseType DEF Code
  <2>3. stream' \in StreamState /\ stream'.st = "lost"
    BY <2>1, NoStreamType DEF WireType, StreamState
  <2>4. WireType'
    BY <1>1, <2>1, <2>2, <2>3 DEF WireType
  <2>5. sock.st = "open" /\ Matches /\ Matches'
    BY <1>1, <1>4, OpenStreamSession DEF Matches
  <2>6. \A i \in DOMAIN wire' : ~IsClose(wire'[i]) => wire'[i].sid = sock.sid
    BY <1>4, <2>1, <2>2, OpenStreamSession DEF WireType
  <2>7. TimelineInv'
    BY <1>1, <2>3, <2>5, <2>6
    DEF TimelineInv, Blank, Fresh, Quiet, Closing, Feeding, Carrying, TimelineOfOneSession
  <2> QED BY <1>3, <2>4, <2>7
<1>5. CASE stream.st # "open"
  <2>1. UNCHANGED <<stream, wire>>
    BY <1>5 DEF TunnelBreaks
  <2> QED BY <1>1, <1>3, <2>1, PageUnchanged DEF WireType
<1> QED BY <1>4, <1>5

LEMMA TunnelIsBackInv == ASSUME Inv, TunnelIsBack PROVE Inv'
<1>. USE DEF Inv, TypeOK
<1>1. /\ online' = TRUE
      /\ UNCHANGED <<id, lastSeq, done, busy, attempts, shown, offline, timers, sock, wire,
                     stale, stream, orphans, log, turns, live, missed, reused, deaf, streak, faults, ops>>
  BY DEF TunnelIsBack, pageState, sockets, history
<1>2. TypeOK'
  BY <1>1 DEF PageType, WireType, ClientType, HistoryType
<1> QED BY <1>1, <1>2, PageUnchanged

LEMMA SocketBreaksInv == ASSUME Inv, SocketBreaks PROVE Inv'
<1>. USE DEF Inv, TypeOK
<1>1. /\ sock.st = "open" /\ faults' = faults + 1
      /\ wire' = <<CloseWith("abnormal")>> /\ stream' = NoStream
      /\ UNCHANGED <<id, lastSeq, done, busy, attempts, shown, offline, timers, sock, stale,
                     orphans, log, turns, live, online, missed, reused, deaf, streak, ops>>
  BY DEF SocketBreaks, Costs, pageState, client, history
<1>2. PageType' /\ ClientType' /\ HistoryType'
  BY <1>1 DEF PageType, ClientType, HistoryType
<1>3. WireType'
  BY <1>1, NoStreamType, CloseType DEF WireType
<1>4. TimelineInv'
  BY <1>1, NoStreamType, CloseType
  DEF TimelineInv, Blank, Fresh, Quiet, Closing, Feeding, Carrying, TimelineOfOneSession
<1> QED BY <1>2, <1>3, <1>4

LEMMA StutterInv == ASSUME Inv, UNCHANGED vars PROVE Inv'
<1>. USE DEF Inv, TypeOK
<1>1. UNCHANGED <<id, lastSeq, done, busy, attempts, shown, offline, timers, sock, wire, stale,
                  stream, orphans, log, turns, live, online, missed, reused, deaf, streak, faults, ops>>
  BY DEF vars, pageState, sockets, client, history
<1>2. TypeOK'
  BY <1>1 DEF PageType, WireType, ClientType, HistoryType
<1> QED BY <1>1, <1>2, PageUnchanged

-----------------------------------------------------------------------------
LEMMA NextInv == ASSUME Inv, [Next]_vars PROVE Inv'
<1>1. CASE User
  BY <1>1, UserInv
<1>2. CASE Handlers
  BY <1>2, ResumeSessionInv, OnMessageInv, OnCloseInv, StaleIgnoredInv DEF Handlers
<1>3. CASE SessionWS
  BY <1>3, SessionWSInv
<1>4. CASE TunnelBreaks \/ TunnelIsBack \/ SocketBreaks
  BY <1>4, TunnelBreaksInv, TunnelIsBackInv, SocketBreaksInv
<1>5. CASE Agent
  BY <1>5, AgentInv
<1>6. CASE SkipFrame
  BY <1>6, SkipFrameInv
<1>7. CASE UNCHANGED vars
  BY <1>7, StutterInv
<1> QED BY <1>1, <1>2, <1>3, <1>4, <1>5, <1>6, <1>7 DEF Next

\* The invariant holds in every reachable state of the page and its sockets.
THEOREM Invariance == Spec => []Inv
<1>1. Init => Inv
  BY InitInv
<1>2. Inv /\ [Next]_vars => Inv'
  BY NextInv
<1> QED BY <1>1, <1>2, PTL DEF Spec

\* Every variable of the page, the handler and the client keeps its type, for
\* any number of sessions, breaks and clicks (project.tsx, session.go).
THEOREM TypeCorrect == Spec => []TypeOK
<1>1. Inv => TypeOK
  BY DEF Inv
<1> QED BY <1>1, Invariance, PTL

\* The timeline only holds events of the session the page is on, whatever the
\* sockets it has replaced or closed still deliver (openWS, wsGen).
THEOREM OneSession == Spec => []TimelineOfOneSession
<1>1. Inv => TimelineOfOneSession
  BY DEF Inv, TimelineInv
<1> QED BY <1>1, Invariance, PTL

\* A resume that has been asked for, or will be by a timer, was counted.
Counted == streak + timers <= attempts

LEMMA CountedStep == ASSUME TypeOK, Counted, [Next]_vars PROVE Counted'
<1>0. streak \in Int /\ timers \in Nat /\ attempts \in Int
  BY ConstantsAssumption DEF TypeOK, PageType, HistoryType
<1>1. CASE UNCHANGED <<streak, timers, attempts>>
  BY <1>1 DEF Counted
<1>2. CASE ResumeSession
  <2>1. timers' = timers - 1 /\ attempts' = attempts
        /\ (streak' = streak \/ streak' = streak + 1)
    BY <1>2 DEF ResumeSession, pageState
  <2> QED BY <1>0, <2>1 DEF Counted
<1>3. CASE OnMessage
  <2>1. timers' = timers
    BY <1>3 DEF OnMessage
  <2>2. UNCHANGED <<attempts, streak>> \/ (attempts' = 0 /\ streak' = 0 - timers)
    BY <1>3 DEF OnMessage, Show, pageState
  <2> QED BY <1>0, <2>1, <2>2 DEF Counted
<1>4. CASE OnCloseAbnormal
  <2>1. \/ UNCHANGED <<attempts, timers, streak>>
        \/ attempts' = attempts + 1 /\ timers' = timers + 1 /\ streak' = streak
    BY <1>4 DEF OnCloseAbnormal
  <2> QED BY <1>0, <2>1 DEF Counted
<1>5. CASE User
  BY <1>1, <1>5 DEF User, StartSession, OpenSession, NewSession, Click
<1>6. CASE OnCloseNormal \/ StaleIgnored \/ TunnelBreaks \/ TunnelIsBack \/ SocketBreaks
           \/ UNCHANGED vars
  BY <1>1, <1>6 DEF OnCloseNormal, StaleIgnored, TunnelBreaks, TunnelIsBack, SocketBreaks,
                    vars, pageState
<1>7. CASE SessionWS
  BY <1>1, <1>7 DEF SessionWS, Refuse, AttachResume, AttachStart, PumpFrame, PumpTwice,
                    StreamEnds, pageState
<1>8. CASE Agent \/ SkipFrame
  BY <1>1, <1>8 DEF Agent, TurnEvent, TurnEnds, StartOrphan, FailedStart, SkipFrame, pageState
<1> QED BY <1>2, <1>3, <1>4, <1>5, <1>6, <1>7, <1>8 DEF Next, Handlers

\* Between two events that show something new the page asks at most MaxResumes
\* times, for any number of breaks and clicks (project.tsx:85-87, 313-321).
THEOREM RetriesStop == Spec => []RetriesBounded
<1>1. Init => Counted
  BY DEF Init, Counted
<1>2. TypeOK /\ Counted => RetriesBounded
  BY ConstantsAssumption DEF TypeOK, PageType, HistoryType, Counted, RetriesBounded
<1>3. Spec => []Counted
  BY <1>1, TypeCorrect, CountedStep, PTL DEF Spec
<1> QED BY <1>2, <1>3, TypeCorrect, PTL

-----------------------------------------------------------------------------
(* The timeline is faithful.                                               *)


\* The socket of a start repeats nothing, unless its turn was given numbers that
\* the page has already.
StartIsNew ==
    sock.kind = "start" =>
        /\ stream.st = "open" => ~stream.twice
        /\ ~reused =>
              /\ \A i \in DOMAIN wire : wire[i].seq > 0 => wire[i].seq > lastSeq
              /\ \A i, j \in DOMAIN wire :
                     i < j /\ wire[i].seq > 0 /\ wire[j].seq > 0 => wire[i].seq < wire[j].seq
              /\ stream.st = "open" =>
                     /\ lastSeq <= stream.pos
                     /\ \A i \in DOMAIN wire : wire[i].seq <= stream.pos

\* Every number has its predecessors before it, on the way or in the timeline,
\* but for those the page was not sent.
InStep ==
    /\ \A i \in DOMAIN wire : \A k \in lastSeq + 1..wire[i].seq - 1 :
           k \in missed \/ \E j \in DOMAIN wire : j < i /\ wire[j].seq = k
    /\ stream.st = "open" => \A k \in lastSeq + 1..stream.pos :
           k \in missed \/ \E j \in DOMAIN wire : wire[j].seq = k

NoNumber == id = None => lastSeq = 0

Faithful == (\A i \in DOMAIN shown : shown[i].seq <= lastSeq) /\ TimelineFaithful

FaithInv == StartIsNew /\ InStep /\ NoNumber /\ Faithful

LEMMA FaithTypes ==
    ASSUME TypeOK
    PROVE  /\ wire \in Seq(Message) /\ lastSeq \in Nat /\ missed \subseteq Nat
           /\ id \in Sessions \cup {None} /\ sock \in SocketState
           /\ stream \in StreamState /\ shown \in Seq([sid : Sessions, seq : Nat \ {0}])
           /\ \A i \in DOMAIN wire : wire[i] \in Message /\ wire[i].seq \in Nat
           /\ stream.pos \in Nat /\ stream.pos + 1 \in Nat
<1>1. /\ wire \in Seq(Message) /\ lastSeq \in Nat /\ missed \subseteq Nat
      /\ id \in Sessions \cup {None} /\ sock \in SocketState
      /\ stream \in StreamState /\ shown \in Seq([sid : Sessions, seq : Nat \ {0}])
  BY DEF TypeOK, PageType, WireType, HistoryType
<1>2. \A i \in DOMAIN wire : wire[i] \in Message
  BY <1>1
<1>3. \A i \in DOMAIN wire : wire[i] \in Message /\ wire[i].seq \in Nat
  BY <1>2 DEF Message
<1>4. stream.pos \in Nat /\ stream.pos + 1 \in Nat
  BY <1>1 DEF StreamState
<1> QED BY <1>1, <1>3, <1>4

\* What TimelineFaithful depends on.
LEMMA ShownFaith ==
    ASSUME Faithful, UNCHANGED <<lastSeq, shown>>, reused => reused',
           \A n \in missed : n <= lastSeq => n \in missed'
    PROVE  Faithful'
<1>1. \A i \in DOMAIN shown' : shown'[i].seq <= lastSeq'
  BY DEF Faithful
<1>2. \A n \in 1..lastSeq' : n \in missed' \/ \E i \in DOMAIN shown' : shown'[i].seq = n
  <2> TAKE n \in 1..lastSeq'
  <2>1. n <= lastSeq /\ n \in 1..lastSeq
    OBVIOUS
  <2>2. n \in missed \/ \E i \in DOMAIN shown : shown[i].seq = n
    BY <2>1 DEF Faithful, TimelineFaithful
  <2> QED BY <2>1, <2>2
<1>3. ~reused' => \A i, j \in DOMAIN shown' : i < j => shown'[i].seq < shown'[j].seq
  <2> SUFFICES ASSUME ~reused'
               PROVE  \A i, j \in DOMAIN shown' : i < j => shown'[i].seq < shown'[j].seq
    OBVIOUS
  <2>1. ~reused
    OBVIOUS
  <2> QED BY <2>1 DEF Faithful, TimelineFaithful
<1> QED BY <1>1, <1>2, <1>3 DEF Faithful, TimelineFaithful

\* A step that leaves the page, its socket and its stream alone.
LEMMA StutterFaith ==
    ASSUME FaithInv, UNCHANGED <<id, lastSeq, shown, wire, sock, stream, missed>>,
           reused => reused'
    PROVE  FaithInv'
<1> USE DEF FaithInv
<1>1. Faithful'
  BY ShownFaith
<1>2. StartIsNew'
  <2>1. ~reused' => ~reused
    OBVIOUS
  <2> QED BY <2>1 DEF StartIsNew
<1>3. InStep' /\ NoNumber'
  BY DEF InStep, NoNumber
<1> QED BY <1>1, <1>2, <1>3

\* Nothing of a stream is left.
LEMMA ResetFaith ==
    ASSUME stream'.st # "open", wire' = <<>> \/ wire' = <<CloseWith("abnormal")>>,
           lastSeq' \in Nat, id' = None => lastSeq' = 0, Faithful'
    PROVE  FaithInv'
<1>1. \A i \in DOMAIN wire' : wire'[i].seq = 0 /\ i = 1
  <2>1. CASE wire' = <<>>
    BY <2>1
  <2>2. CASE wire' = <<CloseWith("abnormal")>>
    BY <2>2 DEF CloseWith, Msg
  <2> QED BY <2>1, <2>2
<1>2. InStep'
  <2>1. \A i \in DOMAIN wire' : lastSeq' + 1..wire'[i].seq - 1 = {}
    BY <1>1
  <2> QED BY <2>1 DEF InStep
<1>3. StartIsNew'
  BY <1>1 DEF StartIsNew
<1> QED BY <1>2, <1>3 DEF FaithInv, NoNumber

LEMMA EmptyFaith == ASSUME NEW s, Timeline(s) PROVE Faithful' /\ lastSeq' = 0
<1>1. lastSeq' = 0 /\ DOMAIN shown' = {}
  BY DEF Timeline
<1> QED BY <1>1 DEF Faithful, TimelineFaithful

LEMMA UserFaith == ASSUME Inv, FaithInv, User PROVE FaithInv'
<1> USE DEF Inv, FaithInv
<1>1. ASSUME NEW c \in BOOLEAN, StartSession(c) PROVE FaithInv'
  <2>1. stream'.st # "open" /\ wire' = <<>>
    BY <1>1, NoStreamType DEF StartSession, OpenWS
  <2>2. CASE c
    <3>1. UNCHANGED <<id, lastSeq, shown, missed, reused>>
      BY <1>1, <2>2 DEF StartSession
    <3>2. Faithful'
      BY <3>1, ShownFaith
    <3> QED BY <2>1, <3>1, <3>2, FaithTypes, ResetFaith DEF NoNumber
  <2>3. CASE ~c
    <3>1. Timeline(None)
      BY <1>1, <2>3 DEF StartSession
    <3>2. lastSeq' = 0 /\ Faithful'
      BY <3>1, EmptyFaith
    <3> QED BY <2>1, <3>2, ResetFaith
  <2> QED BY <2>2, <2>3
<1>2. ASSUME NEW s \in Sessions, OpenSession(s) PROVE FaithInv'
  <2>1. stream'.st # "open" /\ wire' = <<>> /\ Timeline(s)
    BY <1>2, NoStreamType DEF OpenSession, OpenWS
  <2>2. lastSeq' = 0 /\ Faithful'
    BY <2>1, EmptyFaith
  <2> QED BY <2>1, <2>2, ResetFaith
<1>3. CASE NewSession
  <2>1. /\ stream'.st # "open" /\ Timeline(None)
        /\ wire' = wire \/ wire' = <<CloseWith("abnormal")>>
        /\ sock.st \notin {"connecting", "open"} => wire' = wire
    BY <1>3, NoStreamType DEF NewSession
  <2>2. wire' = <<>> \/ wire' = <<CloseWith("abnormal")>>
    BY <1>3, <2>1 DEF NewSession, TimelineInv, Quiet
  <2>3. lastSeq' = 0 /\ Faithful'
    BY <2>1, EmptyFaith
  <2> QED BY <2>1, <2>2, <2>3, ResetFaith
<1> QED BY <1>1, <1>2, <1>3 DEF User

LEMMA ResumeSessionFaith == ASSUME Inv, FaithInv, ResumeSession PROVE FaithInv'
<1> USE DEF Inv, FaithInv
<1>1. UNCHANGED <<id, lastSeq, shown, missed, reused>>
  BY DEF ResumeSession, pageState
<1>2. CASE id = None \/ done
  BY <1>1, <1>2, StutterFaith DEF ResumeSession, sockets
<1>3. CASE ~(id = None \/ done)
  <2>1. stream'.st # "open" /\ wire' = <<>>
    BY <1>3, NoStreamType DEF ResumeSession, OpenWS
  <2> QED BY <1>1, <2>1, FaithTypes, ShownFaith, ResetFaith DEF NoNumber
<1> QED BY <1>2, <1>3

\* What clears the wire of a stream that is over, or breaks it.
LEMMA OnCloseFaith == ASSUME Inv, FaithInv, OnCloseNormal \/ OnCloseAbnormal PROVE FaithInv'
<1> USE DEF Inv, FaithInv
<1>1. /\ wire # <<>> /\ IsClose(Head(wire)) /\ wire' = <<>>
      /\ UNCHANGED <<id, lastSeq, shown, stream, missed, reused>>
  BY DEF OnCloseNormal, OnCloseAbnormal, IsClose, history
<1>2. stream.st # "open"
  BY <1>1, FaithTypes, HeadTail DEF TimelineInv, Closing
<1> QED BY <1>1, <1>2, FaithTypes, ShownFaith, ResetFaith DEF NoNumber

LEMMA BreakFaith == ASSUME Inv, FaithInv, Refuse \/ SocketBreaks PROVE FaithInv'
<1> USE DEF Inv, FaithInv
<1>1. /\ wire' = <<CloseWith("abnormal")>>
      /\ UNCHANGED <<id, lastSeq, shown, missed, reused>>
  BY DEF Refuse, SocketBreaks, pageState, history
<1>2. stream'.st # "open"
  BY NoStreamType DEF Refuse, SocketBreaks, TimelineInv, Quiet
<1> QED BY <1>1, <1>2, FaithTypes, ShownFaith, ResetFaith DEF NoNumber

-----------------------------------------------------------------------------
(* Streams that begin.                                                     *)

LEMMA AttachStartFaith ==
    ASSUME Inv, FaithInv, NEW s \in Sessions, NEW late \in 0..1, NEW lost \in 0..Len(log[s]),
           AttachStart(s, late, lost)
    PROVE  FaithInv'
<1> USE DEF Inv, FaithInv
<1> DEFINE n == Len(Found(s, late, lost))
<1>1. BeginTurn(s, late, lost)
  BY DEF AttachStart
<1>2. n \in Nat
  BY <1>1, BeginTurnType
<1>3. /\ stream' = OpenStream(turns[s] + 1, n, 0, FALSE, "tail")
      /\ missed' = missed \cup (lastSeq + 1..n)
      /\ sock.st = "connecting" /\ sock.kind = "start" /\ Target(s, sock.sid)
      /\ sock' = [sock EXCEPT !.st = "open", !.sid = s]
      /\ UNCHANGED <<id, lastSeq, shown, wire>>
  BY DEF AttachStart, Connecting, pageState
<1>4. reused' = (reused \/ (s = id /\ n < lastSeq))
  BY <1>1 DEF BeginTurn
<1> HIDE DEF n
<1>5. wire' = <<>> /\ stream'.pos = n /\ stream'.twice = FALSE
  BY <1>3 DEF TimelineInv, Quiet, OpenStream
<1>6. id = s \/ lastSeq = 0
  BY <1>3 DEF TimelineInv, Fresh, Target, NoNumber
<1>7. ~reused' => lastSeq <= n
  <2>1. CASE id = s
    <3>1. ~reused' => ~(n < lastSeq)
      BY <1>4, <2>1, Zenon
    <3> QED BY <1>2, <3>1, FaithTypes
  <2>2. CASE lastSeq = 0
    BY <1>2, <2>2
  <2> QED BY <1>6, <2>1, <2>2
<1>8. StartIsNew'
  <2>1. DOMAIN wire' = {} /\ ~stream'.twice
    BY <1>5
  <2>2. lastSeq' = lastSeq /\ (~reused' => lastSeq <= stream'.pos)
    BY <1>3, <1>5, <1>7
  <2> QED BY <2>1, <2>2 DEF StartIsNew
<1>9. InStep'
  <2>1. DOMAIN wire' = {}
    BY <1>5
  <2>2. \A k \in lastSeq' + 1..stream'.pos : k \in missed'
    BY <1>3, <1>5
  <2> QED BY <2>1, <2>2 DEF InStep
<1>10. reused => reused'
  BY <1>4, Zenon
<1>11. Faithful'
  BY <1>3, <1>10, ShownFaith
<1> QED BY <1>3, <1>8, <1>9, <1>11 DEF NoNumber

LEMMA ResumedFaith ==
    ASSUME Inv, FaithInv, NEW y, Connecting("resume"), Resumed(y),
           UNCHANGED <<id, lastSeq, shown, wire, reused>>
    PROVE  FaithInv'
<1> USE DEF Inv, FaithInv
<1> DEFINE l == Len(log[sock.sid])
<1>1. /\ sock.st = "connecting" /\ sock.kind = "resume"
      /\ sock' = [sock EXCEPT !.st = "open"]
      /\ stream' = OpenStream(turns[sock.sid], Lesser(lastSeq, l), l, y = "tail", y)
      /\ missed' = {n \in missed : n <= lastSeq}
  BY DEF Resumed, Connecting
<1>2. l \in Nat /\ lastSeq \in Nat
  <2>1. sock.sid \in Sessions
    BY <1>1, FaithTypes DEF TimelineInv, Fresh, SocketState
  <2>2. log[sock.sid] \in Seq(Event)
    BY <2>1 DEF TypeOK, ClientType
  <2> QED BY <2>2, FaithTypes
<1> HIDE DEF l
<1>3. wire' = <<>> /\ sock'.kind = "resume" /\ stream'.pos <= lastSeq /\ stream'.pos \in Nat
  BY <1>1, <1>2, FaithTypes DEF TimelineInv, Quiet, SocketState, OpenStream, Lesser
<1>4. InStep'
  <2>1. lastSeq' + 1..stream'.pos = {}
    BY <1>2, <1>3
  <2> QED BY <1>3, <2>1 DEF InStep
<1>5. StartIsNew'
  BY <1>3 DEF StartIsNew
<1>6. Faithful'
  BY <1>1, ShownFaith
<1> QED BY <1>4, <1>5, <1>6 DEF NoNumber

LEMMA AttachResumeFaith == ASSUME Inv, FaithInv, AttachResume PROVE FaithInv'
<1>1. PICK y \in {"tail", "idle", "nothing"} : Resumed(y)
  BY DEF AttachResume
<1> QED BY <1>1, ResumedFaith DEF AttachResume, pageState

-----------------------------------------------------------------------------
(* Streams that bring something.                                           *)

LEMMA SkipFrameFaith == ASSUME Inv, FaithInv, SkipFrame PROVE FaithInv'
<1> USE DEF Inv, FaithInv
<1> DEFINE p == stream.pos
           b == Advanced.twice /\ stream.pos < stream.last
<1>1. /\ HasFrame /\ stream.st = "open"
      /\ UNCHANGED <<id, lastSeq, shown, wire, sock, reused>>
      /\ missed' = missed \cup {p + 1}
      /\ stream' = [Advanced EXCEPT !.twice = b]
  BY DEF SkipFrame, HasFrame, pageState, sockets
<1>2. b \in BOOLEAN /\ (b => stream.twice)
  <2>1. b \in BOOLEAN
    BY Zenon
  <2>2. b => stream.twice
    BY <1>1, FrameType
  <2> QED BY <2>1, <2>2
<1> HIDE DEF b
<1>3. stream'.pos = p + 1 /\ stream'.twice = b /\ p \in Nat
  BY <1>1, <1>2, FrameType, FaithTypes DEF StreamState
<1>4. StartIsNew'
  <2>1. lastSeq \in Nat /\ \A i \in DOMAIN wire : wire[i].seq \in Nat
    BY FaithTypes
  <2>2. sock.kind = "start" => ~b
    BY <1>1, <1>2 DEF StartIsNew
  <2>3. sock.kind = "start" /\ ~reused =>
            lastSeq <= p + 1 /\ \A i \in DOMAIN wire : wire[i].seq <= p + 1
    BY <1>1, <1>3, <2>1 DEF StartIsNew
  <2> QED BY <1>1, <1>3, <2>2, <2>3 DEF StartIsNew
<1>5. InStep'
  <2>1. \A k \in lastSeq + 1..p + 1 : k = p + 1 \/ k \in lastSeq + 1..p
    BY <1>3, FaithTypes
  <2> QED BY <1>1, <1>3, <2>1 DEF InStep
<1>6. Faithful'
  BY <1>1, ShownFaith
<1> QED BY <1>1, <1>4, <1>5, <1>6 DEF NoNumber

LEMMA PumpTwiceFaith == ASSUME Inv, FaithInv, PumpTwice PROVE FaithInv'
<1> USE DEF Inv, FaithInv
<1>1. /\ UNCHANGED <<id, lastSeq, shown, wire, sock, missed, reused>>
      /\ stream.st = "open" /\ stream.twice
  BY DEF PumpTwice, pageState, sockets, history
<1>2. PICK n \in {m \in 0..stream.pos - 1 : m + 1 >= stream.last} :
         stream' = [stream EXCEPT !.pos = n, !.twice = FALSE]
  BY DEF PumpTwice
<1>3. n \in Nat /\ n <= stream.pos /\ stream.pos \in Nat /\ lastSeq \in Nat
  BY FaithTypes
<1>4. stream'.pos = n
  BY <1>2, FaithTypes DEF StreamState
<1>5. sock.kind # "start"
  BY <1>1 DEF StartIsNew
<1>6. InStep'
  <2>1. \A k \in lastSeq + 1..n : k \in lastSeq + 1..stream.pos
    BY <1>3
  <2> QED BY <1>1, <1>4, <2>1 DEF InStep
<1>7. StartIsNew' /\ NoNumber'
  BY <1>1, <1>5 DEF StartIsNew, NoNumber
<1>8. Faithful'
  BY <1>1, ShownFaith
<1> QED BY <1>6, <1>7, <1>8

\* The wire grows by the next frame of the stream, or by messages without number.
LEMMA WireFaith ==
    ASSUME Inv, FaithInv, TypeOK', Len(wire') > Len(wire),
           \A i \in 1..Len(wire) : wire'[i] = wire[i],
           \A i \in Len(wire) + 2..Len(wire') : wire'[i].seq = 0,
           NEW n \in Nat, wire'[Len(wire) + 1].seq = n,
           n > 0 => stream.st = "open" /\ n = stream.pos + 1,
           stream'.st = "open" => n > 0 /\ stream'.pos = n /\ stream'.twice = stream.twice,
           UNCHANGED <<id, lastSeq, shown, missed, reused, sock>>
    PROVE  FaithInv'
<1> USE DEF Inv, FaithInv
<1> DEFINE L == Len(wire)
           M == Len(wire')
<1>1. /\ L \in Nat /\ M \in Nat /\ M > L
      /\ DOMAIN wire = 1..L /\ DOMAIN wire' = 1..M
      /\ lastSeq \in Nat /\ stream.pos \in Nat
      /\ \A i \in 1..L : wire[i].seq \in Nat
  BY FaithTypes DEF TypeOK, WireType
<1>2. /\ \A i \in 1..L : wire'[i] = wire[i]
      /\ wire'[L + 1].seq = n
      /\ \A i \in L + 2..M : wire'[i].seq = 0
  OBVIOUS
<1> HIDE DEF L, M
<1>3. \A i \in DOMAIN wire' :
          i \in DOMAIN wire \/ i = L + 1 \/ (i \in L + 2..M)
  BY <1>1
<1>4. \A i \in DOMAIN wire : i \in DOMAIN wire' /\ i < L + 1 /\ wire'[i] = wire[i]
  BY <1>1, <1>2
<1>5. StartIsNew'
  <2>1. sock.kind = "start" /\ stream'.st = "open" => ~stream'.twice
    BY DEF StartIsNew
  <2> SUFFICES ASSUME sock.kind = "start", ~reused
      PROVE  /\ \A i \in DOMAIN wire' : wire'[i].seq > 0 => wire'[i].seq > lastSeq
             /\ \A i, j \in DOMAIN wire' :
                  i < j /\ wire'[i].seq > 0 /\ wire'[j].seq > 0 => wire'[i].seq < wire'[j].seq
             /\ stream'.st = "open" =>
                  /\ lastSeq <= stream'.pos
                  /\ \A i \in DOMAIN wire' : wire'[i].seq <= stream'.pos
    BY <2>1 DEF StartIsNew
  <2>2. n > 0 => /\ n > lastSeq
                 /\ \A i \in DOMAIN wire : wire[i].seq < n
    BY <1>1 DEF StartIsNew
  <2>3. \A i \in DOMAIN wire' : wire'[i].seq > 0 => wire'[i].seq > lastSeq
    BY <1>2, <1>3, <1>4, <2>2 DEF StartIsNew
  <2>4. ASSUME NEW i \in DOMAIN wire', NEW j \in DOMAIN wire', i < j,
               wire'[i].seq > 0, wire'[j].seq > 0
        PROVE  wire'[i].seq < wire'[j].seq
    <3>1. i \in DOMAIN wire
      BY <1>1, <1>2, <1>3, <2>4
    <3>2. CASE j \in DOMAIN wire
      BY <1>4, <2>4, <3>1, <3>2 DEF StartIsNew
    <3>3. CASE j = L + 1
      BY <1>2, <1>4, <2>2, <2>4, <3>1, <3>3
    <3> QED BY <1>2, <1>3, <2>4, <3>2, <3>3
  <2>5. stream'.st = "open" =>
                  /\ lastSeq <= n
                  /\ \A i \in DOMAIN wire' : wire'[i].seq <= n
    <3> SUFFICES ASSUME stream'.st = "open"
                 PROVE  /\ lastSeq <= n
                        /\ \A i \in DOMAIN wire' : wire'[i].seq <= n
      OBVIOUS
    <3>1. n > 0 /\ lastSeq <= n
      BY <1>1, <2>2
    <3>2. ASSUME NEW i \in DOMAIN wire' PROVE wire'[i].seq <= n
      <4>1. CASE i \in DOMAIN wire
        BY <1>1, <1>4, <2>2, <3>1, <4>1
      <4>2. CASE i = L + 1
        BY <1>2, <4>2
      <4>3. CASE i \in L + 2..M
        BY <1>2, <4>3
      <4> QED BY <1>3, <4>1, <4>2, <4>3
    <3> QED BY <3>1, <3>2
  <2> QED BY <2>3, <2>4, <2>5
<1>6. InStep'
  <2>1. stream.st = "open" => \A k \in lastSeq + 1..stream.pos :
            k \in missed \/ \E j \in DOMAIN wire' : j < L + 1 /\ wire'[j].seq = k
    BY <1>4 DEF InStep
  <2>2. ASSUME NEW i \in DOMAIN wire', NEW k \in lastSeq + 1..wire'[i].seq - 1
        PROVE  k \in missed \/ \E j \in DOMAIN wire' : j < i /\ wire'[j].seq = k
    <3>1. CASE i \in DOMAIN wire
      <4>1. k \in lastSeq + 1..wire[i].seq - 1
        BY <1>4, <3>1
      <4>2. k \in missed \/ \E j \in DOMAIN wire : j < i /\ wire[j].seq = k
        BY <3>1, <4>1 DEF InStep
      <4> QED BY <1>4, <4>2
    <3>2. CASE i = L + 1
      <4>1. k \in lastSeq + 1..n - 1
        BY <1>2, <3>2
      <4>2. n > 0
        BY <1>1, <4>1
      <4>3. stream.st = "open" /\ n - 1 = stream.pos
        BY <1>1, <4>2
      <4> QED BY <2>1, <3>2, <4>1, <4>3
    <3>3. CASE i \in L + 2..M
      <4>1. wire'[i].seq = 0
        BY <1>2, <3>3
      <4> QED BY <1>1, <4>1
    <3> QED BY <1>3, <3>1, <3>2, <3>3
  <2>3. ASSUME stream'.st = "open", NEW k \in lastSeq + 1..stream'.pos
        PROVE  k \in missed \/ \E j \in DOMAIN wire' : wire'[j].seq = k
    <3>1. CASE k = n
      <4>1. L + 1 \in DOMAIN wire'
        BY <1>1
      <4> QED BY <1>2, <3>1, <4>1
    <3>2. CASE k # n
      <4>1. stream.st = "open" /\ k \in lastSeq + 1..stream.pos
        BY <1>1, <2>3, <3>2
      <4> QED BY <2>1, <4>1
    <3> QED BY <3>1, <3>2
  <2> QED BY <2>2, <2>3 DEF InStep
<1>7. Faithful'
  BY ShownFaith
<1> QED BY <1>5, <1>6, <1>7 DEF NoNumber

LEMMA PumpFrameFaith == ASSUME Inv, FaithInv, PumpFrame PROVE FaithInv'
<1> USE DEF Inv, FaithInv
<1> DEFINE n == stream.pos + 1
           m == Msg(Frame.type, sock.sid, n)
           b == Advanced.saw \/ Frame.type \in Terminal
<1>1. /\ HasFrame /\ stream.st = "open"
      /\ stream' = [Advanced EXCEPT !.saw = b]
      /\ wire' = Append(wire, m)
      /\ UNCHANGED <<id, lastSeq, shown, missed, reused, sock>>
  BY DEF PumpFrame, HasFrame, pageState, history
<1>2. TypeOK'
  BY PumpFrameInv
<1>3. n \in Nat /\ n > 0 /\ n = stream.pos + 1 /\ m.seq = n /\ m \in Message
  <2>1. sock.sid \in Sessions
    BY <1>1, OpenStreamSession
  <2>2. Frame \in Event
    BY <1>1, FrameType
  <2> QED BY <2>1, <2>2, FaithTypes DEF Msg, Message, Event
<1> HIDE DEF b, m
<1>4. stream'.pos = n /\ stream'.twice = stream.twice
  BY <1>1, FrameType DEF StreamState
<1> HIDE DEF n
<1>5. /\ Len(wire') = Len(wire) + 1 /\ Len(wire) \in Nat
      /\ \A i \in 1..Len(wire) : wire'[i] = wire[i]
      /\ wire'[Len(wire) + 1] = m
  BY <1>1, <1>3, FaithTypes
<1>6. Len(wire') > Len(wire) /\ \A i \in Len(wire) + 2..Len(wire') : wire'[i].seq = 0
  BY <1>5
<1>7. wire'[Len(wire) + 1].seq = n
  BY <1>3, <1>5
<1> QED BY <1>1, <1>2, <1>3, <1>4, <1>5, <1>6, <1>7, WireFaith

LEMMA StreamEndsFaith == ASSUME Inv, FaithInv, StreamEnds PROVE FaithInv'
<1> USE DEF Inv, FaithInv
<1>1. PICK last \in LastFrames :
         /\ stream' = NoStream
         /\ wire' = wire \o last \o <<Code(stream.saw \/ last # <<>>)>>
  BY DEF StreamEnds
<1> DEFINE c == Code(stream.saw \/ last # <<>>)
<1>2. /\ stream.st = "open" /\ stream'.st # "open"
      /\ UNCHANGED <<id, lastSeq, shown, missed, reused, sock>>
  BY <1>1, NoStreamType DEF StreamEnds, Over, pageState, history
<1>3. TypeOK'
  BY StreamEndsInv
<1>4. c \in Message /\ c.seq = 0
  BY CloseType DEF Code, CloseWith, Msg
<1>5. /\ last \in Seq(Message)
      /\ \/ last = <<>>
         \/ Len(last) = 1 /\ last[1].seq = 0
         \/ Len(last) = 1 /\ last[1].seq = stream.pos + 1
  BY <1>2, LastFramesType
<1>6. wire' = wire \o last \o <<c>>
  BY <1>1
<1> HIDE DEF c
<1>7. /\ wire \in Seq(Message) /\ Len(wire) \in Nat
      /\ stream.pos + 1 \in Nat /\ stream.pos \in Nat
  BY FaithTypes
<1>8. CASE last = <<>>
  <2>1. wire' = Append(wire, c)
    BY <1>4, <1>6, <1>7, <1>8
  <2>2. /\ Len(wire') = Len(wire) + 1
        /\ \A i \in 1..Len(wire) : wire'[i] = wire[i]
        /\ wire'[Len(wire) + 1] = c
    BY <1>4, <1>7, <2>1
  <2>3. Len(wire') > Len(wire) /\ \A i \in Len(wire) + 2..Len(wire') : wire'[i].seq = 0
    BY <1>7, <2>2
  <2>4. wire'[Len(wire) + 1].seq = 0
    BY <1>4, <2>2
  <2> QED BY <1>2, <1>3, <2>2, <2>3, <2>4, WireFaith
<1>9. CASE Len(last) = 1 /\ (last[1].seq = 0 \/ last[1].seq = stream.pos + 1)
  <2> DEFINE n == last[1].seq
  <2>1. n \in Nat /\ (n > 0 => n = stream.pos + 1)
    BY <1>7, <1>9
  <2>2. /\ Len(wire') = Len(wire) + 2
        /\ \A i \in 1..Len(wire) : wire'[i] = wire[i]
        /\ wire'[Len(wire) + 1] = last[1]
        /\ wire'[Len(wire) + 2] = c
    <3> DEFINE w == wire \o last
    <3>1. /\ w \in Seq(Message) /\ Len(w) = Len(wire) + 1
          /\ \A i \in 1..Len(wire) : w[i] = wire[i]
          /\ w[Len(wire) + 1] = last[1]
      <4> DEFINE k == Len(wire)
      <4>1. /\ w \in Seq(Message) /\ Len(w) = k + Len(last)
            /\ \A i \in 1..k + Len(last) :
                   w[i] = IF i <= k THEN wire[i] ELSE last[i - k]
        BY ONLY <1>5, <1>7, ConcatProperties
      <4>2. k \in Nat /\ Len(last) = 1
        BY <1>7, <1>9
      <4> HIDE DEF w, k
      <4>3. (k + 1) - k = 1 /\ ~(k + 1 <= k) /\ k + 1 \in 1..k + 1
        BY <4>2
      <4>4. \A i \in 1..k : i \in 1..k + 1 /\ i <= k
        BY <4>2
      <4> QED BY <4>1, <4>2, <4>3, <4>4 DEF k
    <3>2. wire' = w \o <<c>>
      BY <1>6
    <3> HIDE DEF w
    <3>3. wire' = Append(w, c)
      BY <1>4, <3>1, <3>2
    <3>4. /\ Len(wire') = Len(w) + 1
          /\ \A i \in 1..Len(w) : wire'[i] = w[i]
          /\ wire'[Len(w) + 1] = c
      BY <1>4, <3>1, <3>3, AppendProperties
    <3> QED BY <1>7, <3>1, <3>4
  <2>3. /\ Len(wire') > Len(wire)
        /\ \A i \in Len(wire) + 2..Len(wire') : wire'[i].seq = 0
    BY <1>4, <1>7, <2>2
  <2>4. wire'[Len(wire) + 1].seq = n
    BY <2>2
  <2> HIDE DEF n
  <2> QED BY <1>2, <1>3, <2>1, <2>2, <2>3, <2>4, WireFaith
<1> QED BY <1>5, <1>8, <1>9

LEMMA TunnelBreaksFaith == ASSUME Inv, FaithInv, TunnelBreaks PROVE FaithInv'
<1> USE DEF Inv, FaithInv
<1>1. UNCHANGED <<id, lastSeq, shown, missed, reused, sock>>
  BY DEF TunnelBreaks, pageState, history
<1>2. CASE stream.st = "open"
  <2> DEFINE c == Code(stream.saw)
  <2>1. stream'.st = "lost" /\ wire' = Append(wire, c)
    BY <1>2, NoStreamType DEF TunnelBreaks, StreamState
  <2>2. c \in Message /\ c.seq = 0
    BY CloseType DEF Code, CloseWith, Msg
  <2> HIDE DEF c
  <2>3. /\ Len(wire') = Len(wire) + 1 /\ Len(wire) \in Nat
        /\ \A i \in 1..Len(wire) : wire'[i] = wire[i]
        /\ wire'[Len(wire) + 1] = c
    BY <2>1, <2>2, FaithTypes
  <2>4. Len(wire') > Len(wire) /\ \A i \in Len(wire) + 2..Len(wire') : wire'[i].seq = 0
    BY <2>3
  <2>5. TypeOK'
    BY TunnelBreaksInv
  <2>6. wire'[Len(wire) + 1].seq = 0
    BY <2>2, <2>3
  <2> QED BY <1>1, <2>1, <2>3, <2>4, <2>5, <2>6, WireFaith
<1>3. CASE stream.st # "open"
  BY <1>1, <1>3, StutterFaith DEF TunnelBreaks
<1> QED BY <1>2, <1>3

-----------------------------------------------------------------------------
(* What the page shows.                                                    *)

\* The timeline grows by an event of number n.
LEMMA GrownTimeline ==
    ASSUME TypeOK, NEW s \in Sessions, NEW n \in Nat \ {0},
           shown' = Append(shown, [sid |-> s, seq |-> n])
    PROVE  /\ Len(shown) \in Nat /\ DOMAIN shown = 1..Len(shown)
           /\ DOMAIN shown' = 1..Len(shown) + 1
           /\ \A i \in 1..Len(shown) : shown'[i] = shown[i] /\ shown[i].seq \in Nat
           /\ shown'[Len(shown) + 1].seq = n
<1> DEFINE T == [sid : Sessions, seq : Nat \ {0}]
           x == [sid |-> s, seq |-> n]
<1>1. x \in T /\ x.seq = n /\ shown \in Seq(T) /\ shown' = Append(shown, x)
  <2>1. shown \in Seq(T)
    BY FaithTypes
  <2>2. x \in T /\ x.seq = n
    OBVIOUS
  <2> QED BY <2>1, <2>2
<1> HIDE DEF x, T
<1>2. \A i \in DOMAIN shown : shown[i] \in T
  BY <1>1
<1>3. \A i \in DOMAIN shown : shown[i].seq \in Nat
  BY <1>2 DEF T
<1>4. /\ Len(shown) \in Nat /\ Len(shown') = Len(shown) + 1 /\ shown' \in Seq(T)
      /\ \A i \in 1..Len(shown) : shown'[i] = shown[i]
      /\ shown'[Len(shown) + 1] = x
  BY <1>1, AppendProperties, LenProperties
<1>5. DOMAIN shown = 1..Len(shown) /\ DOMAIN shown' = 1..Len(shown) + 1
  BY <1>1, <1>4, LenProperties
<1> QED BY <1>1, <1>3, <1>4, <1>5

\* What a message of the current socket does to the timeline.
LEMMA OnMessageFaith == ASSUME Inv, FaithInv, OnMessage PROVE FaithInv'
<1> USE DEF Inv, FaithInv
<1> DEFINE m == Head(wire)
           n == Head(wire).seq
<1>1. /\ wire # <<>> /\ ~IsClose(m) /\ wire' = Tail(wire)
      /\ UNCHANGED <<missed, reused, sock, stream>>
  BY DEF OnMessage
<1>2. /\ m \in Message /\ n \in Nat /\ m = wire[1] /\ 1 \in DOMAIN wire
      /\ m.sid = sock.sid /\ Matches /\ sock.sid \in Sessions
  <2>1. /\ m \in Message /\ m = wire[1] /\ 1 \in DOMAIN wire
    BY <1>1, FaithTypes, HeadTail
  <2>2. m.sid = sock.sid /\ Matches
    BY <1>1, <2>1 DEF TimelineInv, Carrying
  <2>3. sock.sid \in Sessions
    BY <2>2, FaithTypes DEF Matches, SocketState
  <2> QED BY <2>1, <2>2, <2>3 DEF Message
<1>3. /\ \A i \in DOMAIN wire' : i + 1 \in DOMAIN wire /\ wire'[i] = wire[i + 1] /\ i \in Nat
                                 /\ i >= 1
      /\ \A j \in DOMAIN wire : j = 1 \/ (j - 1 \in DOMAIN wire' /\ wire'[j - 1] = wire[j])
  <2>1. /\ Len(wire') = Len(wire) - 1 /\ Len(wire) \in Nat
        /\ DOMAIN wire = 1..Len(wire) /\ DOMAIN wire' = 1..Len(wire')
        /\ \A i \in 1..Len(wire') : wire'[i] = wire[i + 1]
    BY <1>1, FaithTypes, HeadTailProperties
  <2> QED BY <2>1
<1>4. \A j \in DOMAIN wire : wire[j].seq \in Nat /\ j \in Nat
  BY FaithTypes
<1>5. lastSeq \in Nat /\ stream.pos \in Nat /\ missed \subseteq Nat
  BY FaithTypes
<1> HIDE DEF m, n
<1>6. \/ lastSeq' = lastSeq /\ n <= lastSeq /\ shown' = shown
      \/ /\ lastSeq' = lastSeq /\ 0 < n /\ n <= lastSeq /\ sock.kind = "start"
         /\ shown' = Append(shown, [sid |-> sock.sid, seq |-> n])
      \/ /\ lastSeq' = n /\ n > lastSeq
         /\ shown' = Append(shown, [sid |-> sock.sid, seq |-> n])
  <2>1. CASE Repeats(m)
    BY <1>1, <2>1 DEF OnMessage, Repeats, pageState, m, n
  <2>2. CASE ~Repeats(m)
    <3>1. /\ lastSeq' = IF n > lastSeq THEN n ELSE lastSeq
          /\ shown' = IF n > 0 THEN Append(shown, [sid |-> sock.sid, seq |-> n]) ELSE shown
      BY <1>2, <2>2 DEF OnMessage, Show, m, n
    <3>2. sock.kind = "start" \/ (n > 0 => n > lastSeq)
      BY <1>2, <1>5, <2>2, FaithTypes DEF Repeats, m, n, SocketState
    <3>3. CASE n = 0
      BY <1>2, <1>5, <3>1, <3>3
    <3>4. CASE n > lastSeq
      BY <1>2, <1>5, <3>1, <3>4
    <3>5. CASE n # 0 /\ ~(n > lastSeq)
      BY <1>2, <1>5, <3>1, <3>2, <3>5
    <3> QED BY <3>3, <3>4, <3>5
  <2> QED BY <2>1, <2>2
<1>7. id' = id \/ id' = sock.sid
  <2>1. CASE Repeats(m)
    BY <2>1 DEF OnMessage, pageState, m
  <2>2. CASE ~Repeats(m)
    BY <1>2, <2>2 DEF OnMessage, Show, m
  <2> QED BY <2>1, <2>2
<1>8. /\ lastSeq <= lastSeq' /\ n <= lastSeq' /\ lastSeq' \in Nat
      /\ lastSeq' = lastSeq \/ lastSeq' = n
  BY <1>2, <1>5, <1>6
<1>9. NoNumber'
  <2> SUFFICES ASSUME id' = None PROVE lastSeq' = 0
    BY DEF NoNumber
  <2>1. id = None /\ sock.kind = "start"
    BY <1>2, <1>7, ConstantsAssumption DEF Matches
  <2>2. Repeats(m)
    BY <1>2, <2>1, ConstantsAssumption DEF OnMessage, Show, m
  <2> QED BY <2>1, <2>2 DEF Repeats
<1>10. StartIsNew'
  <2>0. sock.kind = "start" /\ stream.st = "open" => ~stream.twice
    BY DEF StartIsNew
  <2> SUFFICES ASSUME sock.kind = "start", ~reused
      PROVE  /\ \A i \in DOMAIN wire' : wire'[i].seq > 0 => wire'[i].seq > lastSeq'
             /\ \A i, j \in DOMAIN wire' :
                  i < j /\ wire'[i].seq > 0 /\ wire'[j].seq > 0 => wire'[i].seq < wire'[j].seq
             /\ stream.st = "open" =>
                  /\ lastSeq' <= stream.pos
                  /\ \A i \in DOMAIN wire' : wire'[i].seq <= stream.pos
    BY <1>1, <2>0 DEF StartIsNew
  <2>1. ASSUME NEW i \in DOMAIN wire', wire'[i].seq > 0
        PROVE  wire'[i].seq > lastSeq'
    <3>1. /\ i + 1 \in DOMAIN wire /\ 1 < i + 1
          /\ wire[i + 1].seq > 0 /\ wire'[i] = wire[i + 1]
      BY <1>3, <2>1
    <3>2. wire[i + 1].seq > lastSeq
      BY <3>1 DEF StartIsNew
    <3>3. n > 0 => n < wire[i + 1].seq
      BY <1>2, <3>1 DEF StartIsNew, m, n
    <3> QED BY <1>2, <1>8, <3>1, <3>2, <3>3
  <2>2. ASSUME NEW i \in DOMAIN wire', NEW j \in DOMAIN wire', i < j,
               wire'[i].seq > 0, wire'[j].seq > 0
        PROVE  wire'[i].seq < wire'[j].seq
    BY <1>3, <2>2 DEF StartIsNew
  <2>3. stream.st = "open" =>
                  /\ lastSeq' <= stream.pos
                  /\ \A i \in DOMAIN wire' : wire'[i].seq <= stream.pos
    <3>1. stream.st = "open" => n <= stream.pos /\ lastSeq <= stream.pos
      BY <1>2 DEF StartIsNew, m, n
    <3>2. stream.st = "open" => \A i \in DOMAIN wire' : wire'[i].seq <= stream.pos
      BY <1>3 DEF StartIsNew
    <3> QED BY <1>8, <3>1, <3>2
  <2> QED BY <2>1, <2>2, <2>3
<1>11. InStep'
  <2>1. ASSUME NEW i \in DOMAIN wire', NEW k \in lastSeq' + 1..wire'[i].seq - 1
        PROVE  k \in missed \/ \E j \in DOMAIN wire' : j < i /\ wire'[j].seq = k
    <3>1. i + 1 \in DOMAIN wire /\ wire'[i] = wire[i + 1] /\ i \in Nat
      BY <1>3
    <3>2. k \in lastSeq + 1..wire[i + 1].seq - 1 /\ k > n
      <4>1. wire[i + 1].seq \in Nat
        BY <1>4, <3>1
      <4> QED BY <1>2, <1>5, <1>8, <3>1, <4>1
    <3>3. k \in missed \/ \E j \in DOMAIN wire : j < i + 1 /\ wire[j].seq = k
      BY <3>1, <3>2 DEF InStep
    <3>4. ASSUME NEW j \in DOMAIN wire, j < i + 1, wire[j].seq = k
          PROVE  \E q \in DOMAIN wire' : q < i /\ wire'[q].seq = k
      <4>1. j # 1
        BY <1>2, <3>2, <3>4 DEF n, m
      <4>2. j - 1 \in DOMAIN wire' /\ wire'[j - 1] = wire[j] /\ j - 1 < i
        BY <1>3, <1>4, <3>1, <3>4, <4>1
      <4> QED BY <3>4, <4>2
    <3> QED BY <3>3, <3>4
  <2>2. ASSUME stream.st = "open", NEW k \in lastSeq' + 1..stream.pos
        PROVE  k \in missed \/ \E j \in DOMAIN wire' : wire'[j].seq = k
    <3>1. k \in lastSeq + 1..stream.pos /\ k > n
      <4> DEFINE a == lastSeq
                 b == lastSeq'
                 p == stream.pos
      <4>1. a \in Nat /\ b \in Nat /\ p \in Nat /\ n \in Nat /\ a <= b /\ n <= b
        BY <1>2, <1>5, <1>8
      <4>2. k \in b + 1..p
        OBVIOUS
      <4> HIDE DEF a, b, p
      <4>3. k \in a + 1..p /\ k > n
        BY <4>1, <4>2
      <4> QED BY <4>3 DEF a, p
    <3>2. k \in missed \/ \E j \in DOMAIN wire : wire[j].seq = k
      BY <2>2, <3>1 DEF InStep
    <3>3. ASSUME NEW j \in DOMAIN wire, wire[j].seq = k
          PROVE  \E q \in DOMAIN wire' : wire'[q].seq = k
      <4>1. j # 1
        BY <1>2, <3>1, <3>3 DEF n, m
      <4> QED BY <1>3, <3>3, <4>1
    <3> QED BY <3>2, <3>3
  <2> QED BY <1>1, <2>1, <2>2 DEF InStep
<1>12. Faithful'
  <2>1. CASE lastSeq' = lastSeq /\ shown' = shown
    BY <1>1, <2>1, ShownFaith
  <2>2. CASE /\ n > 0 /\ shown' = Append(shown, [sid |-> sock.sid, seq |-> n])
             /\ \/ lastSeq' = lastSeq /\ n <= lastSeq /\ sock.kind = "start"
                \/ lastSeq' = n /\ n > lastSeq
    <3> DEFINE l == Len(shown)
    <3>1. /\ l \in Nat /\ DOMAIN shown = 1..l /\ DOMAIN shown' = 1..l + 1
          /\ \A i \in 1..l : shown'[i] = shown[i] /\ shown[i].seq \in Nat
          /\ shown'[l + 1].seq = n
      BY <1>2, <2>2, GrownTimeline
    <3> HIDE DEF l
    <3>2. \A i \in DOMAIN shown' : i = l + 1 \/ (i \in DOMAIN shown /\ shown'[i] = shown[i])
      BY <3>1
    <3>3. \A i \in DOMAIN shown : shown[i].seq <= lastSeq /\ shown[i].seq \in Nat
      BY <3>1 DEF Faithful
    <3>4. \A i \in DOMAIN shown' : shown'[i].seq <= lastSeq'
      BY <1>2, <1>5, <1>8, <3>1, <3>2, <3>3
    <3>5. ASSUME NEW k \in 1..lastSeq'
          PROVE  k \in missed \/ \E i \in DOMAIN shown' : shown'[i].seq = k
      <4>1. CASE k <= lastSeq
        <5>1. k \in 1..lastSeq
          BY <1>5, <1>8, <4>1
        <5>2. k \in missed \/ \E i \in DOMAIN shown : shown[i].seq = k
          BY <5>1 DEF Faithful, TimelineFaithful
        <5>3. \A i \in DOMAIN shown : i \in DOMAIN shown' /\ shown'[i] = shown[i]
          BY <3>1
        <5> QED BY <5>2, <5>3
      <4>2. CASE k = n
        <5>1. l + 1 \in DOMAIN shown'
          BY <3>1
        <5> QED BY <3>1, <4>2, <5>1
      <4>3. CASE ~(k <= lastSeq) /\ k # n
        <5>1. k \in lastSeq + 1..wire[1].seq - 1
          BY <1>2, <1>5, <1>8, <4>3 DEF n, m
        <5>2. k \in missed \/ \E j \in DOMAIN wire : j < 1
          BY <1>2, <5>1 DEF InStep
        <5> QED BY <5>2, FaithTypes
      <4> QED BY <4>1, <4>2, <4>3
    <3>6. ASSUME ~reused, NEW i \in DOMAIN shown', NEW j \in DOMAIN shown', i < j
          PROVE  shown'[i].seq < shown'[j].seq
      <4>1. n > lastSeq
        <5>1. sock.kind = "start" => n > lastSeq
          BY <1>2, <2>2, <3>6 DEF StartIsNew, m, n
        <5> QED BY <2>2, <5>1
      <4>2. i \in DOMAIN shown /\ shown'[i] = shown[i]
        BY <3>1, <3>2, <3>6
      <4>3. CASE j = l + 1
        BY <1>2, <1>5, <3>1, <3>3, <4>1, <4>2, <4>3
      <4>4. CASE j # l + 1
        <5>1. j \in DOMAIN shown /\ shown'[j] = shown[j]
          BY <3>2, <4>4
        <5> QED BY <3>6, <4>2, <5>1 DEF Faithful, TimelineFaithful
      <4> QED BY <4>3, <4>4
    <3>7. TimelineFaithful'
      BY <1>1, <3>5, <3>6 DEF TimelineFaithful
    <3> QED BY <3>4, <3>7 DEF Faithful
  <2>3. lastSeq' = n /\ n > lastSeq => n > 0
    BY <1>2, <1>5
  <2> QED BY <1>6, <2>1, <2>2, <2>3
<1> QED BY <1>9, <1>10, <1>11, <1>12

-----------------------------------------------------------------------------
LEMMA FaithInit == ASSUME Init PROVE FaithInv
<1>1. /\ DOMAIN wire = {} /\ DOMAIN shown = {} /\ lastSeq = 0 /\ stream.st # "open"
  BY NoStreamType DEF Init
<1> QED BY <1>1
        DEF FaithInv, StartIsNew, InStep, NoNumber, Faithful, TimelineFaithful

LEMMA AgentFaith == ASSUME Inv, FaithInv, Agent PROVE FaithInv'
<1>1. PICK s \in Sessions :
        \/ \E type \in {"event", "error"} : TurnEvent(s, type)
        \/ TurnEnds(s)
        \/ FailedStart(s)
        \/ \E asked \in orphans, late \in 0..1 :
              \E lost \in 0..Len(log[s]) : StartOrphan(s, asked, late, lost)
  BY DEF Agent
<1>2. CASE (\E type \in {"event", "error"} : TurnEvent(s, type)) \/ TurnEnds(s)
  BY <1>2, StutterFaith DEF TurnEvent, TurnEnds, pageState, sockets, history
<1>3. CASE FailedStart(s)
  <2>1. UNCHANGED <<id, lastSeq, shown, wire, reused>>
    BY <1>3 DEF FailedStart, pageState
  <2>2. \/ Connecting("resume") /\ Resumed("wait")
        \/ UNCHANGED <<sock, stream, missed>>
    BY <1>3 DEF FailedStart
  <2> QED BY <2>1, <2>2, ResumedFaith, StutterFaith
<1>4. CASE \E asked \in orphans, late \in 0..1 :
              \E lost \in 0..Len(log[s]) : StartOrphan(s, asked, late, lost)
  <2>1. PICK asked \in orphans, late \in 0..1 :
           \E lost \in 0..Len(log[s]) : StartOrphan(s, asked, late, lost)
    BY <1>4
  <2>2. PICK lost \in 0..Len(log[s]) : StartOrphan(s, asked, late, lost)
    BY <2>1
  <2>3. UNCHANGED <<id, lastSeq, shown, wire, sock, stream, missed>>
    BY <2>2 DEF StartOrphan, pageState, sockets
  <2>4. reused => reused'
    BY <2>2, Zenon DEF StartOrphan, BeginTurn
  <2> QED BY <2>3, <2>4, StutterFaith
<1> QED BY <1>1, <1>2, <1>3, <1>4

LEMMA NextFaith == ASSUME Inv, FaithInv, [Next]_vars PROVE FaithInv'
<1>1. CASE User
  BY <1>1, UserFaith
<1>2. CASE ResumeSession \/ OnMessage \/ OnCloseNormal \/ OnCloseAbnormal
  BY <1>2, ResumeSessionFaith, OnMessageFaith, OnCloseFaith
<1>3. CASE StaleIgnored \/ TunnelIsBack \/ UNCHANGED vars
  BY <1>3, StutterFaith
     DEF StaleIgnored, TunnelIsBack, vars, pageState, sockets, history
<1>4. CASE SessionWS
  BY <1>4, BreakFaith, AttachResumeFaith, PumpFrameFaith, PumpTwiceFaith, StreamEndsFaith,
     AttachStartFaith DEF SessionWS
<1>5. CASE Agent \/ SkipFrame
  BY <1>5, AgentFaith, SkipFrameFaith
<1>6. CASE TunnelBreaks \/ SocketBreaks
  BY <1>6, TunnelBreaksFaith, BreakFaith
<1> QED BY <1>1, <1>2, <1>3, <1>4, <1>5, <1>6 DEF Next, Handlers

\* Through any number of breaks, resumes and turns every number up to the one the
\* next resume asks from is on the timeline, unless the page was not sent it,
\* and the timeline is in order and without repetitions, unless a turn was given
\* numbers it had already (onmessage, resumeSession, HandleResume).
THEOREM TimelineInOrder == Spec => []TimelineFaithful
<1>1. Init => FaithInv
  BY FaithInit
<1>2. Inv /\ FaithInv /\ [Next]_vars => FaithInv'
  BY NextFaith
<1>3. FaithInv => TimelineFaithful
  BY DEF FaithInv, Faithful
<1> QED BY <1>1, <1>2, <1>3, Invariance, PTL DEF Spec
=============================================================================
